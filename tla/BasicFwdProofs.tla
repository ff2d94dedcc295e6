--------------------------- MODULE BasicFwdProofs ---------------------------
(***************************************************************************)
(* basicfwd for any number of ports, mbufs and burst size: who owns an     *)
(* mbuf, and which frames a TX ring holds when bursts are of one frame.    *)
(***************************************************************************)
EXTENDS BasicFwd, SequenceTheorems, FiniteSetTheorems, TLAPS

Contents == Octets \cup {BroadcastOctet, NoOctet}

TypeInv ==
  /\ main = "run" => NbPorts > 0
  /\ NbPorts > 0 => port \in FwdPorts
  /\ pool \subseteq Mbufs /\ stranded \subseteq Mbufs
  /\ rxq \in [FwdPorts -> Seq(Mbufs)] /\ txq \in [FwdPorts -> Seq(Mbufs)]
  /\ octet \in [Mbufs -> Contents]

\* No ring or pair of rings holds an mbuf twice.
NoTwice(ring) ==
  \A p, q \in FwdPorts : \A k \in 1 .. Len(ring[p]), j \in 1 .. Len(ring[q]) :
    ring[p][k] = ring[q][j] => p = q /\ k = j

\* What is in one place is in no other.
Apart ==
  /\ pool \cap stranded = {}
  /\ \A p \in FwdPorts : \A k \in 1 .. Len(rxq[p]) :
       rxq[p][k] \notin pool /\ rxq[p][k] \notin stranded
  /\ \A p \in FwdPorts : \A k \in 1 .. Len(txq[p]) :
       txq[p][k] \notin pool /\ txq[p][k] \notin stranded
  /\ \A p, q \in FwdPorts : \A k \in 1 .. Len(rxq[p]), j \in 1 .. Len(txq[q]) :
       rxq[p][k] # txq[q][j]

\* And everything is in some place.
Somewhere ==
  \A b \in Mbufs :
    \/ b \in pool \/ b \in stranded
    \/ \E p \in FwdPorts : \E k \in 1 .. Len(rxq[p]) : rxq[p][k] = b
    \/ \E p \in FwdPorts : \E k \in 1 .. Len(txq[p]) : txq[p][k] = b

Owned == NoTwice(rxq) /\ NoTwice(txq) /\ Apart /\ Somewhere

IndInv == TypeInv /\ (main # "crash" => Owned)

----------------------------------------------------------------------------
\* What Owned says with quantifiers is what OneOwner counts.
LEMMA OwnedCounts == IndInv => OneOwner
<1> SUFFICES ASSUME IndInv, main # "crash", NEW b \in Mbufs
             PROVE  Cardinality(Places(b)) = 1
  BY DEF OneOwner
<1>1. TypeInv /\ Owned
  BY DEF IndInv
<1>2. \A p \in FwdPorts : /\ DOMAIN rxq[p] = 1 .. Len(rxq[p])
                       /\ DOMAIN txq[p] = 1 .. Len(txq[p])
  BY <1>1, LenProperties DEF TypeInv
<1>3. \A s : s \in Slots(rxq, b) <=>
        \E p \in FwdPorts : \E k \in 1 .. Len(rxq[p]) :
          rxq[p][k] = b /\ s = <<p, k>>
  BY <1>2 DEF Slots
<1>4. \A s : s \in Slots(txq, b) <=>
        \E p \in FwdPorts : \E k \in 1 .. Len(txq[p]) :
          txq[p][k] = b /\ s = <<p, k>>
  BY <1>2 DEF Slots
<1>5. SUFFICES \E x : Places(b) = {x}
  BY FS_Singleton
<1>6. CASE b \in pool
  <2>1. Slots(rxq, b) = {} /\ Slots(txq, b) = {} /\ b \notin stranded
    BY <1>1, <1>3, <1>4, <1>6 DEF Owned, Apart
  <2>2. Places(b) = {<<"pool">>}
    BY <1>6, <2>1 DEF Places
  <2> QED
    BY <2>2
<1>7. CASE b \in stranded
  <2>1. Slots(rxq, b) = {} /\ Slots(txq, b) = {} /\ b \notin pool
    BY <1>1, <1>3, <1>4, <1>7 DEF Owned, Apart
  <2>2. Places(b) = {<<"stranded">>}
    BY <1>7, <2>1 DEF Places
  <2> QED
    BY <2>2
<1>8. ASSUME NEW p \in FwdPorts, NEW k \in 1 .. Len(rxq[p]), rxq[p][k] = b
      PROVE  \E x : Places(b) = {x}
  <2>1. /\ Slots(rxq, b) = {<<p, k>>} /\ Slots(txq, b) = {}
        /\ b \notin pool /\ b \notin stranded
    BY <1>1, <1>3, <1>4, <1>8 DEF Owned, Apart, NoTwice
  <2>2. Places(b) = {<<"rx", <<p, k>>>>}
    BY <2>1 DEF Places
  <2> QED
    BY <2>2
<1>9. ASSUME NEW p \in FwdPorts, NEW k \in 1 .. Len(txq[p]), txq[p][k] = b
      PROVE  \E x : Places(b) = {x}
  <2>1. /\ Slots(txq, b) = {<<p, k>>} /\ Slots(rxq, b) = {}
        /\ b \notin pool /\ b \notin stranded
    BY <1>1, <1>3, <1>4, <1>9 DEF Owned, Apart, NoTwice
  <2>2. Places(b) = {<<"tx", <<p, k>>>>}
    BY <2>1 DEF Places
  <2> QED
    BY <2>2
<1> QED
  BY <1>1, <1>6, <1>7, <1>8, <1>9 DEF Owned, Somewhere

LEMMA IndInit == FwdInit => IndInv
<1> SUFFICES ASSUME FwdInit PROVE IndInv
  OBVIOUS
<1>1. \A p \in FwdPorts : rxq[p] = <<>> /\ txq[p] = <<>>
  BY DEF FwdInit
<1>2. TypeInv
  BY BasicFwdAssumption, EmptySeq DEF FwdInit, TypeInv, FwdPorts, Contents
<1>3. Owned
  BY <1>1 DEF FwdInit, Owned, NoTwice, Apart, Somewhere
<1> QED
  BY <1>2, <1>3 DEF IndInv

----------------------------------------------------------------------------
\* The rings after a pass of lcore_main: of the nb mbufs taken from the RX ring
\* of the port, the first t are at the end of the TX ring of out, those at
\* the positions in back are free again, those in gone are forgotten.
Moved(nb, out, t, back, gone) ==
  /\ nb \in 0 .. Len(rxq[port]) /\ t \in 0 .. nb /\ out \in FwdPorts
  /\ back \cup gone = t + 1 .. nb /\ back \cap gone = {}
  /\ \A b : b \in pool' <=> b \in pool \/ \E k \in back : b = rxq[port][k]
  /\ \A b : b \in stranded' <=>
              b \in stranded \/ \E k \in gone : b = rxq[port][k]
  /\ \A p \in FwdPorts : \A k \in 1 .. Len(rxq'[p]) :
       LET j == IF p = port THEN nb + k ELSE k IN
       j \in 1 .. Len(rxq[p]) /\ rxq'[p][k] = rxq[p][j]
  /\ \A p \in FwdPorts : \A k \in 1 .. Len(rxq[p]) : p # port \/ k > nb =>
       \E j \in 1 .. Len(rxq'[p]) : rxq'[p][j] = rxq[p][k]
  /\ \A p \in FwdPorts : \A k \in 1 .. Len(txq'[p]) :
       \/ k \in 1 .. Len(txq[p]) /\ txq'[p][k] = txq[p][k]
       \/ /\ p = out /\ k - Len(txq[p]) \in 1 .. t
          /\ txq'[p][k] = rxq[port][k - Len(txq[p])]
  /\ \A p \in FwdPorts : \A k \in 1 .. Len(txq[p]) :
       k \in 1 .. Len(txq'[p]) /\ txq'[p][k] = txq[p][k]
  /\ \A k \in 1 .. t : \E j \in 1 .. Len(txq'[out]) :
       txq'[out][j] = rxq[port][k]

\* Moving mbufs that way keeps every one of them in one place.
LEMMA MovedKeepsOwners ==
  ASSUME TypeInv, Owned, port \in FwdPorts,
         NEW nb, NEW out, NEW t, NEW back, NEW gone,
         Moved(nb, out, t, back, gone)
  PROVE  Owned'
<1>1. /\ \A p \in FwdPorts : Len(rxq[p]) \in Nat /\ Len(txq[p]) \in Nat
      /\ nb \in Nat /\ t \in Nat
  BY LenProperties DEF TypeInv, Moved
<1>2. NoTwice(rxq) /\ NoTwice(txq) /\ Apart /\ Somewhere
  BY DEF Owned
<1>3. \A k : k \in back \/ k \in gone <=> k \in t + 1 .. nb
  BY DEF Moved
<1>4. \A k \in 1 .. nb : k \in 1 .. Len(rxq[port])
  BY <1>1 DEF Moved
\* Where an mbuf of a ring was before.
<1>5. ASSUME NEW p \in FwdPorts, NEW k \in 1 .. Len(rxq'[p])
      PROVE  \E i \in 1 .. Len(rxq[p]) :
               /\ rxq'[p][k] = rxq[p][i]
               /\ i = IF p = port THEN nb + k ELSE k
  BY SMTT(30) DEF Moved
<1>6. ASSUME NEW p \in FwdPorts, NEW k \in 1 .. Len(txq'[p])
      PROVE  \/ k \in 1 .. Len(txq[p]) /\ txq'[p][k] = txq[p][k]
             \/ /\ p = out /\ k - Len(txq[p]) \in 1 .. t
                /\ txq'[p][k] = rxq[port][k - Len(txq[p])]
  BY DEF Moved
<1>7. NoTwice(rxq)'
  <2> SUFFICES ASSUME NEW p \in FwdPorts, NEW q \in FwdPorts,
                      NEW k \in 1 .. Len(rxq'[p]), NEW j \in 1 .. Len(rxq'[q]),
                      rxq'[p][k] = rxq'[q][j]
               PROVE  p = q /\ k = j
    BY DEF NoTwice
  <2>1. PICK i \in 1 .. Len(rxq[p]) : /\ rxq'[p][k] = rxq[p][i]
                                      /\ i = IF p = port THEN nb + k ELSE k
    BY <1>5
  <2>2. PICK m \in 1 .. Len(rxq[q]) : /\ rxq'[q][j] = rxq[q][m]
                                      /\ m = IF q = port THEN nb + j ELSE j
    BY <1>5
  <2>3. p = q /\ i = m
    <3>1. rxq[p][i] = rxq[q][m]
      BY <2>1, <2>2
    <3>2. NoTwice(rxq)
      BY <1>2
    <3> QED
      BY <3>1, <3>2 DEF NoTwice
  <2>4. k \in Int /\ j \in Int
    OBVIOUS
  <2> QED
    BY <1>1, <2>1, <2>2, <2>3, <2>4
<1>8. \A k \in 1 .. nb : \A p \in FwdPorts : \A j \in 1 .. Len(txq[p]) :
        rxq[port][k] # txq[p][j]
  BY <1>2, <1>4 DEF Apart
<1>9. \A k, j \in 1 .. nb : rxq[port][k] = rxq[port][j] => k = j
  BY <1>2, <1>4 DEF NoTwice
<1>10. NoTwice(txq)'
  <2> SUFFICES ASSUME NEW p \in FwdPorts, NEW q \in FwdPorts,
                      NEW k \in 1 .. Len(txq'[p]), NEW j \in 1 .. Len(txq'[q]),
                      txq'[p][k] = txq'[q][j]
               PROVE  p = q /\ k = j
    BY DEF NoTwice
  <2>1. CASE /\ k \in 1 .. Len(txq[p]) /\ txq'[p][k] = txq[p][k]
             /\ j \in 1 .. Len(txq[q]) /\ txq'[q][j] = txq[q][j]
    <3>1. NoTwice(txq) /\ txq[p][k] = txq[q][j]
      BY <1>2, <2>1
    <3> QED
      BY <2>1, <3>1 DEF NoTwice
  <2>2. CASE /\ p = out /\ k - Len(txq[p]) \in 1 .. t
             /\ txq'[p][k] = rxq[port][k - Len(txq[p])]
             /\ q = out /\ j - Len(txq[q]) \in 1 .. t
             /\ txq'[q][j] = rxq[port][j - Len(txq[q])]
    <3>1. k - Len(txq[p]) = j - Len(txq[q])
      <4>1. k - Len(txq[p]) \in 1 .. nb /\ j - Len(txq[q]) \in 1 .. nb
        <5>1. \A i \in 1 .. t : i \in 1 .. nb
          BY <1>1 DEF Moved
        <5> QED
          BY <2>2, <5>1
      <4>2. rxq[port][k - Len(txq[p])] = rxq[port][j - Len(txq[q])]
        BY <2>2
      <4> QED
        BY <1>9, <4>1, <4>2
    <3>2. k \in Int /\ j \in Int /\ Len(txq[p]) \in Int /\ p = q
      BY <1>1, <2>2
    <3> QED
      BY <3>1, <3>2
  <2>3. ASSUME NEW i \in 1 .. t PROVE i \in 1 .. nb
    BY <1>1 DEF Moved
  <2>4. ASSUME NEW i \in 1 .. t PROVE txq[p][k] # rxq[port][i] \/ k \notin 1 .. Len(txq[p])
    BY <1>8, <2>3
  <2>5. ASSUME NEW i \in 1 .. t PROVE txq[q][j] # rxq[port][i] \/ j \notin 1 .. Len(txq[q])
    BY <1>8, <2>3
  <2>6. CASE k \in 1 .. Len(txq[p]) /\ txq'[p][k] = txq[p][k]
    <3>1. ~(/\ q = out /\ j - Len(txq[q]) \in 1 .. t
            /\ txq'[q][j] = rxq[port][j - Len(txq[q])])
      BY <2>4, <2>6
    <3>2. j \in 1 .. Len(txq[q]) /\ txq'[q][j] = txq[q][j]
      BY <1>6, <3>1
    <3> QED
      BY <2>1, <2>6, <3>2
  <2>7. CASE /\ p = out /\ k - Len(txq[p]) \in 1 .. t
             /\ txq'[p][k] = rxq[port][k - Len(txq[p])]
    <3>1. ~(j \in 1 .. Len(txq[q]) /\ txq'[q][j] = txq[q][j])
      BY <2>5, <2>7
    <3>2. /\ q = out /\ j - Len(txq[q]) \in 1 .. t
          /\ txq'[q][j] = rxq[port][j - Len(txq[q])]
      BY <1>6, <3>1
    <3> QED
      BY <2>2, <2>7, <3>2
  <2> QED
    BY <1>6, <2>6, <2>7
<1>11. Apart'
  <2>1. ASSUME NEW k \in 1 .. nb
        PROVE  rxq[port][k] \notin pool /\ rxq[port][k] \notin stranded
    BY <1>2, <1>4 DEF Apart
  <2>2. \A k \in back \cup gone : k \in 1 .. nb /\ k > t
    BY <1>1 DEF Moved
  <2>3. /\ \A k \in back, j \in gone : k # j
        /\ \A b : b \in pool' => b \in pool \/ \E k \in back : b = rxq[port][k]
        /\ \A b : b \in stranded' =>
                    b \in stranded \/ \E k \in gone : b = rxq[port][k]
    BY DEF Moved
  <2>4. pool' \cap stranded' = {}
    <3> SUFFICES ASSUME NEW b, b \in pool', b \in stranded' PROVE FALSE
      OBVIOUS
    <3>1. b \in pool \/ \E k \in back : b = rxq[port][k]
      BY DEF Moved
    <3>2. b \in stranded \/ \E k \in gone : b = rxq[port][k]
      BY DEF Moved
    <3> QED
      BY <1>2, <1>9, <2>1, <2>2, <2>3, <3>1, <3>2 DEF Apart
  <2>5. ASSUME NEW b, NEW p \in FwdPorts, NEW i \in 1 .. Len(rxq[p]), b = rxq[p][i],
               p = port => i > nb
        PROVE  b \notin pool' /\ b \notin stranded'
    <3>1. b \notin pool /\ b \notin stranded
      BY <1>2, <2>5 DEF Apart
    <3>2. \A k \in 1 .. nb : b # rxq[port][k]
      BY <1>1, <1>2, <1>4, <2>5 DEF NoTwice
    <3> QED
      BY <2>2, <2>3, <3>1, <3>2
  <2>6. ASSUME NEW p \in FwdPorts, NEW k \in 1 .. Len(rxq'[p])
        PROVE  \E i \in 1 .. Len(rxq[p]) :
                 rxq'[p][k] = rxq[p][i] /\ (p = port => i > nb)
    BY <1>1, <1>5
  <2>7. ASSUME NEW p \in FwdPorts, NEW k \in 1 .. Len(rxq'[p])
        PROVE  rxq'[p][k] \notin pool' /\ rxq'[p][k] \notin stranded'
    BY <2>5, <2>6
  <2>8. ASSUME NEW p \in FwdPorts, NEW k \in 1 .. Len(txq'[p])
        PROVE  txq'[p][k] \notin pool' /\ txq'[p][k] \notin stranded'
    <3>1. CASE k \in 1 .. Len(txq[p]) /\ txq'[p][k] = txq[p][k]
      <4>1. txq[p][k] \notin pool /\ txq[p][k] \notin stranded
        BY <1>2, <3>1 DEF Apart
      <4> QED
        BY <1>8, <2>2, <2>3, <3>1, <4>1
    <3>2. ASSUME NEW i \in 1 .. t, txq'[p][k] = rxq[port][i]
          PROVE  txq'[p][k] \notin pool' /\ txq'[p][k] \notin stranded'
      <4>1. i \in 1 .. nb /\ i <= t /\ t \in Nat
        BY <1>1 DEF Moved
      <4>2. i \notin back /\ i \notin gone
        BY <2>2, <4>1
      <4> QED
        BY <1>9, <2>1, <2>2, <2>3, <3>2, <4>1, <4>2
    <3> QED
      BY <1>6, <3>1, <3>2
  <2>9. ASSUME NEW p \in FwdPorts, NEW k \in 1 .. Len(rxq'[p]),
               NEW q \in FwdPorts, NEW j \in 1 .. Len(txq'[q])
        PROVE  rxq'[p][k] # txq'[q][j]
    <3>1. PICK i \in 1 .. Len(rxq[p]) :
            rxq'[p][k] = rxq[p][i] /\ (p = port => i > nb)
      BY <2>6
    <3>2. CASE j \in 1 .. Len(txq[q]) /\ txq'[q][j] = txq[q][j]
      BY <1>2, <3>1, <3>2 DEF Apart
    <3>3. ASSUME NEW m \in 1 .. t, txq'[q][j] = rxq[port][m]
          PROVE  rxq'[p][k] # txq'[q][j]
      <4>1. m \in 1 .. Len(rxq[port]) /\ m <= nb
        BY <1>1 DEF Moved
      <4> QED
        BY SMTT(30), <1>1, <1>2, <3>1, <3>3, <4>1 DEF NoTwice
    <3> QED
      BY <1>6, <3>2, <3>3
  <2> QED
    BY <2>4, <2>7, <2>8, <2>9 DEF Apart
<1>12. Somewhere'
  <2> SUFFICES ASSUME NEW b \in Mbufs
               PROVE  \/ b \in pool' \/ b \in stranded'
                      \/ \E p \in FwdPorts : \E k \in 1 .. Len(rxq'[p]) : rxq'[p][k] = b
                      \/ \E p \in FwdPorts : \E k \in 1 .. Len(txq'[p]) : txq'[p][k] = b
    BY DEF Somewhere
  <2>1. CASE b \in pool \/ b \in stranded
    BY <2>1 DEF Moved
  <2>2. ASSUME NEW p \in FwdPorts, NEW k \in 1 .. Len(txq[p]), txq[p][k] = b
        PROVE  \E q \in FwdPorts : \E j \in 1 .. Len(txq'[q]) : txq'[q][j] = b
    BY <2>2 DEF Moved
  <2>3. ASSUME NEW p \in FwdPorts, NEW k \in 1 .. Len(rxq[p]), rxq[p][k] = b,
               p # port \/ k > nb
        PROVE  \E q \in FwdPorts : \E j \in 1 .. Len(rxq'[q]) : rxq'[q][j] = b
    <3>1. \A r \in FwdPorts : \A i \in 1 .. Len(rxq[r]) : r # port \/ i > nb =>
            \E j \in 1 .. Len(rxq'[r]) : rxq'[r][j] = rxq[r][i]
      BY DEF Moved
    <3> QED
      BY <2>3, <3>1
  <2>4. ASSUME NEW k \in 1 .. nb, rxq[port][k] = b
        PROVE  \/ b \in pool' \/ b \in stranded'
               \/ \E q \in FwdPorts : \E j \in 1 .. Len(txq'[q]) : txq'[q][j] = b
    <3>1. CASE k <= t
      <4>1. k \in 1 .. t
        BY <1>1, <3>1
      <4>2. out \in FwdPorts /\ \E j \in 1 .. Len(txq'[out]) : txq'[out][j] = rxq[port][k]
        BY <4>1 DEF Moved
      <4> QED
        BY <2>4, <4>2
    <3>2. CASE k > t
      <4>1. k \in back \/ k \in gone
        BY <1>1, <1>3, <3>2
      <4> QED
        BY <2>4, <4>1 DEF Moved
    <3> QED
      BY <1>1, <3>1, <3>2
  <2>5. ASSUME NEW p \in FwdPorts, NEW k \in 1 .. Len(rxq[p]), rxq[p][k] = b
        PROVE  (p # port \/ k > nb) \/ (p = port /\ k \in 1 .. nb)
    BY <1>1
  <2> QED
    BY <1>2, <2>1, <2>2, <2>3, <2>4, <2>5 DEF Somewhere
<1> QED
  BY <1>7, <1>10, <1>11, <1>12 DEF Owned

\* The smallest of finitely many hits is one of them.
LEMMA FirstHitIsHit ==
  ASSUME NEW hits \in SUBSET (0 .. 7), hits # {}
  PROVE  FirstHit(hits) \in hits
<1>1. \E i \in hits : \A k \in hits : i <= k
  <2>1. CASE 0 \in hits
    BY <2>1
  <2>2. CASE 0 \notin hits /\ 1 \in hits
    BY <2>2
  <2>3. CASE 0 \notin hits /\ 1 \notin hits /\ 2 \in hits
    BY <2>3
  <2>4. CASE 0 \notin hits /\ 1 \notin hits /\ 2 \notin hits /\ 3 \in hits
    BY <2>4
  <2>5. CASE (\A k \in 0 .. 3 : k \notin hits) /\ 4 \in hits
    BY <2>5
  <2>6. CASE (\A k \in 0 .. 4 : k \notin hits) /\ 5 \in hits
    BY <2>6
  <2>7. CASE (\A k \in 0 .. 5 : k \notin hits) /\ 6 \in hits
    BY <2>7
  <2>8. CASE (\A k \in 0 .. 6 : k \notin hits)
    <3>1. \A k \in hits : k = 7
      BY <2>8
    <3>2. PICK i \in hits : TRUE
      OBVIOUS
    <3> QED
      BY <3>1, <3>2
  <2> QED
    BY <2>1, <2>2, <2>3, <2>4, <2>5, <2>6, <2>7, <2>8
<1> QED
  BY <1>1 DEF FirstHit

\* A burst is sent to a port whose octet was compared, or forgotten.
LEMMA DisposeCases ==
  ASSUME NEW bufs, Dispose(bufs)
  PROVE  \/ Strand(bufs)
         \/ \E out \in 0 .. 7 : /\ Transmit(out, bufs)
                                /\ out <= 3 => octet[bufs[1]] = 6 + out
<1> DEFINE o == octet[bufs[1]]
<1>1. CASE o = BroadcastOctet
  BY <1>1 DEF Dispose
<1>2. CASE o # BroadcastOctet
  <2>1. PICK behind \in [Len(dst_macs) .. SizeofDstMacs - 1 -> {o, NoOctet}] :
          IF Hits(o, Compared(behind)) = {} THEN Strand(bufs)
          ELSE Transmit(FirstHit(Hits(o, Compared(behind))), bufs)
    BY <1>2 DEF Dispose
  <2> DEFINE cells == Compared(behind)
  <2>2. Len(dst_macs) = 4 /\ SizeofDstMacs = 8
    BY DEF dst_macs, SizeofDstMacs
  <2>3. /\ DOMAIN cells = 0 .. 7
        /\ \A i \in 0 .. 3 : cells[i] = dst_macs[i + 1]
    BY <2>2 DEF Compared
  <2>4. \A i \in 0 .. 3 : dst_macs[i + 1] = 6 + i
    <3>1. /\ dst_macs[1] = 6 /\ dst_macs[2] = 7
          /\ dst_macs[3] = 8 /\ dst_macs[4] = 9
      BY DEF dst_macs
    <3>2. \A i \in 0 .. 3 : i = 0 \/ i = 1 \/ i = 2 \/ i = 3
      OBVIOUS
    <3> QED
      BY <3>1, <3>2
  <2> HIDE DEF cells
  <2>5. CASE Hits(o, cells) = {}
    BY <2>1, <2>5 DEF cells
  <2>6. CASE Hits(o, cells) # {}
    <3>1. FirstHit(Hits(o, cells)) \in Hits(o, cells)
      BY <2>3, <2>6, FirstHitIsHit DEF Hits
    <3> DEFINE out == FirstHit(Hits(o, cells))
    <3>2. Transmit(out, bufs)
      BY <2>1, <2>6 DEF cells
    <3>3. out \in 0 .. 7 /\ cells[out] = o
      BY <2>3, <3>1 DEF Hits
    <3> HIDE DEF out
    <3>4. out <= 3 => o = 6 + out
      BY <2>3, <2>4, <3>3
    <3> QED
      BY <3>2, <3>3, <3>4
  <2> QED
    BY <2>5, <2>6
<1> QED
  BY <1>1, <1>2

\* What a pass of lcore_main does with a burst, in the words of Moved.
LEMMA PassEffect ==
  ASSUME TypeInv, lcore_main, main' # "crash"
  PROVE  /\ port \in FwdPorts /\ main = "run" /\ main' = main
         /\ rxq' \in [FwdPorts -> Seq(Mbufs)] /\ txq' \in [FwdPorts -> Seq(Mbufs)]
         /\ pool' \subseteq Mbufs /\ stranded' \subseteq Mbufs
         /\ \E nb, out, t, back, gone :
              /\ Moved(nb, out, t, back, gone) /\ nb <= BurstSize
              /\ (t > 0 /\ out <= 3) => octet[rxq[port][1]] = 6 + out
<1> DEFINE n    == Len(rxq[port])
           nbrx == IF n < BurstSize THEN n ELSE BurstSize
           bufs == SubSeq(rxq[port], 1, nbrx)
<1>1. main = "run" /\ port \in FwdPorts /\ n \in Nat /\ rxq[port] \in Seq(Mbufs)
  BY LenProperties DEF TypeInv, lcore_main
<1>2. PICK nb \in 0 .. n : nb = nbrx /\ (nb = 0 \/ n > 0) /\ nb <= BurstSize
  <2>1. n \in Nat /\ BurstSize \in Nat \ {0}
    BY <1>1, BasicFwdAssumption
  <2> HIDE DEF n
  <2>2. nbrx \in 0 .. n /\ (nbrx = 0 \/ n > 0) /\ nbrx <= BurstSize
    BY <2>1
  <2> QED
    BY <2>2
<1>3. n - nb \in Nat /\ nb \in Nat
  BY <1>1, <1>2
<1> HIDE DEF n
<1>4. /\ bufs \in Seq(Mbufs) /\ Len(bufs) = nb /\ DOMAIN bufs = 1 .. nb
      /\ \A k \in 1 .. nb : bufs[k] = rxq[port][k]
  BY <1>1, <1>2, <1>3, SubSeqProperties, LenProperties, ElementOfSeq DEF n
<1> DEFINE rest == SubSeq(rxq[port], nb + 1, n)
<1>5. /\ rest \in Seq(Mbufs) /\ Len(rest) = n - nb
      /\ \A k \in 1 .. n - nb : rest[k] = rxq[port][nb + k]
  BY SMTT(30), <1>1, <1>2, <1>3, SubSeqProperties, ElementOfSeq DEF n
<1>6. /\ rxq' = [rxq EXCEPT ![port] = rest]
      /\ \/ nb = 0 /\ UNCHANGED <<main, pool, txq, stranded>>
         \/ nb # 0 /\ Dispose(bufs)
  BY <1>2 DEF lcore_main, n
<1> HIDE DEF nbrx, bufs, rest
<1>7. nb # 0 => bufs[1] = rxq[port][1]
  BY <1>3, <1>4
<1>9. /\ rxq' \in [FwdPorts -> Seq(Mbufs)]
      /\ \A p \in FwdPorts : rxq'[p] = IF p = port THEN rest ELSE rxq[p]
  BY <1>1, <1>5, <1>6 DEF TypeInv
<1>10. /\ \A p \in FwdPorts : \A k \in 1 .. Len(rxq'[p]) :
            LET j == IF p = port THEN nb + k ELSE k IN
            j \in 1 .. Len(rxq[p]) /\ rxq'[p][k] = rxq[p][j]
       /\ \A p \in FwdPorts : \A k \in 1 .. Len(rxq[p]) : p # port \/ k > nb =>
            \E j \in 1 .. Len(rxq'[p]) : rxq'[p][j] = rxq[p][k]
  <2>1. ASSUME NEW k \in 1 .. n - nb
        PROVE  nb + k \in 1 .. Len(rxq[port]) /\ rxq'[port][k] = rxq[port][nb + k]
    BY <1>1, <1>2, <1>3, <1>5, <1>9 DEF n
  <2>2. ASSUME NEW k \in 1 .. Len(rxq[port]), k > nb
        PROVE  \E j \in 1 .. Len(rxq'[port]) : rxq'[port][j] = rxq[port][k]
    <3>1. k - nb \in 1 .. n - nb /\ nb + (k - nb) = k
      BY <1>1, <1>2, <1>3, <2>2 DEF n
    <3>2. Len(rxq'[port]) = n - nb
      BY <1>1, <1>5, <1>9
    <3>3. rxq'[port][k - nb] = rxq[port][k]
      BY <2>1, <3>1
    <3> QED
      BY <3>1, <3>2, <3>3
  <2>3. Len(rxq'[port]) = n - nb
    BY <1>1, <1>5, <1>9
  <2> QED
    BY <1>9, <2>1, <2>2, <2>3
<1>11. CASE nb = 0 /\ UNCHANGED <<main, pool, txq, stranded>>
  <2>1. Moved(nb, port, 0, {}, {})
    BY <1>1, <1>2, <1>3, <1>10, <1>11 DEF Moved, n
  <2>2. /\ ~(0 > 0 /\ port <= 3)
        /\ main' = main /\ txq' \in [FwdPorts -> Seq(Mbufs)]
        /\ pool' \subseteq Mbufs /\ stranded' \subseteq Mbufs
    BY <1>11 DEF TypeInv
  <2> QED
    BY <1>1, <1>2, <1>9, <2>1, <2>2
<1>12. CASE nb # 0 /\ Strand(bufs)
  <2>1. /\ UNCHANGED <<main, txq, pool>>
        /\ \A b : b \in stranded' <=>
                    b \in stranded \/ \E k \in 1 .. nb : b = rxq[port][k]
    BY <1>4, <1>12 DEF Strand
  <2>2. Moved(nb, port, 0, {}, 1 .. nb)
    <3>1. /\ nb \in 0 .. Len(rxq[port]) /\ 0 \in 0 .. nb
          /\ {} \cup (1 .. nb) = 0 + 1 .. nb /\ {} \cap (1 .. nb) = {}
      BY <1>2, <1>3 DEF n
    <3>2. \A b : b \in pool' <=> b \in pool \/ \E k \in {} : b = rxq[port][k]
      BY <2>1
    <3>3. /\ \A p \in FwdPorts : \A k \in 1 .. Len(txq'[p]) :
               k \in 1 .. Len(txq[p]) /\ txq'[p][k] = txq[p][k]
          /\ \A p \in FwdPorts : \A k \in 1 .. Len(txq[p]) :
               k \in 1 .. Len(txq'[p]) /\ txq'[p][k] = txq[p][k]
          /\ 1 .. 0 = {}
      BY <2>1
    <3> QED
      BY <1>1, <1>10, <2>1, <3>1, <3>2, <3>3 DEF Moved
  <2>3. stranded' \subseteq Mbufs
    BY <1>1, <1>2, <1>3, <2>1, ElementOfSeq DEF TypeInv, n
  <2> QED
    <3>1. ~(0 > 0 /\ port <= 3)
      OBVIOUS
    <3> QED
      BY <1>1, <1>2, <1>9, <2>1, <2>2, <2>3, <3>1 DEF TypeInv
<1>13. ASSUME nb # 0, NEW out \in 0 .. 7, Transmit(out, bufs),
              out <= 3 => octet[bufs[1]] = 6 + out
       PROVE  /\ main' = main /\ txq' \in [FwdPorts -> Seq(Mbufs)]
              /\ pool' \subseteq Mbufs /\ stranded' \subseteq Mbufs
              /\ \E t, back :
                   /\ Moved(nb, out, t, back, {})
                   /\ (t > 0 /\ out <= 3) => octet[rxq[port][1]] = 6 + out
  <2>1. out \in FwdPorts
    BY <1>13 DEF Transmit
  <2>2. PICK t \in 0 .. nb :
          /\ txq' = [txq EXCEPT ![out] = @ \o SubSeq(bufs, 1, t)]
          /\ pool' = pool \cup Unsent(bufs, t)
          /\ UNCHANGED <<main, stranded>>
    BY <1>4, <1>13, <2>1 DEF Transmit
  <2> DEFINE first == SubSeq(bufs, 1, t)
  <2>3. /\ first \in Seq(Mbufs) /\ Len(first) = t /\ t \in Nat
        /\ \A k \in 1 .. t : first[k] = rxq[port][k]
    BY <1>3, <1>4, <2>2, SubSeqProperties, ElementOfSeq
  <2>4. txq[out] \in Seq(Mbufs) /\ Len(txq[out]) \in Nat
    BY <2>1, LenProperties DEF TypeInv
  <2>5. txq' = [txq EXCEPT ![out] = txq[out] \o first]
    BY <2>2
  <2> HIDE DEF first
  <2>6. /\ txq[out] \o first \in Seq(Mbufs)
        /\ Len(txq[out] \o first) = Len(txq[out]) + t
        /\ \A i \in 1 .. Len(txq[out]) + t : (txq[out] \o first)[i] =
             IF i <= Len(txq[out]) THEN txq[out][i]
                                   ELSE first[i - Len(txq[out])]
    BY ZenonT(60), <2>3, <2>4, ConcatProperties
  <2>7. /\ txq' \in [FwdPorts -> Seq(Mbufs)]
        /\ \A p \in FwdPorts : p # out => txq'[p] = txq[p]
        /\ Len(txq'[out]) = Len(txq[out]) + t
        /\ \A i \in 1 .. Len(txq[out]) : txq'[out][i] = txq[out][i]
        /\ \A i \in Len(txq[out]) + 1 .. Len(txq[out]) + t :
             txq'[out][i] = rxq[port][i - Len(txq[out])]
    BY <2>1, <2>3, <2>4, <2>5, <2>6 DEF TypeInv
  <2>8. \A b : b \in pool' <=>
                 b \in pool \/ \E k \in t + 1 .. nb : b = rxq[port][k]
    BY <1>3, <1>4, <2>2, <2>3 DEF Unsent
  <2>9. /\ \A p \in FwdPorts : \A k \in 1 .. Len(txq'[p]) :
             \/ k \in 1 .. Len(txq[p]) /\ txq'[p][k] = txq[p][k]
             \/ /\ p = out /\ k - Len(txq[p]) \in 1 .. t
                /\ txq'[p][k] = rxq[port][k - Len(txq[p])]
        /\ \A p \in FwdPorts : \A k \in 1 .. Len(txq[p]) :
             k \in 1 .. Len(txq'[p]) /\ txq'[p][k] = txq[p][k]
    <3>1. ASSUME NEW k \in 1 .. Len(txq'[out])
          PROVE  \/ k \in 1 .. Len(txq[out])
                 \/ /\ k \in Len(txq[out]) + 1 .. Len(txq[out]) + t
                    /\ k - Len(txq[out]) \in 1 .. t
      BY <2>3, <2>4, <2>7
    <3>2. ASSUME NEW k \in 1 .. Len(txq[out])
          PROVE  k \in 1 .. Len(txq'[out])
      BY <2>3, <2>4, <2>7
    <3> QED
      BY <2>7, <3>1, <3>2
  <2>10. \A k \in 1 .. t : \E j \in 1 .. Len(txq'[out]) :
           txq'[out][j] = rxq[port][k]
    <3> SUFFICES ASSUME NEW k \in 1 .. t
                 PROVE  \E j \in 1 .. Len(txq'[out]) : txq'[out][j] = rxq[port][k]
      OBVIOUS
    <3>1. /\ Len(txq[out]) + k \in Len(txq[out]) + 1 .. Len(txq[out]) + t
          /\ Len(txq[out]) + k \in 1 .. Len(txq'[out])
          /\ (Len(txq[out]) + k) - Len(txq[out]) = k
      BY <2>3, <2>4, <2>7
    <3>2. txq'[out][Len(txq[out]) + k] = rxq[port][k]
      BY <2>7, <3>1
    <3> QED
      BY <3>1, <3>2
  <2>11. Moved(nb, out, t, t + 1 .. nb, {})
    BY <1>2, <1>10, <2>1, <2>2, <2>8, <2>9, <2>10 DEF Moved, n
  <2>12. pool' \subseteq Mbufs
    <3>1. \A k \in t + 1 .. nb : k \in 1 .. Len(rxq[port])
      BY <1>1, <1>2, <2>3 DEF n
    <3> QED
      BY <1>1, <2>8, <3>1, ElementOfSeq DEF TypeInv
  <2> QED
    BY <1>7, <1>13, <2>2, <2>7, <2>11, <2>12 DEF TypeInv
<1> QED
  <2>1. CASE nb = 0 /\ UNCHANGED <<main, pool, txq, stranded>>
    BY <1>11, <2>1
  <2>2. CASE nb # 0 /\ Dispose(bufs)
    BY <1>1, <1>2, <1>9, <1>12, <1>13, <2>2, DisposeCases
  <2> QED
    BY <1>6, <2>1, <2>2

----------------------------------------------------------------------------
\* Types are kept by a pass that ends in rte_eth_tx_burst with a port that
\* does not exist, too.
LEMMA PassTypes == TypeInv /\ lcore_main => TypeInv'
<1> SUFFICES ASSUME TypeInv, lcore_main PROVE TypeInv'
  OBVIOUS
<1> DEFINE n    == Len(rxq[port])
           nbrx == IF n < BurstSize THEN n ELSE BurstSize
<1>1. /\ main = "run" /\ NbPorts \in Nat /\ NbPorts > 0 /\ port \in FwdPorts
      /\ rxq[port] \in Seq(Mbufs) /\ n \in Nat
  <2>1. main = "run" /\ NbPorts \in Nat /\ NbPorts > 0
    BY BasicFwdAssumption DEF TypeInv, lcore_main
  <2>2. port \in FwdPorts /\ rxq[port] \in Seq(Mbufs)
    BY <2>1 DEF TypeInv
  <2> QED
    BY <2>1, <2>2, LenProperties
<1>2. /\ nbrx \in 0 .. n /\ port' = (port + 1) % NbPorts
      /\ UNCHANGED octet
      /\ rxq' = [rxq EXCEPT ![port] = SubSeq(rxq[port], nbrx + 1, n)]
  <2>1. n \in Nat /\ BurstSize \in Nat \ {0}
    BY <1>1, BasicFwdAssumption
  <2>2. nbrx \in 0 .. n
    BY <2>1
  <2> QED
    BY <2>2 DEF lcore_main
<1>3. port' \in FwdPorts
  BY <1>1, <1>2 DEF FwdPorts
<1> HIDE DEF nbrx
<1>4. rxq' \in [FwdPorts -> Seq(Mbufs)]
  <2>1. SubSeq(rxq[port], nbrx + 1, n) \in Seq(Mbufs)
    BY <1>1, <1>2, SubSeqProperties, ElementOfSeq
  <2> QED
    BY <1>1, <1>2, <2>1 DEF TypeInv
<1>6. CASE main' = "crash"
  <2>1. UNCHANGED <<txq, pool, stranded>>
    <3>1. \/ UNCHANGED <<main, pool, txq, stranded>>
          \/ \E bufs : Dispose(bufs)
      BY DEF lcore_main
    <3>2. ASSUME NEW bufs, Dispose(bufs)
          PROVE  UNCHANGED <<txq, pool, stranded>>
      BY <1>1, <1>6, <3>2, DisposeCases DEF Strand, Transmit
    <3> QED
      BY <3>1, <3>2
  <2> QED
    BY <1>1, <1>2, <1>3, <1>4, <1>6, <2>1 DEF TypeInv
<1>7. CASE main' # "crash"
  BY <1>1, <1>2, <1>3, <1>4, <1>7, PassEffect DEF TypeInv
<1> QED
  BY <1>6, <1>7

\* A pass of lcore_main.
LEMMA PassStep == IndInv /\ lcore_main => IndInv'
<1> SUFFICES ASSUME IndInv, lcore_main PROVE IndInv'
  OBVIOUS
<1>1. TypeInv /\ TypeInv'
  BY PassTypes DEF IndInv
<1>2. ASSUME main' # "crash" PROVE Owned'
  <2>1. main = "run" /\ port \in FwdPorts /\ Owned
    BY <1>1, <1>2, PassEffect DEF IndInv
  <2>2. PICK nb, out, t, back, gone : Moved(nb, out, t, back, gone)
    BY <1>1, <1>2, PassEffect
  <2> QED
    BY <1>1, <2>1, <2>2, MovedKeepsOwners
<1> QED
  BY <1>1, <1>2 DEF IndInv

\* A frame arrives: a free mbuf goes to the end of an RX ring.
LEMMA ArriveStep ==
  ASSUME IndInv, NEW p \in FwdPorts, NEW b \in Mbufs,
         NEW o \in Octets \cup {BroadcastOctet}, Arrive(p, b, o)
  PROVE  IndInv'
<1>1. TypeInv /\ Owned /\ rxq[p] \in Seq(Mbufs) /\ Len(rxq[p]) \in Nat
  BY LenProperties DEF IndInv, Arrive, TypeInv
<1>2. /\ b \in pool /\ pool' = pool \ {b}
      /\ rxq' = [rxq EXCEPT ![p] = Append(rxq[p], b)]
      /\ octet' = [octet EXCEPT ![b] = o]
      /\ UNCHANGED <<main, ready, port, txq, stranded>>
  BY DEF Arrive
<1>3. /\ Append(rxq[p], b) \in Seq(Mbufs)
      /\ Len(Append(rxq[p], b)) = Len(rxq[p]) + 1
      /\ \A k \in 1 .. Len(rxq[p]) : Append(rxq[p], b)[k] = rxq[p][k]
      /\ Append(rxq[p], b)[Len(rxq[p]) + 1] = b
  BY <1>1, AppendProperties
<1>4. /\ rxq' \in [FwdPorts -> Seq(Mbufs)] /\ rxq'[p] = Append(rxq[p], b)
      /\ \A q \in FwdPorts : q # p => rxq'[q] = rxq[q]
  BY <1>1, <1>2, <1>3 DEF TypeInv
<1>5. TypeInv'
  BY <1>1, <1>2, <1>4 DEF TypeInv, Contents
<1>6. ASSUME NEW q \in FwdPorts, NEW k \in 1 .. Len(rxq'[q])
      PROVE  \/ k \in 1 .. Len(rxq[q]) /\ rxq'[q][k] = rxq[q][k]
             \/ q = p /\ k = Len(rxq[p]) + 1 /\ rxq'[q][k] = b
  <2>1. CASE q = p
    <3>1. k \in 1 .. Len(rxq[p]) + 1
      BY <1>3, <1>4, <2>1
    <3>2. k \in 1 .. Len(rxq[p]) \/ k = Len(rxq[p]) + 1
      BY <1>1, <3>1
    <3> QED
      BY <1>3, <1>4, <2>1, <3>2
  <2>2. CASE q # p
    BY <1>4, <2>2
  <2> QED
    BY <2>1, <2>2
<1>7. ASSUME NEW q \in FwdPorts, NEW k \in 1 .. Len(rxq[q])
      PROVE  k \in 1 .. Len(rxq'[q]) /\ rxq'[q][k] = rxq[q][k]
  <2>1. \A i \in 1 .. Len(rxq[p]) : i \in 1 .. Len(rxq[p]) + 1
    BY <1>1
  <2> QED
    BY <1>3, <1>4, <2>1
<1>8. /\ \A q \in FwdPorts : \A k \in 1 .. Len(rxq[q]) : rxq[q][k] # b
      /\ \A q \in FwdPorts : \A k \in 1 .. Len(txq[q]) : txq[q][k] # b
      /\ b \notin stranded
  BY <1>1, <1>2 DEF Owned, Apart
<1>9. NoTwice(rxq)'
  <2> SUFFICES ASSUME NEW q \in FwdPorts, NEW r \in FwdPorts,
                      NEW k \in 1 .. Len(rxq'[q]), NEW j \in 1 .. Len(rxq'[r]),
                      rxq'[q][k] = rxq'[r][j]
               PROVE  q = r /\ k = j
    BY DEF NoTwice
  <2>1. NoTwice(rxq)
    BY <1>1 DEF Owned
  <2>2. CASE /\ k \in 1 .. Len(rxq[q]) /\ rxq'[q][k] = rxq[q][k]
             /\ j \in 1 .. Len(rxq[r]) /\ rxq'[r][j] = rxq[r][j]
    <3>1. rxq[q][k] = rxq[r][j]
      BY <2>2
    <3> QED
      BY <2>1, <2>2, <3>1 DEF NoTwice
  <2> QED
    BY <1>6, <1>8, <2>2
<1>10. Apart'
  BY <1>1, <1>2, <1>6, <1>8 DEF Owned, Apart
<1>11. Somewhere'
  <2>1. \E q \in FwdPorts : \E k \in 1 .. Len(rxq'[q]) : rxq'[q][k] = b
    BY <1>1, <1>3, <1>4
  <2> QED
    BY <1>1, <1>2, <1>7, <2>1 DEF Owned, Somewhere
<1>12. NoTwice(txq)'
  BY <1>1, <1>2 DEF Owned, NoTwice
<1> QED
  BY <1>5, <1>9, <1>10, <1>11, <1>12 DEF IndInv, Owned

\* A frame is on the wire: its mbuf, the first of a TX ring, is free.
LEMMA SentStep ==
  ASSUME IndInv, NEW p \in FwdPorts, Sent(p)
  PROVE  IndInv'
<1>1. TypeInv /\ Owned /\ txq[p] \in Seq(Mbufs) /\ txq[p] # <<>>
  BY DEF IndInv, Sent, TypeInv
<1>2. /\ pool' = pool \cup {Head(txq[p])}
      /\ txq' = [txq EXCEPT ![p] = Tail(txq[p])]
      /\ UNCHANGED <<main, ready, port, rxq, octet, stranded>>
  BY DEF Sent
<1>3. Len(txq[p]) \in Nat \ {0} /\ Head(txq[p]) = txq[p][1]
  BY <1>1, EmptySeq
<1>4. /\ Head(txq[p]) \in Mbufs /\ Tail(txq[p]) \in Seq(Mbufs)
      /\ Len(Tail(txq[p])) = Len(txq[p]) - 1
      /\ \A i \in 1 .. Len(Tail(txq[p])) : Tail(txq[p])[i] = txq[p][i + 1]
  BY <1>1, HeadTailProperties
<1>5. /\ txq' \in [FwdPorts -> Seq(Mbufs)] /\ txq'[p] = Tail(txq[p])
      /\ \A q \in FwdPorts : q # p => txq'[q] = txq[q]
  BY <1>1, <1>2, <1>4 DEF TypeInv
<1>6. TypeInv'
  BY <1>1, <1>2, <1>4, <1>5 DEF TypeInv
<1>7. ASSUME NEW q \in FwdPorts, NEW k \in 1 .. Len(txq'[q])
      PROVE  \E i \in 1 .. Len(txq[q]) :
               /\ txq'[q][k] = txq[q][i]
               /\ i = IF q = p THEN k + 1 ELSE k
  <2>1. CASE q = p
    <3>1. k + 1 \in 1 .. Len(txq[q]) /\ txq'[q][k] = txq[q][k + 1]
      <4>1. k \in 1 .. Len(txq[p]) - 1
        BY <1>4, <1>5, <2>1
      <4>2. k + 1 \in 1 .. Len(txq[p])
        BY <1>3, <4>1
      <4> QED
        BY <1>4, <1>5, <2>1, <4>1, <4>2
    <3> QED
      BY <2>1, <3>1
  <2>2. CASE q # p
    BY <1>5, <2>2
  <2> QED
    BY <2>1, <2>2
<1>8. ASSUME NEW q \in FwdPorts, NEW k \in 1 .. Len(txq[q]), q # p \/ k # 1
      PROVE  \E i \in 1 .. Len(txq'[q]) : txq'[q][i] = txq[q][k]
  <2>1. CASE q = p
    <3>1. k - 1 \in 1 .. Len(txq'[q]) /\ txq'[q][k - 1] = txq[q][(k - 1) + 1]
      <4>1. k - 1 \in 1 .. Len(txq[p]) - 1
        BY <1>3, <1>8, <2>1
      <4> QED
        BY <1>4, <1>5, <2>1, <4>1
    <3>2. (k - 1) + 1 = k
      OBVIOUS
    <3> QED
      BY <3>1, <3>2
  <2>2. CASE q # p
    BY <1>5, <2>2
  <2> QED
    BY <2>1, <2>2
<1>9. NoTwice(txq)'
  <2> SUFFICES ASSUME NEW q \in FwdPorts, NEW r \in FwdPorts,
                      NEW k \in 1 .. Len(txq'[q]), NEW j \in 1 .. Len(txq'[r]),
                      txq'[q][k] = txq'[r][j]
               PROVE  q = r /\ k = j
    BY DEF NoTwice
  <2>1. PICK i \in 1 .. Len(txq[q]) : /\ txq'[q][k] = txq[q][i]
                                      /\ i = IF q = p THEN k + 1 ELSE k
    BY <1>7
  <2>2. PICK m \in 1 .. Len(txq[r]) : /\ txq'[r][j] = txq[r][m]
                                      /\ m = IF r = p THEN j + 1 ELSE j
    BY <1>7
  <2>3. q = r /\ i = m
    <3>1. txq[q][i] = txq[r][m] /\ NoTwice(txq)
      BY <1>1, <2>1, <2>2 DEF Owned
    <3> QED
      BY <3>1 DEF NoTwice
  <2>4. k \in Int /\ j \in Int
    OBVIOUS
  <2> QED
    BY <2>1, <2>2, <2>3, <2>4
<1>10. Apart'
  <2>1. ASSUME NEW q \in FwdPorts, NEW k \in 1 .. Len(txq'[q])
        PROVE  txq'[q][k] \notin pool' /\ txq'[q][k] \notin stranded'
    <3>1. PICK i \in 1 .. Len(txq[q]) : /\ txq'[q][k] = txq[q][i]
                                        /\ i = IF q = p THEN k + 1 ELSE k
      BY <1>7
    <3>2. i \in Int /\ k \in Int /\ k >= 1 /\ 1 \in 1 .. Len(txq[p])
      BY <1>3
    <3>3. txq[q][i] # txq[p][1]
      <4>1. NoTwice(txq)
        BY <1>1 DEF Owned
      <4> QED
        BY <3>1, <3>2, <4>1 DEF NoTwice
    <3> QED
      BY <1>1, <1>2, <1>3, <3>1, <3>3 DEF Owned, Apart
  <2>2. ASSUME NEW q \in FwdPorts, NEW k \in 1 .. Len(txq'[q])
        PROVE  \E i \in 1 .. Len(txq[q]) : txq'[q][k] = txq[q][i]
    BY <1>7
  <2>3. \A q, r \in FwdPorts : \A k \in 1 .. Len(rxq[q]), j \in 1 .. Len(txq'[r]) :
          rxq[q][k] # txq'[r][j]
    BY <1>1, <2>2 DEF Owned, Apart
  <2>4. 1 \in 1 .. Len(txq[p])
    BY <1>3
  <2>5. /\ pool' \cap stranded = {}
        /\ \A q \in FwdPorts : \A k \in 1 .. Len(rxq[q]) :
             rxq[q][k] \notin pool' /\ rxq[q][k] \notin stranded
    <3>1. Apart /\ Head(txq[p]) = txq[p][1]
      BY <1>1, <1>3 DEF Owned
    <3>2. /\ txq[p][1] \notin stranded
          /\ \A q \in FwdPorts : \A k \in 1 .. Len(rxq[q]) : rxq[q][k] # txq[p][1]
      BY <2>4, <3>1 DEF Apart
    <3> QED
      BY <1>2, <3>1, <3>2 DEF Apart
  <2>6. rxq' = rxq /\ stranded' = stranded
    BY <1>2
  <2>7. /\ pool' \cap stranded' = {}
        /\ \A q \in FwdPorts : \A k \in 1 .. Len(rxq'[q]) :
             rxq'[q][k] \notin pool' /\ rxq'[q][k] \notin stranded'
    BY <2>5, <2>6
  <2>8. \A q, r \in FwdPorts : \A k \in 1 .. Len(rxq'[q]), j \in 1 .. Len(txq'[r]) :
          rxq'[q][k] # txq'[r][j]
    BY <2>3, <2>6
  <2> QED
    BY <2>1, <2>7, <2>8 DEF Apart
<1>11. Somewhere'
  <2> SUFFICES ASSUME NEW b \in Mbufs
               PROVE  \/ b \in pool' \/ b \in stranded'
                      \/ \E q \in FwdPorts : \E k \in 1 .. Len(rxq'[q]) : rxq'[q][k] = b
                      \/ \E q \in FwdPorts : \E k \in 1 .. Len(txq'[q]) : txq'[q][k] = b
    BY DEF Somewhere
  <2>1. ASSUME NEW q \in FwdPorts, NEW k \in 1 .. Len(txq[q]), txq[q][k] = b
        PROVE  \/ b \in pool'
               \/ \E r \in FwdPorts : \E i \in 1 .. Len(txq'[r]) : txq'[r][i] = b
    BY ZenonT(60), <1>2, <1>3, <1>8, <2>1
  <2> QED
    BY <1>1, <1>2, <2>1 DEF Owned, Somewhere
<1>12. NoTwice(rxq)'
  BY <1>1, <1>2 DEF Owned, NoTwice
<1> QED
  BY <1>6, <1>9, <1>10, <1>11, <1>12 DEF IndInv, Owned

\* IndInv holds in every reachable state.
LEMMA Inductive == FwdSpec => []IndInv
<1>1. IndInv /\ UNCHANGED fwdVars => IndInv'
  <2> SUFFICES ASSUME IndInv, UNCHANGED fwdVars PROVE IndInv'
    OBVIOUS
  <2>1. /\ main' = main /\ port' = port /\ pool' = pool /\ rxq' = rxq
        /\ txq' = txq /\ octet' = octet /\ stranded' = stranded
    BY DEF fwdVars
  <2>2. TypeInv'
    BY <2>1 DEF fwdVars, IndInv, TypeInv
  <2>3. NoTwice(rxq)' = NoTwice(rxq) /\ NoTwice(txq)' = NoTwice(txq)
    BY <2>1 DEF NoTwice
  <2>4. Apart' = Apart
    BY <2>1 DEF Apart
  <2>5. Somewhere' = Somewhere
    BY <2>1 DEF Somewhere
  <2> QED
    BY <2>1, <2>2, <2>3, <2>4, <2>5 DEF IndInv, Owned
<1>2. IndInv /\ (SetupFails \/ port_init) => IndInv'
  <2> SUFFICES ASSUME IndInv, SetupFails \/ port_init PROVE IndInv'
    OBVIOUS
  <2>1. /\ UNCHANGED <<port, rings>> /\ main' # "crash" /\ main = "setup"
        /\ main' = "run" => NbPorts > 0
    BY BasicFwdAssumption DEF SetupFails, port_init
  <2>2. TypeInv'
    BY <2>1 DEF rings, IndInv, TypeInv
  <2>3. NoTwice(rxq)' = NoTwice(rxq) /\ NoTwice(txq)' = NoTwice(txq)
    BY <2>1 DEF rings, NoTwice
  <2>4. Apart' = Apart
    BY <2>1 DEF rings, Apart
  <2>5. Somewhere' = Somewhere
    BY <2>1 DEF rings, Somewhere
  <2> QED
    BY <2>1, <2>2, <2>3, <2>4, <2>5 DEF IndInv, Owned
<1>3. IndInv /\ FwdNext => IndInv'
  BY <1>2, PassStep, ArriveStep, SentStep DEF FwdNext
<1> QED
  BY <1>1, <1>3, IndInit, PTL DEF FwdSpec

\* For any number of ports and mbufs and any burst size, and whatever lies
\* behind dst_macs: as long as lcore_main has not handed a burst to a port
\* that does not exist, every mbuf is in exactly one place, so none is freed
\* while a ring still holds it and none is lost from all of them.
THEOREM OneOwnerOfEachMbuf == FwdSpec => []OneOwner
<1> QED
  BY Inductive, OwnedCounts, PTL

----------------------------------------------------------------------------
\* The same with lengths: the frames of the TX rings and their octets.
AtOwnPort ==
  \A p \in FwdPorts : \A k \in 1 .. Len(txq[p]) : octet[txq[p][k]] = 6 + p

\* A pass of lcore_main, when a burst is one frame and no port is beyond the
\* end of dst_macs.
LEMMA PassOwnPort ==
  ASSUME BurstSize = 1, NbPorts <= 4, IndInv, AtOwnPort, lcore_main
  PROVE  AtOwnPort'
<1>1. TypeInv /\ octet' = octet /\ main = "run"
  BY DEF IndInv, lcore_main
<1>2. FwdPorts \subseteq 0 .. 3
  BY BasicFwdAssumption DEF FwdPorts
<1>3. CASE main' # "crash"
  <2>1. PICK nb, out, t, back, gone :
          /\ Moved(nb, out, t, back, gone) /\ nb <= BurstSize
          /\ (t > 0 /\ out <= 3) => octet[rxq[port][1]] = 6 + out
    BY <1>1, <1>3, PassEffect
  <2>2. out \in FwdPorts /\ t \in 0 .. 1
    <3>1. Len(rxq[port]) \in Nat
      BY <1>1, <1>3, PassEffect, LenProperties DEF TypeInv
    <3> QED
      BY <2>1, <3>1 DEF Moved
  <2> SUFFICES ASSUME NEW p \in FwdPorts, NEW k \in 1 .. Len(txq'[p])
               PROVE  octet[txq'[p][k]] = 6 + p
    BY <1>1 DEF AtOwnPort
  <2>3. CASE k \in 1 .. Len(txq[p]) /\ txq'[p][k] = txq[p][k]
    BY <2>3 DEF AtOwnPort
  <2>4. ASSUME NEW i \in 1 .. t, p = out, txq'[p][k] = rxq[port][i]
        PROVE  octet[txq'[p][k]] = 6 + p
    <3>1. i = 1 /\ t > 0 /\ out <= 3
      BY <1>2, <2>2
    <3> QED
      BY <2>1, <2>4, <3>1
  <2>5. \/ k \in 1 .. Len(txq[p]) /\ txq'[p][k] = txq[p][k]
        \/ /\ p = out /\ k - Len(txq[p]) \in 1 .. t
           /\ txq'[p][k] = rxq[port][k - Len(txq[p])]
    BY <2>1 DEF Moved
  <2> QED
    BY <2>3, <2>4, <2>5
<1>4. CASE main' = "crash"
  <2>1. \/ UNCHANGED <<main, pool, txq, stranded>>
        \/ \E bufs : Dispose(bufs)
    BY DEF lcore_main
  <2>2. ASSUME NEW bufs, Dispose(bufs)
        PROVE  txq' = txq
    BY <1>1, <1>4, <2>2, DisposeCases DEF Strand, Transmit
  <2> QED
    BY <1>1, <2>1, <2>2 DEF AtOwnPort
<1> QED
  BY <1>3, <1>4

\* A frame arrives in a free mbuf, which no TX ring holds.
LEMMA ArriveOwnPort ==
  ASSUME IndInv, AtOwnPort, NEW p \in FwdPorts, NEW b \in Mbufs,
         NEW o \in Octets \cup {BroadcastOctet}, Arrive(p, b, o)
  PROVE  AtOwnPort'
<1>1. TypeInv /\ Owned /\ b \in pool /\ txq' = txq
      /\ octet' = [octet EXCEPT ![b] = o]
  BY DEF IndInv, Arrive
<1>2. \A q \in FwdPorts : \A k \in 1 .. Len(txq[q]) : txq[q][k] # b
  BY <1>1 DEF Owned, Apart
<1>3. \A c : c # b => octet'[c] = octet[c]
  BY <1>1 DEF TypeInv
<1> QED
  BY <1>1, <1>2, <1>3 DEF AtOwnPort

\* A frame is on the wire: the others stay in their ring.
LEMMA SentOwnPort ==
  ASSUME IndInv, AtOwnPort, NEW p \in FwdPorts, Sent(p)
  PROVE  AtOwnPort'
<1>1. TypeInv /\ txq[p] \in Seq(Mbufs) /\ txq[p] # <<>>
  BY DEF IndInv, Sent, TypeInv
<1>2. txq' = [txq EXCEPT ![p] = Tail(txq[p])] /\ octet' = octet
  BY DEF Sent
<1>3. /\ Len(txq[p]) \in Nat /\ Len(Tail(txq[p])) = Len(txq[p]) - 1
      /\ \A i \in 1 .. Len(Tail(txq[p])) : Tail(txq[p])[i] = txq[p][i + 1]
  BY <1>1, HeadTailProperties, LenProperties
<1>4. \A i \in 1 .. Len(Tail(txq[p])) : i + 1 \in 1 .. Len(txq[p])
  BY <1>3
<1>5. /\ txq'[p] = Tail(txq[p])
      /\ \A q \in FwdPorts : q # p => txq'[q] = txq[q]
  BY <1>1, <1>2 DEF TypeInv
<1>6. ASSUME NEW q \in FwdPorts, NEW k \in 1 .. Len(txq'[q])
      PROVE  \E i \in 1 .. Len(txq[q]) : txq'[q][k] = txq[q][i]
  <2>1. CASE q = p
    BY <1>3, <1>4, <1>5, <2>1
  <2>2. CASE q # p
    BY <1>5, <2>2
  <2> QED
    BY <2>1, <2>2
<1> QED
  BY <1>2, <1>6 DEF AtOwnPort

\* For any mbufs and octets, and whatever lies behind dst_macs: were bursts of
\* one frame, and no more ports than dst_macs has entries, every frame would be
\* sent, as the comment of lcore_main says, by its own address.  Since no mbuf
\* is refilled while a TX ring holds it, that stays true until it is sent.  So
\* taking a burst by its first frame is the one cause of the other case.
THEOREM OwnAddressInBurstsOfOne ==
  ASSUME BurstSize = 1, NbPorts <= Len(dst_macs)
  PROVE  FwdSpec => []ByOwnAddress
<1>1. NbPorts <= 4
  <2>1. Len(dst_macs) = 4
    BY DEF dst_macs
  <2> QED
    BY <2>1
<1>2. FwdInit => AtOwnPort
  <2> SUFFICES ASSUME FwdInit PROVE AtOwnPort
    OBVIOUS
  <2>1. \A p \in FwdPorts : txq[p] = <<>>
    BY DEF FwdInit
  <2> QED
    BY <2>1 DEF AtOwnPort
<1>3. IndInv /\ AtOwnPort /\ FwdNext => AtOwnPort'
  <2> SUFFICES ASSUME IndInv, AtOwnPort, FwdNext PROVE AtOwnPort'
    OBVIOUS
  <2>1. CASE SetupFails \/ port_init
    BY <2>1 DEF SetupFails, port_init, rings, AtOwnPort
  <2> QED
    BY <1>1, <2>1, PassOwnPort, ArriveOwnPort, SentOwnPort DEF FwdNext
<1>4. AtOwnPort /\ UNCHANGED fwdVars => AtOwnPort'
  BY DEF fwdVars, AtOwnPort
<1>5. IndInv /\ AtOwnPort => ByOwnAddress
  <2> SUFFICES ASSUME IndInv, AtOwnPort PROVE ByOwnAddress
    OBVIOUS
  <2>1. \A p \in FwdPorts : DOMAIN txq[p] = 1 .. Len(txq[p])
    BY LenProperties DEF IndInv, TypeInv
  <2> QED
    BY <2>1 DEF AtOwnPort, ByOwnAddress
<1> QED
  BY <1>2, <1>3, <1>4, <1>5, Inductive, PTL DEF FwdSpec
=============================================================================
