-------------------------- MODULE OvsLibraryProofs --------------------------
(***************************************************************************)
(* What the stateless operations of packages ovs and ovsnl compute, for    *)
(* every width of the machine integers and every input: the blocks of      *)
(* PortRange.BitwiseMatch cover the range and nothing else, in order, and  *)
(* no cover by such blocks is smaller; New gives a client exactly when the *)
(* kernel has its four families; a reply is decoded whole or refused; and  *)
(* the Go source of a match or an action denotes it.  The last part        *)
(* applies these theorems, and those of OvsTextProofs, to LibrarySpec.     *)
(***************************************************************************)
EXTENDS OvsTextProofs

LEMMA Widths ==
  /\ U16 \in Nat \ {0}
  /\ Modulus \in Nat /\ Modulus > 1
  /\ Ports = 0 .. Modulus - 1
  /\ \A b \in 0 .. U16 : 2 ^ b \in Nat \ {0} /\ 2 ^ b <= Modulus
<1>1. U16 \in Nat \ {0}
  BY WidthAssumption
<1>2. ASSUME NEW b \in 0 .. U16 PROVE 2 ^ b \in Nat \ {0} /\ 2 ^ b <= 2 ^ U16
  <2>1. b \in Nat /\ b <= U16
    BY <1>1
  <2> QED
    BY <1>1, <2>1, PowerPositive, PowerMonotone
<1>3. 2 ^ U16 \in Nat /\ 2 ^ U16 > 1
  <2>1. 0 \in Nat /\ 0 < U16
    BY <1>1
  <2> QED
    BY <1>1, <2>1, PowerPositive, PowerMonotone, PowerOfTwo
<1> QED
  BY <1>1, <1>2, <1>3 DEF Modulus, Ports

----------------------------------------------------------------------------
(* The largest block that ends where the range does.                       *)

\* getRange rounds end down and up to a block: the sum does not wrap, and
\* the block ends within the range only where it ends with it.
LEMMA GetRange ==
  ASSUME NEW end \in Ports, NEW b \in 0 .. U16
  PROVE  /\ getRange(end, b).start = end - (end % 2 ^ b)
         /\ getRange(end, b).start \in 0 .. end
         /\ getRange(end, b).end = getRange(end, b).start + 2 ^ b - 1
         /\ end <= getRange(end, b).end
         /\ getRange(end, b).end <= end <=> (end + 1) % 2 ^ b = 0
<1> DEFINE B == 2 ^ b
           q == end \div B
           r == end % B
<1>1. /\ U16 \in Nat /\ b \in Nat /\ b <= U16 /\ end \in Nat /\ end < Modulus
      /\ Modulus \in Nat /\ B \in Nat \ {0} /\ Modulus = 2 ^ U16
  BY Widths DEF Modulus
<1>2. PICK m \in Nat \ {0} : Modulus = m * B
  BY <1>1, PowerDivides
<1> HIDE DEF B
<1>3. q \in Nat /\ r \in 0 .. B - 1 /\ end = B * q + r
  BY <1>1, DivisionParts
<1> HIDE DEF q, r
<1>4. q < m
  <2>1. ASSUME m <= q PROVE FALSE
    <3>1. B * m <= B * q
      <4>1. CASE m < q
        BY <1>1, <1>3, <4>1, MultiplesApart
      <4>2. CASE m = q
        BY <1>1, <1>3, <4>2
      <4> QED
        BY <1>3, <2>1, <4>1, <4>2
    <3> QED
      BY <1>1, <1>2, <1>3, <3>1
  <2> QED
    BY <1>3, <2>1
<1>5. B * q + B <= Modulus
  BY <1>1, <1>2, <1>3, <1>4, MultiplesApart
<1>6. (end - r + (B - 1)) % Modulus = end - r + (B - 1)
  <2>1. end - r + (B - 1) \in 0 .. Modulus - 1
    BY <1>1, <1>3, <1>5
  <2>2. end - r + (B - 1) = Modulus * 0 + (end - r + (B - 1))
    BY <1>1, <1>3
  <2> QED
    BY <1>1, <2>1, <2>2, DivisionUnique
<1>7. getRange(end, b) = [start |-> end - r, end |-> end - r + (B - 1)]
  <2>1. (B - 1) + 1 = B
    BY <1>1
  <2> QED
    BY <1>6, <2>1 DEF getRange, B, r
<1>8. r = B - 1 <=> (end + 1) % B = 0
  <2>1. CASE r = B - 1
    <3>1. end + 1 = B * (q + 1) + 0
      BY <1>1, <1>3, <2>1
    <3> QED
      BY <1>1, <1>3, <2>1, <3>1, DivisionUnique
  <2>2. CASE r # B - 1
    <3>1. end + 1 = B * q + (r + 1) /\ r + 1 \in 0 .. B - 1
      BY <1>1, <1>3, <2>2
    <3>2. (B * q + (r + 1)) % B = r + 1
      BY <1>1, <1>3, <3>1, DivisionUnique
    <3> QED
      BY <1>3, <3>1, <3>2
  <2> QED
    BY <2>1, <2>2
<1>9. /\ end - r \in 0 .. end /\ end - r + (B - 1) = (end - r) + B - 1
      /\ end <= end - r + (B - 1)
      /\ end - r + (B - 1) <= end <=> r = B - 1
  BY <1>1, <1>3
<1> QED
  BY <1>7, <1>8, <1>9 DEF B, r

LEMMA RangeType ==
  ASSUME NEW end \in Ports, NEW b \in 0 .. U16
  PROVE  end \in Nat /\ getRange(end, b).end \in Nat
<1>1. end \in Nat /\ 2 ^ b \in Nat \ {0}
  BY Widths
<1>2. /\ getRange(end, b).end = getRange(end, b).start + 2 ^ b - 1
      /\ getRange(end, b).start \in 0 .. end
  BY GetRange
<1> QED
  BY <1>1, <1>2

LEMMA FloorLog ==
  ASSUME NEW n \in 1 .. Modulus - 1
  PROVE  /\ FloorLog2(n) \in 0 .. U16
         /\ 2 ^ FloorLog2(n) <= n /\ n < 2 ^ (FloorLog2(n) + 1)
<1> DEFINE T == {b \in Nat : n < 2 ^ (b + 1)}
<1>1. n \in Nat /\ n >= 1 /\ n < Modulus /\ U16 \in Nat /\ Modulus = 2 ^ U16
  BY Widths DEF Modulus
<1>2. U16 \in T
  <2>1. 2 ^ U16 <= 2 ^ (U16 + 1) /\ 2 ^ U16 \in Nat /\ 2 ^ (U16 + 1) \in Nat
    BY <1>1, PowerMonotone, PowerPositive
  <2> QED
    BY <1>1, <2>1
<1>3. PICK x \in T : \A y \in T : x <= y
  BY <1>2, LeastNumber
<1>4. x \in 0 .. U16 /\ n < 2 ^ (x + 1)
  BY <1>1, <1>2, <1>3
<1>5. 2 ^ x <= n
  <2>1. CASE x = 0
    BY <1>1, <2>1, PowerOfTwo
  <2>2. CASE x # 0
    <3>1. x - 1 \in Nat /\ x - 1 \notin T /\ (x - 1) + 1 = x
      BY <1>3, <2>2
    <3>2. ~(n < 2 ^ x)
      BY <3>1
    <3>3. 2 ^ x \in Nat
      BY <1>3, PowerPositive
    <3> QED
      BY <1>1, <3>2, <3>3
  <2> QED
    BY <2>1, <2>2
<1>6. \E b \in 0 .. U16 : 2 ^ b <= n /\ n < 2 ^ (b + 1)
  BY <1>4, <1>5
<1> QED
  BY <1>6 DEF FloorLog2

LEMMA Fitting ==
  ASSUME NEW end \in Ports, NEW k \in 0 .. U16
  PROVE  /\ FittingLength(end, k) \in 0 .. k
         /\ (end + 1) % 2 ^ FittingLength(end, k) = 0
         /\ \A c \in FittingLength(end, k) + 1 .. k : (end + 1) % 2 ^ c # 0
<1>1. k \in Nat /\ \A b \in 0 .. k : b \in 0 .. U16
  BY Widths
<1> DEFINE T == {b \in 0 .. k : getRange(end, b).end <= end}
<1>2. 0 \in T
  <2>1. 0 \in 0 .. U16 /\ 0 \in 0 .. k /\ 2 ^ 0 = 1 /\ end + 1 \in Nat
    BY <1>1, Widths, PowerOfTwo
  <2>2. (end + 1) % 2 ^ 0 = 0
    BY <2>1
  <2> QED
    BY <2>1, <2>2, GetRange
<1>3. PICK x \in T : \A y \in T : y <= x
  BY <1>1, <1>2, LargestNumber
<1>4. \E b \in 0 .. k : /\ getRange(end, b).end <= end
                        /\ \A c \in b + 1 .. k : getRange(end, c).end > end
  <2>1. ASSUME NEW c \in x + 1 .. k PROVE getRange(end, c).end > end
    <3>1. c \in 0 .. k /\ ~(c <= x) /\ c \in 0 .. U16
      BY <1>1, <1>3
    <3>2. c \notin T
      BY <1>3, <3>1
    <3>3. getRange(end, c).end \in Int /\ end \in Int
      BY <3>1, RangeType
    <3> QED
      BY <3>1, <3>2, <3>3
  <2> QED
    BY <1>3, <2>1
<1> DEFINE F == FittingLength(end, k)
<1>5. /\ F \in 0 .. k /\ getRange(end, F).end <= end
      /\ \A c \in F + 1 .. k : getRange(end, c).end > end
  BY <1>4 DEF FittingLength
<1> HIDE DEF F
<1>6. (end + 1) % 2 ^ F = 0
  BY <1>1, <1>5, GetRange
<1>7. ASSUME NEW c \in F + 1 .. k PROVE (end + 1) % 2 ^ c # 0
  <2>1. c \in 0 .. U16 /\ getRange(end, c).end > end
    BY <1>1, <1>5
  <2>2. getRange(end, c).end \in Int /\ end \in Int
    BY <2>1, RangeType
  <2>3. ~(getRange(end, c).end <= end)
    BY <2>1, <2>2
  <2> QED
    BY <2>1, <2>3, GetRange
<1> QED
  BY <1>5, <1>6, <1>7 DEF F
\* The length that BitwiseMatch settles on, a single port being a block too.
BestLength(start, end) ==
  IF start = end THEN 0 ELSE FittingLength(end, FloorLog2(Window(start, end)))

\* It is the largest of which a block ends with the range and fits in it.
IsBest(start, end, c) ==
  /\ c \in 0 .. U16
  /\ 2 ^ c <= end - start + 1
  /\ (end + 1) % 2 ^ c = 0
  /\ \A d \in c + 1 .. U16 : 2 ^ d <= end - start + 1 => (end + 1) % 2 ^ d # 0

LEMMA BestIsBest ==
  ASSUME NEW start \in Ports, NEW end \in Ports, 0 < start, start <= end
  PROVE  IsBest(start, end, BestLength(start, end))
<1>1. /\ start \in Nat /\ end \in Nat /\ end < Modulus /\ Modulus \in Nat
      /\ U16 \in Nat
  BY Widths
<1>2. CASE start = end
  <2>1. BestLength(start, end) = 0 /\ 2 ^ 0 = 1 /\ 0 \in 0 .. U16
    BY <1>1, <1>2, PowerOfTwo DEF BestLength
  <2>2. ASSUME NEW d \in 0 + 1 .. U16 PROVE ~(2 ^ d <= end - start + 1)
    <3>1. d - 1 \in Nat /\ (d - 1) + 1 = d
      BY <1>1
    <3>2. 2 ^ ((d - 1) + 1) = 2 * 2 ^ (d - 1)
      BY <3>1, PowerOfTwo
    <3>3. 2 ^ (d - 1) \in Nat \ {0} /\ 2 ^ d = 2 * 2 ^ (d - 1)
      BY <3>1, <3>2, PowerPositive
    <3> QED
      BY <1>1, <1>2, <3>3
  <2>3. end - start + 1 = 1 /\ (end + 1) % 1 = 0
    BY <1>1, <1>2
  <2> QED
    BY <2>1, <2>2, <2>3 DEF IsBest
<1>3. CASE start # end
  <2> DEFINE w == end - start + 1
             k == FloorLog2(w)
             c == FittingLength(end, k)
  <2>1. w \in 1 .. Modulus - 1
    BY <1>1
  <2>2. Window(start, end) = w % Modulus
    BY DEF Window
  <2> HIDE DEF w
  <2>9. w % Modulus = w
    BY <1>1, <2>1, SmallModulo
  <2>3. k \in 0 .. U16 /\ 2 ^ k <= w /\ w < 2 ^ (k + 1)
    BY <2>1, FloorLog
  <2> HIDE DEF k
  <2>4. /\ c \in 0 .. k /\ (end + 1) % 2 ^ c = 0
        /\ \A d \in c + 1 .. k : (end + 1) % 2 ^ d # 0
    BY <2>3, Fitting
  <2>5. BestLength(start, end) = c
    BY <1>3, <2>2, <2>9 DEF BestLength, k
  <2> HIDE DEF c
  <2>6. 2 ^ c <= w
    <3>1. c \in Nat /\ k \in Nat /\ c <= k
      BY <1>1, <2>3, <2>4
    <3>2. 2 ^ c <= 2 ^ k /\ 2 ^ c \in Nat /\ 2 ^ k \in Nat
      BY <3>1, PowerMonotone, PowerPositive
    <3> QED
      BY <2>1, <2>3, <3>2, <1>1
  <2>7. ASSUME NEW d \in c + 1 .. U16, 2 ^ d <= w PROVE (end + 1) % 2 ^ d # 0
    <3>1. d \in Nat /\ k \in Nat /\ k + 1 \in Nat /\ c \in Nat
      BY <1>1, <2>3, <2>4
    <3>2. CASE d <= k
      BY <2>4, <3>1, <3>2
    <3>3. CASE k + 1 <= d
      <4>1. 2 ^ (k + 1) <= 2 ^ d
        BY <3>1, <3>3, PowerMonotone
      <4>2. 2 ^ (k + 1) \in Nat /\ 2 ^ d \in Nat
        BY <3>1, PowerPositive
      <4> QED
        BY <1>1, <2>1, <2>3, <2>7, <4>1, <4>2
    <3> QED
      BY <3>1, <3>2, <3>3
  <2>8. c \in 0 .. U16
    BY <1>1, <2>3, <2>4
  <2> QED
    BY <2>4, <2>5, <2>6, <2>7, <2>8 DEF IsBest, w
<1> QED
  BY <1>2, <1>3

\* The block in numbers: it starts in the range and ends with it.
LEMMA BestBlock ==
  ASSUME NEW start \in Ports, NEW end \in Ports, 0 < start, start <= end
  PROVE  /\ BestLength(start, end) \in 0 .. U16
         /\ 2 ^ BestLength(start, end) \in Nat \ {0}
         /\ start <= end + 1 - 2 ^ BestLength(start, end)
         /\ end + 1 - 2 ^ BestLength(start, end) \in start .. end
         /\ end + 1 - 2 ^ BestLength(start, end) \in Ports
<1> DEFINE c == BestLength(start, end)
<1>1. c \in 0 .. U16 /\ 2 ^ c <= end - start + 1
  BY BestIsBest DEF IsBest
<1> HIDE DEF c
<1>2. 2 ^ c \in Nat \ {0}
  BY <1>1, Widths
<1>3. /\ start \in Nat /\ end \in Nat /\ end < Modulus /\ Modulus \in Nat
      /\ Ports = 0 .. Modulus - 1
  BY Widths
<1>4. /\ start <= end + 1 - 2 ^ c /\ end + 1 - 2 ^ c \in start .. end
      /\ end + 1 - 2 ^ c \in Ports
  BY <1>1, <1>2, <1>3
<1> QED
  BY <1>1, <1>2, <1>4 DEF c
----------------------------------------------------------------------------
(* The recursion.                                                          *)

BitRanges == [value : Int, mask : Int]
Results   == {Fail} \cup {Ok(s) : s \in Seq(BitRanges)}

\* One step of BitwiseMatch, f being what the recursive calls return.
Body(f, r) ==
  IF r.start = 0 \/ r.end = 0 \/ r.start > r.end THEN Fail
  ELSE IF r.start = r.end
       THEN Ok(<<[value |-> r.start, mask |-> Modulus - 1]>>)
  ELSE
    LET bitLength == FittingLength(r.end, FloorLog2(Window(r.start, r.end)))
        range     == getRange(r.end, bitLength)
        current   == [value |-> range.start, mask |-> getMask(bitLength)]
        left      == IF r.start # range.start
                     THEN f[[start |-> r.start,
                             end |-> (range.start - 1) % Modulus]]
                     ELSE Ok(<<>>)
        right     == IF r.end # range.end
                     THEN f[[start |-> (range.end + 1) % Modulus,
                             end |-> r.end]]
                     ELSE Ok(<<>>)
    IN  IF left.ok /\ right.ok
        THEN Ok(left.val \o <<current>> \o right.val)
        ELSE Fail

\* The last block of a range and its first port.
First(start, end)   == end + 1 - 2 ^ BestLength(start, end)
Current(start, end) == [value |-> First(start, end),
                        mask |-> Modulus - 2 ^ BestLength(start, end)]

\* The step without what never happens: a block never ends before the
\* range, so nothing is left above it.
Simple(f, r) ==
  IF r.start = 0 \/ r.start > r.end THEN Fail
  ELSE IF r.start = First(r.start, r.end)
       THEN Ok(<<Current(r.start, r.end)>>)
  ELSE LET left == f[[start |-> r.start, end |-> First(r.start, r.end) - 1]]
       IN  IF left.ok THEN Ok(left.val \o <<Current(r.start, r.end)>>) ELSE Fail

LEMMA ResultsAre ==
  ASSUME NEW x \in Results
  PROVE  x.ok \in BOOLEAN /\ (x.ok => x = Ok(x.val) /\ x.val \in Seq(BitRanges))
<1>1. CASE x = Fail
  BY <1>1 DEF Fail
<1>2. ASSUME NEW s \in Seq(BitRanges), x = Ok(s)
      PROVE  x.ok = TRUE /\ x.val = s
  BY <1>2 DEF Ok
<1> QED
  BY <1>1, <1>2 DEF Results

LEMMA CurrentType ==
  ASSUME NEW start \in Ports, NEW end \in Ports, 0 < start, start <= end
  PROVE  /\ First(start, end) \in start .. end
         /\ First(start, end) \in Ports
         /\ start \in Nat /\ end \in Nat
         /\ start # First(start, end) => First(start, end) - 1 \in Ports
         /\ Current(start, end) \in BitRanges
<1>1. /\ First(start, end) \in start .. end /\ First(start, end) \in Ports
      /\ 2 ^ BestLength(start, end) \in Nat
  BY BestBlock DEF First
<1>2. /\ start \in Nat /\ end \in Nat /\ Modulus \in Nat
      /\ Ports = 0 .. Modulus - 1
  BY Widths
<1>3. start # First(start, end) => First(start, end) - 1 \in Ports
  BY <1>1, <1>2
<1>4. Modulus - 2 ^ BestLength(start, end) \in Int /\ First(start, end) \in Int
  BY <1>1, <1>2
<1> QED
  BY <1>1, <1>2, <1>3, <1>4 DEF Current, BitRanges

\* What the recursive calls return is a result.
TypedBelow(f, r) == \A q \in PortRanges : q.end < r.end => f[q] \in Results

LEMMA BodyIsSimple ==
  ASSUME NEW f, NEW r \in PortRanges, TypedBelow(f, r)
  PROVE  Body(f, r) = Simple(f, r)
<1> DEFINE s == r.start
           e == r.end
<1>1. s \in Ports /\ e \in Ports /\ s \in Nat /\ e \in Nat
  BY Widths DEF PortRanges
<1>2. CASE s = 0 \/ s > e
  BY <1>2 DEF Body, Simple
<1>3. CASE s # 0 /\ s = e
  <2>1. BestLength(s, e) = 0 /\ 2 ^ 0 = 1
    BY <1>3, PowerOfTwo DEF BestLength
  <2>2. First(s, e) = s /\ Current(s, e) = [value |-> s, mask |-> Modulus - 1]
    BY <1>1, <1>3, <2>1 DEF First, Current
  <2> QED
    BY <1>1, <1>3, <2>2 DEF Body, Simple
<1>4. CASE s # 0 /\ s < e
  <2> DEFINE c == FittingLength(e, FloorLog2(Window(s, e)))
             v == First(s, e)
             left == f[[start |-> s, end |-> v - 1]]
  <2>1. c = BestLength(s, e) /\ 0 < s /\ s <= e /\ e # 0
    BY <1>1, <1>4 DEF BestLength
  <2>2. c \in 0 .. U16 /\ (e + 1) % 2 ^ c = 0 /\ 2 ^ c \in Nat
    BY <1>1, <2>1, BestIsBest, BestBlock DEF IsBest
  <2>3. getRange(e, c).end = e /\ getRange(e, c).start = v
    <3> HIDE DEF c
    <3>1. /\ getRange(e, c).end = getRange(e, c).start + 2 ^ c - 1
          /\ e <= getRange(e, c).end /\ getRange(e, c).end <= e
          /\ getRange(e, c).start \in 0 .. e
      BY <1>1, <2>2, GetRange
    <3>2. v = e + 1 - 2 ^ c
      BY <2>1 DEF First
    <3> QED
      BY <1>1, <2>2, <3>1, <3>2
  <2>4. /\ v \in s .. e /\ (s # v => v - 1 \in Ports)
        /\ Current(s, e) \in BitRanges
    BY <1>1, <2>1, CurrentType
  <2>5. s # v => (v - 1) % Modulus = v - 1
    <3>1. Modulus \in Nat \ {0} /\ Ports = 0 .. Modulus - 1
      BY Widths
    <3> QED
      BY <2>4, <3>1, SmallModulo
  <2>6. Current(s, e) = [value |-> v, mask |-> getMask(c)]
    BY <2>1 DEF Current, getMask
  <2>7. Body(f, r) =
          LET l == IF s # v THEN left ELSE Ok(<<>>) IN
          IF l.ok THEN Ok(l.val \o <<Current(s, e)>> \o <<>>) ELSE Fail
    <3> HIDE DEF c, v
    <3>1. Body(f, r) =
            LET l == IF s # v THEN f[[start |-> s, end |-> (v - 1) % Modulus]]
                              ELSE Ok(<<>>)
                t == Ok(<<>>)
            IN  IF l.ok /\ t.ok
                THEN Ok(l.val \o <<Current(s, e)>> \o t.val) ELSE Fail
      BY <1>1, <1>4, <2>1, <2>3, <2>6 DEF Body, c
    <3> QED
      BY <2>5, <3>1 DEF Ok
  <2>8. CASE s = v
    <3>1. Body(f, r) = Ok(<<>> \o <<Current(s, e)>> \o <<>>)
      BY <2>7, <2>8 DEF Ok
    <3>2. <<>> \o <<Current(s, e)>> \o <<>> = <<Current(s, e)>>
      BY <2>4
    <3> QED
      BY <1>1, <1>4, <2>8, <3>1, <3>2 DEF Simple
  <2>9. CASE s # v
    <3>1. left \in Results
      <4>1. [start |-> s, end |-> v - 1] \in PortRanges /\ v - 1 < e
        BY <1>1, <2>4, <2>9 DEF PortRanges
      <4> QED
        BY <4>1 DEF TypedBelow
    <3>2. left.ok => left.val \in Seq(BitRanges)
      BY <3>1, ResultsAre
    <3>3. left.ok => left.val \o <<Current(s, e)>> \o <<>>
                     = left.val \o <<Current(s, e)>>
      BY <2>4, <3>2
    <3>4. Body(f, r) =
            IF left.ok THEN Ok(left.val \o <<Current(s, e)>>) ELSE Fail
      BY <2>7, <2>9, <3>3
    <3> QED
      BY <1>1, <1>4, <2>9, <3>4 DEF Simple
  <2> QED
    BY <2>8, <2>9
<1> QED
  BY <1>1, <1>2, <1>3, <1>4

LEMMA SimpleType ==
  ASSUME NEW f, NEW r \in PortRanges, TypedBelow(f, r)
  PROVE  Simple(f, r) \in Results
<1>1. r.start \in Ports /\ r.end \in Ports /\ r.start \in Nat /\ r.end \in Nat
  BY Widths DEF PortRanges
<1>2. CASE r.start = 0 \/ r.start > r.end
  BY <1>2 DEF Simple, Results
<1>3. CASE r.start # 0 /\ r.start <= r.end
  <2> DEFINE c == Current(r.start, r.end)
             v == First(r.start, r.end)
             left == f[[start |-> r.start, end |-> v - 1]]
  <2>1. /\ c \in BitRanges /\ (r.start # v => v - 1 \in Ports)
        /\ v \in r.start .. r.end
    BY <1>1, <1>3, CurrentType
  <2>2. CASE r.start = v
    <3>1. Simple(f, r) = Ok(<<c>>) /\ <<c>> \in Seq(BitRanges)
      BY <1>1, <1>3, <2>1, <2>2 DEF Simple
    <3> QED
      BY <3>1 DEF Results
  <2>3. CASE r.start # v
    <3>1. left \in Results
      <4>1. [start |-> r.start, end |-> v - 1] \in PortRanges /\ v - 1 < r.end
        BY <1>1, <2>1, <2>3 DEF PortRanges
      <4> QED
        BY <4>1 DEF TypedBelow
    <3>2. Simple(f, r) = IF left.ok THEN Ok(left.val \o <<c>>) ELSE Fail
      BY <1>1, <1>3, <2>3 DEF Simple
    <3>3. left.ok => left.val \o <<c>> \in Seq(BitRanges)
      BY <2>1, <3>1, ResultsAre
    <3> QED
      BY <3>2, <3>3 DEF Results
  <2> QED
    BY <2>2, <2>3
<1> QED
  BY <1>1, <1>2, <1>3

\* BitwiseMatch returns for every range: the recursion is on ranges that end
\* earlier.
LEMMA RecursionEnds ==
  \E f \in [PortRanges -> Results] :
    f = [r \in PortRanges |-> Simple(f, r)]
<1> DEFINE N == Modulus - 1
           V == [Ports -> Results]
           F == [0 .. N -> V]
           Of(g) == [r \in PortRanges |-> g[r.end][r.start]]
           Row(g, n) == [s \in Ports |-> Simple(Of(g), [start |-> s, end |-> n])]
           G == [n \in 0 .. N |-> [g \in F |-> Row(g, n)]]
<1>1. N \in Nat /\ Ports = 0 .. N /\ Ports \subseteq Nat
  BY Widths
<1>2. ASSUME NEW g \in F PROVE Of(g) \in [PortRanges -> Results]
  <2>1. ASSUME NEW r \in PortRanges PROVE g[r.end][r.start] \in Results
    BY <1>1 DEF PortRanges
  <2> QED
    BY <2>1
<1>3. ASSUME NEW g \in F, NEW n \in 0 .. N PROVE Row(g, n) \in V
  <2> HIDE DEF Of
  <2>1. ASSUME NEW s \in Ports
        PROVE  Simple(Of(g), [start |-> s, end |-> n]) \in Results
    <3>1. [start |-> s, end |-> n] \in PortRanges
      BY <1>1 DEF PortRanges
    <3> QED
      BY <1>2, <3>1, SimpleType DEF TypedBelow
  <2> QED
    BY <2>1
<1>4. G \in [0 .. N -> [F -> V]]
  <2> HIDE DEF Row, F, V
  <2> QED
    BY <1>3
<1>5. ASSUME NEW n \in 0 .. N, NEW g \in F, NEW h \in F,
             \A k \in 0 .. n - 1 : g[k] = h[k]
      PROVE  G[n][g] = G[n][h]
  <2>1. ASSUME NEW s \in Ports
        PROVE  Simple(Of(g), [start |-> s, end |-> n])
               = Simple(Of(h), [start |-> s, end |-> n])
    <3> DEFINE v == First(s, n)
    <3>1. n \in Ports /\ s \in Nat /\ n \in Nat
      BY <1>1
    <3>2. ASSUME s # 0, s <= n, s # v
          PROVE  Of(g)[[start |-> s, end |-> v - 1]]
                 = Of(h)[[start |-> s, end |-> v - 1]]
      <4>1. v \in s .. n /\ v - 1 \in Ports
        BY <3>1, <3>2, CurrentType
      <4> HIDE DEF v
      <4>2. v - 1 \in 0 .. n - 1
        BY <1>1, <3>1, <4>1
      <4>3. [start |-> s, end |-> v - 1] \in PortRanges
        BY <4>1 DEF PortRanges
      <4>4. /\ Of(g)[[start |-> s, end |-> v - 1]] = g[v - 1][s]
            /\ Of(h)[[start |-> s, end |-> v - 1]] = h[v - 1][s]
        BY <4>3
      <4> QED
        BY <1>5, <4>2, <4>4
    <3> HIDE DEF Of
    <3>3. CASE s = 0 \/ s > n
      BY <3>3 DEF Simple
    <3>4. CASE s # 0 /\ s <= n /\ s = v
      BY <3>1, <3>4 DEF Simple
    <3>5. CASE s # 0 /\ s <= n /\ s # v
      BY <3>1, <3>2, <3>5 DEF Simple
    <3> QED
      BY <3>1, <3>3, <3>4, <3>5
  <2>2. Row(g, n) = Row(h, n)
    <3> HIDE DEF Of
    <3> QED
      BY <2>1
  <2>3. G[n][g] = Row(g, n) /\ G[n][h] = Row(h, n)
    <3> HIDE DEF Row, F
    <3> QED
      OBVIOUS
  <2> QED
    BY <2>2, <2>3
<1>6. LooksBelow(N, V, G)
  <2> HIDE DEF G, V, N
  <2> QED
    BY <1>4, <1>5 DEF LooksBelow
<1>7. [s \in Ports |-> Fail] \in V
  BY DEF Results
<1>8. PICK f \in F : \A n \in 0 .. N : f[n] = G[n][f]
  <2> HIDE DEF G, V, N
  <2> QED
    BY <1>1, <1>6, <1>7, RecursionExists
<1>9. ASSUME NEW r \in PortRanges PROVE Of(f)[r] = Simple(Of(f), r)
  <2>1. r.end \in 0 .. N /\ r.start \in Ports
    BY <1>1 DEF PortRanges
  <2>2. f[r.end] = Row(f, r.end)
    <3> HIDE DEF Row, F
    <3> QED
      BY <1>8, <2>1
  <2>3. Of(f)[r] = f[r.end][r.start]
    OBVIOUS
  <2>4. [start |-> r.start, end |-> r.end] = r
    BY DEF PortRanges
  <2> HIDE DEF Of
  <2> QED
    BY <2>1, <2>2, <2>3, <2>4
<1>10. Of(f) = [r \in PortRanges |-> Of(f)[r]] /\ Of(f) \in [PortRanges -> Results]
  BY <1>2, <1>8
<1>11. Of(f) = [r \in PortRanges |-> Simple(Of(f), r)]
  <2> HIDE DEF Of
  <2> QED
    BY <1>9, <1>10
<1> QED
  <2> HIDE DEF Of
  <2> QED
    BY <1>10, <1>11

LEMMA BitwiseMatchIs ==
  /\ BitwiseMatch \in [PortRanges -> Results]
  /\ \A r \in PortRanges : BitwiseMatch[r] = Simple(BitwiseMatch, r)
<1>1. PICK f \in [PortRanges -> Results] : f = [r \in PortRanges |-> Simple(f, r)]
  BY RecursionEnds
<1>2. f = [r \in PortRanges |-> Body(f, r)]
  <2>1. \A r \in PortRanges : Body(f, r) = Simple(f, r)
    BY BodyIsSimple DEF TypedBelow
  <2> QED
    BY <1>1, <2>1
<1>3. BitwiseMatch = [r \in PortRanges |-> Body(BitwiseMatch, r)]
  <2>1. BitwiseMatch = CHOOSE g : g = [r \in PortRanges |-> Body(g, r)]
    BY DEF BitwiseMatch, Body
  <2> QED
    BY <1>2, <2>1
<1> DEFINE S == {n \in Nat : \A r \in PortRanges :
                               r.end = n => BitwiseMatch[r] \in Results}
<1>4. ASSUME NEW n \in Nat, \A k \in 0 .. n - 1 : k \in S PROVE n \in S
  <2> SUFFICES ASSUME NEW r \in PortRanges, r.end = n
               PROVE  BitwiseMatch[r] \in Results
    OBVIOUS
  <2>1. TypedBelow(BitwiseMatch, r)
    <3> SUFFICES ASSUME NEW q \in PortRanges, q.end < n
                 PROVE  BitwiseMatch[q] \in Results
      BY DEF TypedBelow
    <3>1. q.end \in 0 .. n - 1
      BY Widths DEF PortRanges
    <3> QED
      BY <1>4, <3>1
  <2>2. BitwiseMatch[r] = Simple(BitwiseMatch, r)
    BY <1>3, <2>1, BodyIsSimple
  <2> QED
    BY <2>1, <2>2, SimpleType
<1>5. Nat \subseteq S
  <2> HIDE DEF S
  <2> QED
    BY <1>4, StrongInductionOnSet
<1>6. ASSUME NEW r \in PortRanges PROVE BitwiseMatch[r] \in Results
  <2>1. r.end \in Nat
    BY Widths DEF PortRanges
  <2> QED
    BY <1>5, <2>1
<1>7. BitwiseMatch \in [PortRanges -> Results]
  BY <1>3, <1>6
<1>8. ASSUME NEW r \in PortRanges
      PROVE  BitwiseMatch[r] = Simple(BitwiseMatch, r)
  BY <1>3, <1>6, BodyIsSimple DEF TypedBelow
<1> QED
  BY <1>7, <1>8
----------------------------------------------------------------------------
(* The blocks are a cover.                                                 *)

Size(x) == Modulus - x.mask

\* Block x is aligned and inside the range.
IsBlock(x, start, end) ==
  \E c \in 0 .. U16 :
    /\ Size(x) = 2 ^ c /\ x.value \in Ports /\ x.value % 2 ^ c = 0
    /\ start <= x.value /\ x.value + 2 ^ c - 1 <= end

Holds(x, p) == x.value <= p /\ p < x.value + Size(x)

\* Blocks of the range, each beginning where the one before ends, the last
\* ending with the range, and every port in one of them.
IsCover(x, start, end) ==
  /\ x \in Seq(BitRanges) /\ Len(x) > 0
  /\ \A i \in 1 .. Len(x) : IsBlock(x[i], start, end)
  /\ \A i \in 1 .. Len(x) - 1 : x[i + 1].value = x[i].value + Size(x[i])
  /\ x[Len(x)].value + Size(x[Len(x)]) = end + 1
  /\ \A p \in start .. end : \E i \in 1 .. Len(x) : Holds(x[i], p)

LEMMA CurrentIsBlock ==
  ASSUME NEW start \in Ports, NEW end \in Ports, 0 < start, start <= end
  PROVE  /\ IsBlock(Current(start, end), start, end)
         /\ Current(start, end).value = First(start, end)
         /\ Current(start, end).value + Size(Current(start, end)) = end + 1
         /\ Size(Current(start, end)) = 2 ^ BestLength(start, end)
         /\ First(start, end) % 2 ^ BestLength(start, end) = 0
<1> DEFINE c == BestLength(start, end)
           v == First(start, end)
<1>1. c \in 0 .. U16 /\ (end + 1) % 2 ^ c = 0 /\ 2 ^ c \in Nat \ {0}
  BY BestIsBest, BestBlock DEF IsBest
<1>2. /\ start \in Nat /\ end \in Nat /\ Modulus \in Nat /\ v \in Ports
      /\ v \in start .. end
  BY CurrentType, Widths
<1>3. v = end + 1 - 2 ^ c
  BY DEF First
<1>4. Current(start, end) = [value |-> v, mask |-> Modulus - 2 ^ c]
  BY DEF Current
<1> HIDE DEF c, v
<1>5. Size(Current(start, end)) = 2 ^ c /\ Current(start, end).value = v
  BY <1>1, <1>2, <1>4 DEF Size
<1>6. v % 2 ^ c = 0
  <2> DEFINE B == 2 ^ c
             k == (end + 1) \div B
  <2>1. B \in Nat \ {0} /\ end + 1 \in Nat /\ (end + 1) % B = 0
    BY <1>1, <1>2
  <2> HIDE DEF B
  <2>2. k \in Nat /\ end + 1 = B * k + 0
    BY <2>1, DivisionParts
  <2> HIDE DEF k
  <2>3. k # 0
    BY <1>2, <2>1, <2>2
  <2>4. k - 1 \in Nat /\ 0 \in 0 .. B - 1 /\ v = B * (k - 1) + 0
    <3>1. v = end + 1 - B
      BY <1>3 DEF B
    <3>2. B * (k - 1) = B * k - B
      BY <2>1, <2>2
    <3> QED
      BY <1>2, <2>1, <2>2, <2>3, <3>1, <3>2
  <2>5. (B * (k - 1) + 0) % B = 0
    BY <2>1, <2>4, DivisionUnique
  <2> QED
    BY <2>4, <2>5 DEF B
<1>7. /\ v + 2 ^ c = end + 1 /\ start <= v /\ v + 2 ^ c - 1 <= end
  BY <1>1, <1>2, <1>3
<1>8. IsBlock(Current(start, end), start, end)
  BY <1>1, <1>2, <1>5, <1>6, <1>7 DEF IsBlock
<1> QED
  BY <1>5, <1>6, <1>7, <1>8 DEF c, v

LEMMA OneBlockCovers ==
  ASSUME NEW start \in Ports, NEW end \in Ports, 0 < start, start <= end,
         start = First(start, end)
  PROVE  IsCover(<<Current(start, end)>>, start, end)
<1> DEFINE y == Current(start, end)
           x == <<y>>
<1>1. /\ IsBlock(y, start, end) /\ y.value = start
      /\ y.value + Size(y) = end + 1
  BY CurrentIsBlock
<1>2. y \in BitRanges /\ start \in Nat /\ end \in Nat
  BY CurrentType
<1> HIDE DEF y
<1>3. x \in Seq(BitRanges) /\ Len(x) = 1 /\ x[1] = y
  BY <1>2
<1>4. ASSUME NEW p \in start .. end PROVE Holds(y, p)
  BY <1>1, <1>2 DEF Holds
<1> QED
  BY <1>1, <1>2, <1>3, <1>4 DEF IsCover, y

LEMMA CoverExtends ==
  ASSUME NEW start \in Ports, NEW end \in Ports, 0 < start, start <= end,
         start # First(start, end),
         NEW z, IsCover(z, start, First(start, end) - 1)
  PROVE  IsCover(z \o <<Current(start, end)>>, start, end)
<1> DEFINE y == Current(start, end)
           v == First(start, end)
           n == Len(z)
           x == z \o <<y>>
<1>1. /\ IsBlock(y, start, end) /\ y.value = v
      /\ y.value + Size(y) = end + 1
  BY CurrentIsBlock
<1>2. /\ y \in BitRanges /\ start \in Nat /\ end \in Nat /\ v \in start .. end
  BY CurrentType
<1> HIDE DEF y, v
<1>3. /\ z \in Seq(BitRanges) /\ n \in Nat /\ n > 0
      /\ \A i \in 1 .. n : IsBlock(z[i], start, v - 1)
      /\ \A i \in 1 .. n - 1 : z[i + 1].value = z[i].value + Size(z[i])
      /\ z[n].value + Size(z[n]) = v - 1 + 1
      /\ \A p \in start .. v - 1 : \E i \in 1 .. n : Holds(z[i], p)
  BY DEF IsCover, v
<1>4. /\ x \in Seq(BitRanges) /\ Len(x) = n + 1 /\ x[n + 1] = y
      /\ \A i \in 1 .. n : x[i] = z[i]
  BY <1>2, <1>3
<1> HIDE DEF x, n
<1>5. ASSUME NEW i \in 1 .. n + 1 PROVE IsBlock(x[i], start, end)
  <2>1. CASE i = n + 1
    BY <1>1, <1>4, <2>1
  <2>2. CASE i \in 1 .. n
    <3>1. PICK c \in 0 .. U16 :
            /\ Size(z[i]) = 2 ^ c /\ z[i].value \in Ports
            /\ z[i].value % 2 ^ c = 0
            /\ start <= z[i].value /\ z[i].value + 2 ^ c - 1 <= v - 1
      BY <1>3, <2>2 DEF IsBlock
    <3>2. 2 ^ c \in Nat /\ z[i].value \in Nat
      BY <3>1, Widths
    <3>3. z[i].value + 2 ^ c - 1 <= end
      BY <1>2, <3>1, <3>2
    <3> QED
      BY <1>4, <2>2, <3>1, <3>3 DEF IsBlock
  <2> QED
    BY <1>3, <2>1, <2>2
<1>6. ASSUME NEW i \in 1 .. (n + 1) - 1
      PROVE  x[i + 1].value = x[i].value + Size(x[i])
  <2>1. CASE i = n
    BY <1>1, <1>2, <1>3, <1>4, <2>1
  <2>2. CASE i \in 1 .. n - 1
    <3>1. i \in 1 .. n /\ i + 1 \in 1 .. n
      BY <1>3, <2>2
    <3> QED
      BY <1>3, <1>4, <2>2, <3>1
  <2> QED
    BY <1>3, <2>1, <2>2
<1>7. ASSUME NEW p \in start .. end PROVE \E i \in 1 .. n + 1 : Holds(x[i], p)
  <2>1. CASE p < v
    <3>0. p \in start .. v - 1
      BY <1>2, <2>1
    <3>1. PICK i \in 1 .. n : Holds(z[i], p)
      BY <1>3, <3>0
    <3> QED
      BY <1>3, <1>4, <3>1
  <2>2. CASE v <= p
    <3>1. Holds(y, p)
      BY <1>1, <1>2, <2>2 DEF Holds
    <3> QED
      BY <1>3, <1>4, <3>1
  <2> QED
    BY <1>2, <2>1, <2>2
<1>8. x[n + 1].value + Size(x[n + 1]) = end + 1 /\ n + 1 > 0
  BY <1>1, <1>3, <1>4
<1> QED
  BY <1>4, <1>5, <1>6, <1>7, <1>8 DEF IsCover, x, y

LEMMA BitwiseMatchCovers ==
  ASSUME NEW start \in Ports, NEW end \in Ports
  PROVE  LET r == BitwiseMatch[[start |-> start, end |-> end]] IN
         /\ r.ok <=> 0 < start /\ start <= end
         /\ r.ok => IsCover(r.val, start, end)
<1> DEFINE R(s, e) == BitwiseMatch[[start |-> s, end |-> e]]
           Covered(s, e) == /\ R(s, e).ok <=> 0 < s /\ s <= e
                            /\ R(s, e).ok => IsCover(R(s, e).val, s, e)
           S == {n \in Nat : n \in Ports => \A s \in Ports : Covered(s, n)}
<1>1. ASSUME NEW s \in Ports, NEW e \in Ports
      PROVE  /\ R(s, e) = Simple(BitwiseMatch, [start |-> s, end |-> e])
             /\ s \in Nat /\ e \in Nat
  <2>1. [start |-> s, end |-> e] \in PortRanges
    BY DEF PortRanges
  <2> QED
    BY <2>1, BitwiseMatchIs, Widths
<1>2. ASSUME NEW n \in Nat, \A k \in 0 .. n - 1 : k \in S PROVE n \in S
  <2> SUFFICES ASSUME n \in Ports, NEW s \in Ports PROVE Covered(s, n)
    OBVIOUS
  <2> DEFINE v == First(s, n)
             y == Current(s, n)
  <2>1. CASE s = 0 \/ s > n
    <3>1. R(s, n) = Fail
      BY <1>1, <2>1 DEF Simple
    <3>2. R(s, n).ok = FALSE /\ ~(0 < s /\ s <= n)
      BY <1>1, <2>1, <3>1 DEF Fail
    <3> HIDE DEF R
    <3> QED
      BY <3>2
  <2>2. CASE 0 < s /\ s <= n /\ s = v
    <3>1. R(s, n) = Ok(<<y>>)
      <4>1. ~(s = 0 \/ s > n)
        BY <1>1, <2>2
      <4> HIDE DEF y
      <4> QED
        BY <1>1, <2>2, <4>1 DEF Simple, y
    <3>2. IsCover(<<y>>, s, n)
      BY <2>2, OneBlockCovers
    <3> HIDE DEF y, R
    <3>3. R(s, n).ok = TRUE /\ R(s, n).val = <<y>>
      BY <3>1 DEF Ok
    <3> QED
      BY <2>2, <3>2, <3>3
  <2>3. CASE 0 < s /\ s <= n /\ s # v
    <3>1. v \in s .. n /\ v - 1 \in Ports
      BY <2>3, CurrentType
    <3>2. v - 1 \in 0 .. n - 1 /\ s <= v - 1
      BY <1>1, <2>3, <3>1
    <3>3. Covered(s, v - 1)
      <4> HIDE DEF Covered, v
      <4> QED
        BY <1>2, <3>1, <3>2
    <3>4. R(s, v - 1).ok = TRUE /\ IsCover(R(s, v - 1).val, s, v - 1)
      <4> HIDE DEF R, v
      <4> QED
        BY <2>3, <3>2, <3>3
    <3>5. R(s, n) = Ok(R(s, v - 1).val \o <<y>>)
      <4>0. s \in Nat
        BY <1>1
      <4>1. ~(s = 0 \/ s > n)
        <5> HIDE DEF v
        <5> QED
          BY <4>0, <2>3
      <4> HIDE DEF y
      <4> QED
        BY <1>1, <2>3, <3>4, <4>1 DEF Simple, y
    <3>6. IsCover(R(s, v - 1).val \o <<y>>, s, n)
      <4> HIDE DEF R
      <4> QED
        BY <2>3, <3>4, CoverExtends
    <3> HIDE DEF y, R
    <3>7. R(s, n).ok = TRUE /\ R(s, n).val = R(s, v - 1).val \o <<y>>
      BY <3>5 DEF Ok
    <3> QED
      BY <2>3, <3>6, <3>7
  <2> QED
    BY <1>1, <2>1, <2>2, <2>3
<1>3. Nat \subseteq S
  <2> HIDE DEF S
  <2> QED
    BY <1>2, StrongInductionOnSet
<1>4. Covered(start, end)
  <2> HIDE DEF Covered
  <2> QED
    BY <1>1, <1>3
<1> QED
  BY <1>4
----------------------------------------------------------------------------
(* The text of the cover.                                                  *)

\* A mask is never 0, so each block is written with it, and ovs-ofctl selects
\* the ports of the block.
LEMMA BlockSelected ==
  ASSUME NEW start \in Ports, NEW end \in Ports, 0 < start,
         NEW x \in BitRanges, IsBlock(x, start, end)
  PROVE  LET m == transportPortMatch("dst", x.value, x.mask) IN
         PortsSelected(MatchText(m).val.parts)
         = {p \in start .. end : Holds(x, p)}
<1> DEFINE m == transportPortMatch("dst", x.value, x.mask)
           v == x.value
           k == x.mask
<1>1. PICK c \in 0 .. U16 :
        /\ Size(x) = 2 ^ c /\ v \in Ports /\ v % 2 ^ c = 0
        /\ start <= v /\ v + 2 ^ c - 1 <= end
  BY DEF IsBlock
<1> DEFINE B == 2 ^ c
           q == v \div B
<1>2. /\ start \in Nat /\ end \in Nat /\ Modulus \in Nat /\ Ports = 0 .. Modulus - 1
      /\ end < Modulus /\ B \in Nat \ {0} /\ v \in Nat /\ k \in Int
  BY <1>1, Widths DEF BitRanges
<1>3. /\ Modulus - k = B /\ v % B = 0 /\ v + B - 1 <= end /\ start <= v
  BY <1>1 DEF Size
<1> HIDE DEF B
<1>4. k # 0
  BY <1>2, <1>3
<1>5. MatchText(m).val.parts = <<hex(v), hex(k)>>
  <2>1. /\ m.type = "transportPort" /\ m.srcdst = "dst" /\ m.num = v
        /\ m.mask = k
    BY DEF transportPortMatch
  <2> HIDE DEF m
  <2>2. MatchText(m) = transportPortMatch_MarshalText(m)
    BY <2>1 DEF MatchText
  <2>3. MatchText(m) = matchTransportPort("dst", v, k)
    BY <2>1, <2>2 DEF transportPortMatch_MarshalText
  <2>4. MatchText(m) = Text("tp_dst", <<hex(v), hex(k)>>)
    BY <1>4, <2>3 DEF matchTransportPort
  <2> QED
    BY <2>4 DEF Text, Ok
<1> DEFINE parts == <<hex(v), hex(k)>>
<1>6. PortsSelected(parts) = {p \in Ports : p \div B = v \div B}
  <2>1. Len(parts) = 2 /\ parts[1] = hex(v) /\ parts[2] = hex(k)
    OBVIOUS
  <2>2. Number(hex(v)) = v /\ Number(hex(k)) = k
    BY DEF Number, hex, IsDec
  <2> HIDE DEF parts, v, k
  <2> QED
    BY <1>3, <2>1, <2>2 DEF PortsSelected
<1>7. q \in Nat /\ v = B * q
  <2> HIDE DEF v
  <2>1. v = B * q + (v % B) /\ q \in Nat
    BY <1>2, DivisionParts
  <2> HIDE DEF q
  <2> QED
    BY <1>2, <1>3, <2>1
<1>8. ASSUME NEW p \in Ports PROVE p \div B = q <=> v <= p /\ p < v + B
  <2>1. p \in Nat
    BY <1>2
  <2> HIDE DEF q, v
  <2> QED
    BY <1>2, <1>7, <2>1, DividesToBlock
<1>9. ASSUME NEW p \in Nat PROVE Holds(x, p) <=> v <= p /\ p < v + B
  BY <1>1 DEF Holds, B
<1>10. {p \in Ports : p \div B = q} = {p \in start .. end : Holds(x, p)}
  <2> HIDE DEF q
  <2>1. ASSUME NEW p \in Ports, p \div B = q
        PROVE  p \in start .. end /\ Holds(x, p)
    <3>0. p \in Nat
      BY <1>2
    <3>1. p \in Nat /\ v <= p /\ p < v + B
      <4> HIDE DEF v
      <4> QED
        BY <1>8, <2>1, <3>0
    <3>2. Holds(x, p)
      BY <1>9, <3>1
    <3> HIDE DEF v
    <3>3. p \in start .. end
      BY <1>2, <1>3, <3>1
    <3> QED
      BY <3>2, <3>3
  <2>2. ASSUME NEW p \in start .. end, Holds(x, p)
        PROVE  p \in Ports /\ p \div B = q
    <3>1. p \in Ports /\ p \in Nat
      BY <1>2
    <3> QED
      BY <1>8, <1>9, <2>2, <3>1
  <2> QED
    BY <2>1, <2>2
<1> QED
  BY <1>5, <1>6, <1>10

\* For every width of a port and every range, what ovs-ofctl selects by the
\* masked ports of MaskedPorts is the range.
THEOREM MaskedPortsCover ==
  ASSUME NEW start \in Ports, NEW end \in Ports
  PROVE  CoversExactly(start, end)
<1> DEFINE b == BitwiseMatch[[start |-> start, end |-> end]]
           r == MaskedPorts("dst", start, end)
           m(i) == transportPortMatch("dst", b.val[i].value, b.val[i].mask)
<1>1. /\ b.ok <=> 0 < start /\ start <= end
      /\ b.ok => IsCover(b.val, start, end)
  BY BitwiseMatchCovers
<1> HIDE DEF b
<1>2. r = IF b.ok THEN Ok([i \in DOMAIN b.val |-> m(i)]) ELSE Fail
  BY DEF MaskedPorts, b
<1>3. CASE ~b.ok
  <2>1. r.ok = FALSE
    BY <1>2, <1>3 DEF Fail
  <2> QED
    BY <1>1, <1>3, <2>1 DEF CoversExactly
<1>4. CASE b.ok
  <2>1. r.ok = TRUE /\ r.val = [i \in DOMAIN b.val |-> m(i)]
    BY <1>2, <1>4 DEF Ok
  <2> DEFINE n == Len(b.val)
  <2>2. /\ b.val \in Seq(BitRanges) /\ DOMAIN b.val = 1 .. n
        /\ \A i \in 1 .. n : b.val[i] \in BitRanges /\ IsBlock(b.val[i], start, end)
        /\ \A p \in start .. end : \E i \in 1 .. n : Holds(b.val[i], p)
    BY <1>1, <1>4 DEF IsCover
  <2> HIDE DEF n
  <2>3. DOMAIN r.val = 1 .. n /\ \A i \in 1 .. n : r.val[i] = m(i)
    BY <2>1, <2>2
  <2> DEFINE P(i) == PortsSelected(MatchText(r.val[i]).val.parts)
  <2>4. ASSUME NEW i \in 1 .. n
        PROVE  P(i) = {p \in start .. end : Holds(b.val[i], p)}
    <3>1. PortsSelected(MatchText(m(i)).val.parts)
          = {p \in start .. end : Holds(b.val[i], p)}
      BY <1>1, <1>4, <2>2, BlockSelected
    <3> QED
      BY <2>3, <3>1
  <2>5. UNION {P(i) : i \in 1 .. n} = start .. end
    <3> HIDE DEF P
    <3> QED
      BY <2>2, <2>4
  <2> QED
    BY <1>1, <1>4, <2>1, <2>3, <2>5 DEF CoversExactly
<1> QED
  BY <1>3, <1>4
----------------------------------------------------------------------------
(* The cover is the coarsest.                                              *)

Within(x, y) == y[1] <= x[1] /\ x[1] + x[2] <= y[1] + y[2]
Before(x, y) == x[1] + x[2] <= y[1]

\* A block of a range in numbers.
LEMMA BlockNumbers ==
  ASSUME NEW start \in Nat, NEW end \in Int, NEW x \in BlocksInside(start, end)
  PROVE  /\ x = <<x[1], x[2]>> /\ x[1] \in Nat /\ x[2] \in Nat \ {0}
         /\ x[1] % x[2] = 0 /\ start <= x[1] /\ x[1] + x[2] <= end + 1
         /\ \E j \in 0 .. U16 : x[2] = 2 ^ j
<1>1. /\ x \in Ports \X {2 ^ k : k \in 0 .. U16}
      /\ x[1] % x[2] = 0 /\ start <= x[1] /\ x[1] + x[2] - 1 <= end
  BY DEF BlocksInside
<1>2. /\ x = <<x[1], x[2]>> /\ x[1] \in Ports /\ x[2] \in {2 ^ k : k \in 0 .. U16}
  BY <1>1
<1>3. PICK j \in 0 .. U16 : x[2] = 2 ^ j
  BY <1>2
<1>4. x[1] \in Nat /\ x[2] \in Nat \ {0}
  BY <1>2, <1>3, Widths
<1>5. x[1] + x[2] <= end + 1
  BY <1>1, <1>4
<1> QED
  BY <1>1, <1>2, <1>3, <1>4, <1>5

\* Of two aligned blocks one holds the other, or they are apart.
LEMMA BlocksNest ==
  ASSUME NEW i \in Nat, NEW j \in Nat, i <= j, NEW x, NEW y,
         x[1] \in Nat, x[2] = 2 ^ i, x[1] % x[2] = 0,
         y[1] \in Nat, y[2] = 2 ^ j, y[1] % y[2] = 0
  PROVE  Within(x, y) \/ Before(x, y) \/ Before(y, x)
<1> DEFINE X == x[2]
           Y == y[2]
           a == x[1] \div X
           b == y[1] \div Y
<1>1. X \in Nat \ {0} /\ Y \in Nat \ {0}
  BY PowerPositive
<1>2. PICK m \in Nat \ {0} : Y = m * X
  BY PowerDivides
<1> HIDE DEF X, Y
<1>3. a \in Nat /\ x[1] = X * a
  <2>1. x[1] % X = 0
    BY DEF X
  <2>2. x[1] = X * a + (x[1] % X) /\ a \in Nat
    BY <1>1, DivisionParts
  <2> HIDE DEF a
  <2> QED
    BY <1>1, <2>1, <2>2
<1>4. b \in Nat /\ y[1] = Y * b
  <2>1. y[1] % Y = 0
    BY DEF Y
  <2>2. y[1] = Y * b + (y[1] % Y) /\ b \in Nat
    BY <1>1, DivisionParts
  <2> HIDE DEF b
  <2> QED
    BY <1>1, <2>1, <2>2
<1> HIDE DEF a, b
<1> DEFINE l == m * b
           h == m * b + m
<1>5. l \in Nat /\ h \in Nat /\ y[1] = X * l /\ y[1] + Y = X * h
  <2>1. m * b \in Nat
    BY <1>2, <1>4
  <2>2. (m * X) * b = X * (m * b)
    BY <1>1, <1>2, <1>4
  <2>3. X * (m * b + m) = X * (m * b) + m * X
    BY <1>1, <1>2, <2>1
  <2> QED
    BY <1>2, <1>4, <2>1, <2>2, <2>3
<1> HIDE DEF l, h
<1>6. CASE a < l
  <2>1. X * a + X <= X * l
    BY <1>1, <1>3, <1>5, <1>6, MultiplesApart
  <2> QED
    BY <1>3, <1>5, <2>1 DEF Before, X
<1>7. CASE h <= a
  <2>1. X * h <= X * a
    BY <1>1, <1>3, <1>5, <1>7
  <2> QED
    BY <1>3, <1>5, <2>1 DEF Before, Y
<1>8. CASE l <= a /\ a < h
  <2>1. X * l <= X * a
    BY <1>1, <1>3, <1>5, <1>8
  <2>2. X * a + X <= X * h
    BY <1>1, <1>3, <1>5, <1>8, MultiplesApart
  <2> QED
    BY <1>3, <1>5, <2>1, <2>2 DEF Within, X, Y
<1> QED
  BY <1>3, <1>5, <1>6, <1>7, <1>8

LEMMA BlocksInsideNest ==
  ASSUME NEW start \in Nat, NEW end \in Int,
         NEW x \in BlocksInside(start, end), NEW y \in BlocksInside(start, end)
  PROVE  Within(x, y) \/ Within(y, x) \/ Before(x, y) \/ Before(y, x)
<1>1. /\ x[1] \in Nat /\ x[1] % x[2] = 0 /\ y[1] \in Nat /\ y[1] % y[2] = 0
  BY BlockNumbers
<1>2. PICK i \in 0 .. U16 : x[2] = 2 ^ i
  BY BlockNumbers
<1>3. PICK j \in 0 .. U16 : y[2] = 2 ^ j
  BY BlockNumbers
<1>4. i \in Nat /\ j \in Nat
  BY Widths
<1>5. CASE i <= j
  BY <1>1, <1>2, <1>3, <1>4, <1>5, BlocksNest
<1>6. CASE j <= i
  BY <1>1, <1>2, <1>3, <1>4, <1>6, BlocksNest
<1> QED
  BY <1>4, <1>5, <1>6
\* The last block of BitwiseMatch, as a pair, and the other blocks of the
\* range: inside it, or below it.
LastBlock(start, end) == <<First(start, end), 2 ^ BestLength(start, end)>>

LEMMA LastIsBlock ==
  ASSUME NEW start \in Ports, NEW end \in Ports, 0 < start, start <= end
  PROVE  /\ LastBlock(start, end) \in BlocksInside(start, end)
         /\ LastBlock(start, end)[1] = First(start, end)
         /\ LastBlock(start, end)[2] = 2 ^ BestLength(start, end)
         /\ First(start, end) \in Nat /\ 2 ^ BestLength(start, end) \in Nat \ {0}
         /\ First(start, end) + 2 ^ BestLength(start, end) = end + 1
<1> DEFINE c == BestLength(start, end)
           v == First(start, end)
<1>1. /\ c \in 0 .. U16 /\ 2 ^ c \in Nat \ {0} /\ v \in Ports /\ v \in start .. end
      /\ v = end + 1 - 2 ^ c /\ v % 2 ^ c = 0
  BY BestBlock, CurrentIsBlock DEF First
<1>2. start \in Nat /\ end \in Nat /\ v \in Nat
  BY <1>1, Widths
<1> HIDE DEF c, v
<1>3. v + 2 ^ c = end + 1 /\ v + 2 ^ c - 1 <= end /\ start <= v
  BY <1>1, <1>2
<1>4. <<v, 2 ^ c>> \in BlocksInside(start, end)
  BY <1>1, <1>3 DEF BlocksInside
<1> QED
  BY <1>1, <1>2, <1>3, <1>4 DEF LastBlock, c, v

LEMMA LastHolds ==
  ASSUME NEW start \in Ports, NEW end \in Ports, 0 < start, start <= end,
         NEW w \in BlocksInside(start, end)
  PROVE  Within(w, LastBlock(start, end)) \/ Before(w, LastBlock(start, end))
<1> DEFINE c == BestLength(start, end)
           v == First(start, end)
           z == LastBlock(start, end)
           B == 2 ^ c
<1>1. /\ z \in BlocksInside(start, end) /\ z[1] = v /\ z[2] = B
      /\ v \in Nat /\ B \in Nat \ {0} /\ v + B = end + 1
  BY LastIsBlock
<1>2. start \in Nat /\ end \in Nat
  BY Widths
<1>3. /\ w[1] \in Nat /\ w[2] \in Nat \ {0} /\ w[1] % w[2] = 0
      /\ start <= w[1] /\ w[1] + w[2] <= end + 1
  BY <1>2, BlockNumbers
<1>4. PICK j \in 0 .. U16 : w[2] = 2 ^ j
  BY <1>2, BlockNumbers
<1>5. IsBest(start, end, c)
  BY BestIsBest
<1> HIDE DEF c, v, z
<1>6. Within(w, z) \/ Within(z, w) \/ Before(w, z) \/ Before(z, w)
  BY <1>1, <1>2, BlocksInsideNest
<1>7. ~Before(z, w)
  BY <1>1, <1>2, <1>3 DEF Before
<1>8. ASSUME Within(z, w) PROVE Within(w, z)
  <2>1. w[1] + w[2] = end + 1
    BY <1>1, <1>2, <1>3, <1>8 DEF Within
  <2>2. (end + 1) % w[2] = 0
    <3>1. (w[1] + w[2]) % w[2] = 0
      BY <1>3, NextMultiple
    <3> QED
      BY <2>1, <3>1
  <2>3. 2 ^ j <= end - start + 1
    BY <1>2, <1>3, <1>4, <2>1
  <2>4. ~(j \in c + 1 .. U16)
    BY <1>4, <1>5, <2>2, <2>3 DEF IsBest
  <2>5. j \in Nat /\ c \in Nat /\ j <= c
    BY <1>5, <2>4, Widths DEF IsBest
  <2>6. w[2] <= B
    BY <1>4, <2>5, PowerMonotone
  <2> QED
    BY <1>1, <1>2, <1>3, <2>1, <2>6 DEF Within
<1> QED
  BY <1>6, <1>7, <1>8 DEF z

\* The maximal blocks of a range are its last and those of what is below it.
LEMMA MaximalBlocksStep ==
  ASSUME NEW start \in Ports, NEW end \in Ports, 0 < start, start <= end
  PROVE  /\ MaximalBlocks(start, end)
            = MaximalBlocks(start, First(start, end) - 1) \cup {LastBlock(start, end)}
         /\ LastBlock(start, end) \notin MaximalBlocks(start, First(start, end) - 1)
<1> DEFINE v == First(start, end)
           z == LastBlock(start, end)
           A == BlocksInside(start, end)
           L == BlocksInside(start, v - 1)
<1>1. /\ z \in A /\ z[1] = v /\ z[2] \in Nat \ {0} /\ v \in Nat
      /\ z[1] + z[2] = end + 1 /\ z = <<z[1], z[2]>>
  BY LastIsBlock DEF LastBlock
<1>2. start \in Nat /\ end \in Nat /\ v - 1 \in Int
  BY <1>1, Widths
<1>3. ASSUME NEW w \in A PROVE Within(w, z) \/ Before(w, z)
  BY LastHolds
<1>4. ASSUME NEW w \in A
      PROVE  /\ w = <<w[1], w[2]>> /\ w[1] \in Nat /\ w[2] \in Nat \ {0}
             /\ start <= w[1] /\ w[1] + w[2] <= end + 1
  BY <1>2, BlockNumbers
<1>5. ASSUME NEW w \in L
      PROVE  w[1] \in Nat /\ w[2] \in Nat \ {0} /\ w[1] + w[2] <= v - 1 + 1
  BY <1>2, BlockNumbers
<1>6. MaximalBlocks(start, end)
      = {x \in A : \A y \in A : Within(x, y) => y = x}
  BY DEF MaximalBlocks, Within
<1>7. MaximalBlocks(start, v - 1)
      = {x \in L : \A y \in L : Within(x, y) => y = x}
  BY DEF MaximalBlocks, Within
<1> HIDE DEF v, z
<1>8. ASSUME NEW w \in L PROVE w \in A /\ Before(w, z) /\ ~Within(w, z)
  <2>1. w[1] \in Nat /\ w[2] \in Nat \ {0} /\ w[1] + w[2] <= v
    BY <1>1, <1>5
  <2>2. Before(w, z) /\ ~Within(w, z)
    BY <1>1, <2>1 DEF Before, Within
  <2>3. w[1] + w[2] - 1 <= end
    BY <1>1, <1>2, <2>1
  <2>4. w \in A
    BY <2>3 DEF BlocksInside
  <2> QED
    BY <2>2, <2>4
<1>9. ASSUME NEW w \in A, Before(w, z) PROVE w \in L
  <2>1. w[1] + w[2] - 1 <= v - 1
    BY <1>1, <1>4, <1>9 DEF Before
  <2> QED
    BY <2>1 DEF BlocksInside
<1>10. Within(z, z)
  BY <1>1 DEF Within
<1>11. ASSUME NEW y \in A, Within(z, y) PROVE y = z
  <2>1. ~Before(y, z)
    BY <1>1, <1>4, <1>11 DEF Before, Within
  <2>2. Within(y, z)
    BY <1>3, <2>1
  <2>3. y[1] = z[1] /\ y[2] = z[2]
    BY <1>1, <1>4, <1>11, <2>2 DEF Within
  <2> QED
    BY <1>1, <1>4, <2>3
<1>12. ASSUME NEW w \in L, NEW y \in A, Within(w, y) PROVE y \in L
  <2>1. ~Within(y, z)
    <3>1. w[1] \in Nat /\ y[1] \in Nat /\ ~(v <= w[1])
      BY <1>1, <1>4, <1>5
    <3> QED
      BY <1>1, <1>12, <3>1 DEF Within
  <2> QED
    BY <1>3, <1>9, <2>1
<1> HIDE DEF A, L
<1>13. MaximalBlocks(start, end) \subseteq MaximalBlocks(start, v - 1) \cup {z}
  BY <1>1, <1>3, <1>6, <1>7, <1>8, <1>9
<1>14. z \in MaximalBlocks(start, end)
  BY <1>1, <1>6, <1>11
<1>15. MaximalBlocks(start, v - 1) \subseteq MaximalBlocks(start, end)
  BY <1>6, <1>7, <1>8, <1>12
<1>16. z \notin MaximalBlocks(start, v - 1)
  BY <1>7, <1>8, <1>10
<1> QED
  BY <1>13, <1>14, <1>15, <1>16 DEF v, z

Counted(start, end) ==
  LET r == BitwiseMatch[[start |-> start, end |-> end]].val IN
  /\ IsFiniteSet(MaximalBlocks(start, end))
  /\ r \in Seq(BitRanges) /\ Len(r) = Cardinality(MaximalBlocks(start, end))

\* One block more in the sequence and in the set.
LEMMA CountStep ==
  ASSUME NEW start \in Ports, NEW end \in Ports, 0 < start, start <= end,
         start # First(start, end) => Counted(start, First(start, end) - 1)
  PROVE  Counted(start, end)
<1> DEFINE v == First(start, end)
           y == Current(start, end)
           R(e) == BitwiseMatch[[start |-> start, end |-> e]]
           M(e) == MaximalBlocks(start, e)
<1>1. v \in start .. end /\ start \in Nat /\ end \in Nat /\ y \in BitRanges
  BY CurrentType
<1>2. /\ M(end) = M(v - 1) \cup {LastBlock(start, end)}
      /\ LastBlock(start, end) \notin M(v - 1)
  BY MaximalBlocksStep
<1>3. R(end) = Simple(BitwiseMatch, [start |-> start, end |-> end])
  <2>1. [start |-> start, end |-> end] \in PortRanges
    BY DEF PortRanges
  <2> QED
    BY <2>1, BitwiseMatchIs
<1>4. ~(start = 0 \/ start > end)
  BY <1>1
<1>5. CASE start = v
  <2>1. R(end) = Ok(<<y>>)
    <3> HIDE DEF y
    <3> QED
      BY <1>3, <1>4, <1>5 DEF Simple, y
  <2>2. R(end).val = <<y>> /\ Len(<<y>>) = 1 /\ <<y>> \in Seq(BitRanges)
    BY <1>1, <2>1 DEF Ok
  <2>3. M(v - 1) = {}
    <3>1. ASSUME NEW x \in BlocksInside(start, v - 1) PROVE FALSE
      <4>1. /\ x[1] \in Nat /\ x[2] \in Nat \ {0}
            /\ start <= x[1] /\ x[1] + x[2] <= v - 1 + 1
        BY <1>1, BlockNumbers
      <4> HIDE DEF v
      <4> QED
        BY <1>1, <1>5, <4>1
    <3> QED
      BY <3>1 DEF MaximalBlocks
  <2>4. IsFiniteSet(M(v - 1)) /\ Cardinality(M(v - 1)) = 0
    BY <2>3, FS_EmptySet
  <2>5. IsFiniteSet(M(end)) /\ Cardinality(M(end)) = 0 + 1
    <3> HIDE DEF M, v
    <3> QED
      BY <1>2, <2>4, FS_AddElement
  <2> QED
    BY <2>2, <2>5 DEF Counted
<1>6. CASE start # v
  <2>1. /\ IsFiniteSet(M(v - 1)) /\ R(v - 1).val \in Seq(BitRanges)
        /\ Len(R(v - 1).val) = Cardinality(M(v - 1))
    BY <1>6 DEF Counted
  <2>2. R(v - 1).ok
    <3>1. v - 1 \in Ports /\ start <= v - 1
      <4>1. v - 1 \in Ports
        BY <1>6, CurrentType
      <4> HIDE DEF v
      <4> QED
        BY <1>1, <1>6, <4>1
    <3> QED
      BY <3>1, BitwiseMatchCovers
  <2>3. R(end) = Ok(R(v - 1).val \o <<y>>)
    <3> HIDE DEF y
    <3> QED
      BY <1>3, <1>4, <1>6, <2>2 DEF Simple, y
  <2> HIDE DEF R, y, M, v
  <2>4. /\ R(end).val = R(v - 1).val \o <<y>> /\ R(end).val \in Seq(BitRanges)
        /\ Len(R(end).val) = Len(R(v - 1).val) + 1
    BY <1>1, <2>1, <2>3 DEF Ok
  <2>5. IsFiniteSet(M(end)) /\ Cardinality(M(end)) = Cardinality(M(v - 1)) + 1
    BY <1>2, <2>1, FS_AddElement
  <2> QED
    BY <2>1, <2>4, <2>5 DEF Counted, R, M
<1> QED
  BY <1>5, <1>6

LEMMA AllCounted ==
  ASSUME NEW start \in Ports, NEW end \in Ports, 0 < start, start <= end
  PROVE  Counted(start, end)
<1> DEFINE S == {n \in Nat : n \in Ports /\ start <= n => Counted(start, n)}
<1>1. ASSUME NEW n \in Nat, \A k \in 0 .. n - 1 : k \in S PROVE n \in S
  <2> SUFFICES ASSUME n \in Ports, start <= n PROVE Counted(start, n)
    OBVIOUS
  <2> DEFINE v == First(start, n)
  <2>1. ASSUME start # v PROVE Counted(start, v - 1)
    <3>1. v \in start .. n /\ v - 1 \in Ports /\ start \in Nat
      BY <2>1, CurrentType
    <3> HIDE DEF v
    <3>2. v - 1 \in 0 .. n - 1 /\ start <= v - 1
      BY <2>1, <3>1
    <3> QED
      BY <1>1, <3>1, <3>2
  <2> QED
    BY <2>1, CountStep
<1>2. Nat \subseteq S
  <2> HIDE DEF S
  <2> QED
    BY <1>1, StrongInductionOnSet
<1>3. end \in Nat
  BY Widths
<1> QED
  BY <1>2, <1>3

\* For every width of a port and every range, the blocks of BitwiseMatch are
\* in order, and as many as the maximal blocks of the range.
THEOREM BitwiseMatchCoarsest ==
  ASSUME NEW start \in Ports, NEW end \in Ports, 0 < start, start <= end
  PROVE  Coarsest(start, end)
<1> DEFINE r == BitwiseMatch[[start |-> start, end |-> end]].val
<1>1. IsCover(r, start, end)
  BY BitwiseMatchCovers
<1>2. Len(r) = Cardinality(MaximalBlocks(start, end))
  BY AllCounted DEF Counted
<1> QED
  BY <1>1, <1>2 DEF Coarsest, IsCover, Size

\* No set of aligned blocks, each one value under one mask of leading ones,
\* that covers a range and nothing else is smaller than what BitwiseMatch gives.
THEOREM NoSmallerCover ==
  ASSUME NEW start \in Ports, NEW end \in Ports, 0 < start, start <= end,
         NEW C \in SUBSET BlocksInside(start, end), IsFiniteSet(C),
         \A p \in start .. end : \E x \in C : x[1] <= p /\ p < x[1] + x[2]
  PROVE  Len(BitwiseMatch[[start |-> start, end |-> end]].val) <= Cardinality(C)
<1> DEFINE M == MaximalBlocks(start, end)
           A == BlocksInside(start, end)
           In(p, x) == x[1] <= p /\ p < x[1] + x[2]
           f == [m \in M |-> CHOOSE x \in C : In(m[1], x)]
<1>1. start \in Nat /\ end \in Nat /\ end \in Int
  BY Widths
<1>2. ASSUME NEW x \in A
      PROVE  /\ x = <<x[1], x[2]>> /\ x[1] \in Nat /\ x[2] \in Nat \ {0}
             /\ start <= x[1] /\ x[1] + x[2] <= end + 1
  BY <1>1, BlockNumbers
<1>3. ASSUME NEW x \in A, NEW y \in A
      PROVE  Within(x, y) \/ Within(y, x) \/ Before(x, y) \/ Before(y, x)
  BY <1>1, BlocksInsideNest
<1>4. M \subseteq A /\ \A x \in M, y \in A : Within(x, y) => y = x
  BY DEF MaximalBlocks, Within
<1>5. ASSUME NEW m \in M PROVE f[m] \in C /\ In(m[1], f[m])
  <2>1. m[1] \in start .. end
    BY <1>1, <1>2, <1>4
  <2>2. \E x \in C : In(m[1], x)
    BY <2>1
  <2> QED
    BY <2>2
<1> HIDE DEF f, M, A
<1>6. ASSUME NEW m \in M, NEW x \in A, In(m[1], x) PROVE Within(x, m)
  <2>1. m \in A /\ ~Before(m, x) /\ ~Before(x, m)
    BY <1>2, <1>4, <1>6 DEF Before
  <2>2. CASE Within(m, x)
    <3>1. x = m
      BY <1>4, <2>2
    <3> QED
      BY <2>2, <3>1
  <2> QED
    BY <1>3, <2>1, <2>2
<1>7. ASSUME NEW m \in M, NEW n \in M, f[m] = f[n] PROVE m = n
  <2> DEFINE x == f[m]
  <2>1. x \in A /\ Within(x, m) /\ Within(x, n)
    BY <1>5, <1>6, <1>7 DEF A
  <2>2. m \in A /\ n \in A /\ ~Before(m, n) /\ ~Before(n, m)
    <3>1. m \in A /\ n \in A
      BY <1>4
    <3> HIDE DEF x
    <3> QED
      BY <1>2, <2>1, <3>1 DEF Within, Before
  <2> QED
    BY <1>3, <1>4, <2>2
<1>8. f \in Injection(M, C)
  <2>1. f \in [M -> C]
    BY <1>5 DEF f
  <2> QED
    BY <1>7, <2>1 DEF Injection, IsInjective
<1>9. Cardinality(M) <= Cardinality(C)
  BY <1>8, FS_Injection
<1> QED
  BY <1>9, AllCounted DEF Counted, M

----------------------------------------------------------------------------
(* Loops that return at the first error.                                   *)

Outcomes(V, E) == {Good(x) : x \in V} \cup {Bad(e) : e \in E}

LEMMA OutcomesAre ==
  ASSUME NEW V, NEW E, "nil" \notin E, NEW r \in Outcomes(V, E)
  PROVE  r.err = "nil" => r.val \in V /\ r = Good(r.val)
<1>1. ASSUME NEW x \in V, r = Good(x) PROVE r.val \in V /\ r = Good(r.val)
  BY <1>1 DEF Good
<1>2. ASSUME NEW e \in E, r = Bad(e) PROVE r.err # "nil"
  BY <1>2 DEF Bad
<1> QED
  BY <1>1, <1>2 DEF Outcomes

LoopOf(f, N, v, G) ==
  \A n \in 0 .. N : f[n] = IF n = 0 THEN Good(v)
                           ELSE IF f[n - 1].err # "nil" THEN f[n - 1]
                           ELSE G[n][f[n - 1].val]

\* The values of such a loop after each element exist.
LEMMA LoopExists ==
  ASSUME NEW N \in Nat, NEW V, NEW v \in V, NEW E, "nil" \notin E,
         NEW G \in [1 .. N -> [V -> Outcomes(V, E)]]
  PROVE  \E f \in [0 .. N -> Outcomes(V, E)] : LoopOf(f, N, v, G)
<1> DEFINE R == Outcomes(V, E)
           g == Good(v)
           H == [n \in 1 .. N |-> [r \in R |->
                   IF r.err # "nil" THEN r ELSE G[n][r.val]]]
<1>1. g \in R
  BY DEF Outcomes
<1>2. H \in [1 .. N -> [R -> R]]
  <2>1. ASSUME NEW n \in 1 .. N, NEW r \in R
        PROVE  (IF r.err # "nil" THEN r ELSE G[n][r.val]) \in R
    <3>1. r.err = "nil" => r.val \in V
      BY OutcomesAre
    <3> QED
      BY <3>1
  <2> HIDE DEF R
  <2> QED
    BY <2>1
<1>3. ASSUME NEW n \in 1 .. N, NEW r \in R
      PROVE  H[n][r] = IF r.err # "nil" THEN r ELSE G[n][r.val]
  <2> HIDE DEF R
  <2> QED
    OBVIOUS
<1> HIDE DEF H
<1>4. PICK f \in [0 .. N -> R] : StepsOf(f, N, g, H)
  <2> HIDE DEF R, g
  <2> QED
    BY <1>1, <1>2, StepsExist
<1> HIDE DEF R
<1>5. ASSUME NEW n \in 0 .. N
      PROVE  f[n] = IF n = 0 THEN Good(v)
                    ELSE IF f[n - 1].err # "nil" THEN f[n - 1]
                    ELSE G[n][f[n - 1].val]
  <2>1. f[n] = IF n = 0 THEN g ELSE H[n][f[n - 1]]
    BY <1>4 DEF StepsOf
  <2>2. CASE n = 0
    BY <2>1, <2>2
  <2>3. CASE n # 0
    <3>1. n \in 1 .. N /\ n - 1 \in 0 .. N
      BY <2>3
    <3>2. f[n - 1] \in R
      BY <3>1
    <3> QED
      BY <1>3, <2>1, <2>3, <3>1, <3>2
  <2> QED
    BY <2>2, <2>3
<1> QED
  BY <1>5 DEF R, LoopOf

----------------------------------------------------------------------------
(* New.                                                                    *)

Clients == SUBSET {"datapath", "packet"}

\* The service that a family brings.
ServiceOf(f) == CASE f = "ovs_datapath" -> {"datapath"}
                  [] f = "ovs_packet"   -> {"packet"}
                  [] OTHER -> {}

LEMMA PrefixedFamilyIs ==
  ASSUME NEW c \in Clients, NEW f
  PROVE  /\ PrefixedFamily(c, f) \in Outcomes(Clients, {"unrecognized"})
         /\ f \in OvsPrefix \ Known => PrefixedFamily(c, f) = Bad("unrecognized")
         /\ f \notin OvsPrefix \ Known =>
              PrefixedFamily(c, f) = Good(c \cup ServiceOf(f))
<1> USE DEF PrefixedFamily, OvsPrefix, Known, ServiceOf
<1>1. CASE f = "ovs_datapath"
  BY <1>1 DEF initFamily, Clients, Outcomes
<1>2. CASE f = "ovs_packet"
  BY <1>2 DEF initFamily, Clients, Outcomes
<1>3. CASE f \in {"ovs_flow", "ovs_vport"}
  BY <1>3 DEF initFamily, Clients, Outcomes
<1>4. CASE f = "ovs_meter"
  BY <1>4 DEF initFamily, Clients, Outcomes
<1>5. CASE f \notin OvsPrefix
  BY <1>5 DEF Clients, Outcomes
<1> QED
  BY <1>1, <1>2, <1>3, <1>4, <1>5

\* After n families: an error when one with the prefix is unknown, else the
\* services of those seen.
LoopIs(families, n, r) ==
  /\ r \in Outcomes(Clients, {"unrecognized"})
  /\ r.err = "nil" <=> \A i \in 1 .. n : families[i] \notin OvsPrefix \ Known
  /\ r.err = "nil" => r.val = UNION {ServiceOf(families[i]) : i \in 1 .. n}

LEMMA LoopStep ==
  ASSUME NEW F, NEW families \in Seq(F), NEW n \in 1 .. Len(families), NEW r,
         LoopIs(families, n - 1, r)
  PROVE  LoopIs(families, n, IF r.err # "nil" THEN r
                             ELSE PrefixedFamily(r.val, families[n]))
<1> DEFINE f == families[n]
           s == PrefixedFamily(r.val, f)
           E == {"unrecognized"}
<1>1. f \in F /\ n \in Nat /\ 1 .. n = (1 .. n - 1) \cup {n}
  OBVIOUS
<1>2. r \in Outcomes(Clients, E) /\ "nil" \notin E
  BY DEF LoopIs
<1>3. CASE r.err # "nil"
  BY <1>1, <1>3 DEF LoopIs
<1>4. CASE r.err = "nil"
  <2>1. r.val \in Clients
    BY <1>2, <1>4, OutcomesAre
  <2>2. CASE f \in OvsPrefix \ Known
    <3>1. s = Bad("unrecognized") /\ s \in Outcomes(Clients, E)
      BY <1>1, <2>1, <2>2, PrefixedFamilyIs
    <3>2. s.err # "nil"
      BY <3>1 DEF Bad
    <3> HIDE DEF s
    <3> QED
      BY <1>1, <1>4, <2>2, <3>1, <3>2 DEF LoopIs, s
  <2>3. CASE f \notin OvsPrefix \ Known
    <3>1. s \in Outcomes(Clients, E) /\ s = Good(r.val \cup ServiceOf(f))
      BY <1>1, <2>1, <2>3, PrefixedFamilyIs
    <3>2. s.err = "nil" /\ s.val = r.val \cup ServiceOf(f)
      BY <3>1 DEF Good
    <3> HIDE DEF s
    <3>3. LoopIs(families, n, s)
      BY <1>1, <1>4, <2>3, <3>1, <3>2 DEF LoopIs
    <3> QED
      BY <1>4, <3>3 DEF s
  <2> QED
    BY <2>2, <2>3
<1> QED
  BY <1>3, <1>4

LEMMA FamilyLoop ==
  ASSUME NEW F, NEW families \in Seq(F)
  PROVE  LoopIs(families, Len(families),
                Fold({}, families, PrefixedFamily))
<1> DEFINE N == Len(families)
           E == {"unrecognized"}
           R == Outcomes(Clients, E)
           G == [n \in 1 .. N |-> [c \in Clients |-> PrefixedFamily(c, families[n])]]
           Is(f) == f = [n \in 0 .. N |->
                           IF n = 0 THEN Good({})
                           ELSE IF f[n - 1].err # "nil" THEN f[n - 1]
                           ELSE PrefixedFamily(f[n - 1].val, families[n])]
           a == CHOOSE f : Is(f)
<1>1. N \in Nat /\ {} \in Clients /\ "nil" \notin E
  BY DEF Clients
<1>2. Fold({}, families, PrefixedFamily) = a[N]
  BY DEF Fold
<1>3. G \in [1 .. N -> [Clients -> R]]
  <2>1. ASSUME NEW n \in 1 .. N, NEW c \in Clients
        PROVE  PrefixedFamily(c, families[n]) \in R
    <3>1. families[n] \in F
      OBVIOUS
    <3> QED
      BY <3>1, PrefixedFamilyIs
  <2> HIDE DEF R, N
  <2> QED
    BY <2>1
<1>4. PICK f \in [0 .. N -> R] : LoopOf(f, N, {}, G)
  <2> HIDE DEF G, E, N
  <2> QED
    BY <1>1, <1>3, LoopExists
<1>0. ASSUME NEW n \in 0 .. N
      PROVE  f[n] = IF n = 0 THEN Good({})
                    ELSE IF f[n - 1].err # "nil" THEN f[n - 1]
                    ELSE G[n][f[n - 1].val]
  <2> HIDE DEF G
  <2> QED
    BY <1>4 DEF LoopOf
<1>5. Is(f)
  <2>1. ASSUME NEW n \in 0 .. N
        PROVE  f[n] = IF n = 0 THEN Good({})
                      ELSE IF f[n - 1].err # "nil" THEN f[n - 1]
                      ELSE PrefixedFamily(f[n - 1].val, families[n])
    <3>1. CASE n = 0
      BY <1>0, <3>1
    <3>2. CASE n # 0 /\ f[n - 1].err # "nil"
      BY <1>0, <3>2
    <3>3. CASE n # 0 /\ f[n - 1].err = "nil"
      <4>1. n \in 1 .. N /\ n - 1 \in 0 .. N
        BY <1>1, <3>3
      <4>2. f[n - 1].val \in Clients
        BY <1>1, <3>3, <4>1, OutcomesAre
      <4>3. G[n][f[n - 1].val] = PrefixedFamily(f[n - 1].val, families[n])
        BY <4>1, <4>2
      <4> HIDE DEF G
      <4> QED
        BY <1>0, <3>3, <4>3
    <3> QED
      BY <3>1, <3>2, <3>3
  <2> HIDE DEF N
  <2> QED
    BY <1>4, <2>1
<1>6. Is(a)
  <2> HIDE DEF Is
  <2> QED
    BY <1>5
<1> HIDE DEF a
<1> DEFINE S == {n \in 0 .. N : LoopIs(families, n, a[n])}
<1>7. 0 \in S
  <2>1. a[0] = Good({})
    BY <1>1, <1>6
  <2> QED
    BY <1>1, <2>1 DEF LoopIs, Outcomes, Good
<1>8. ASSUME NEW n \in 0 .. N - 1, n \in S PROVE n + 1 \in S
  <2>1. n + 1 \in 1 .. N /\ (n + 1) - 1 = n /\ n + 1 # 0
    BY <1>1
  <2>2. a[n + 1] = IF a[n].err # "nil" THEN a[n]
                   ELSE PrefixedFamily(a[n].val, families[n + 1])
    BY <1>6, <2>1
  <2>3. LoopIs(families, n + 1, IF a[n].err # "nil" THEN a[n]
                                ELSE PrefixedFamily(a[n].val, families[n + 1]))
    BY <1>8, <2>1, LoopStep
  <2> QED
    BY <2>1, <2>2, <2>3
<1>9. 0 .. N \subseteq S
  <2> HIDE DEF S, N
  <2> QED
    BY <1>1, <1>7, <1>8, InductionUpTo
<1> QED
  BY <1>1, <1>2, <1>9

\* For every list of distinct families, New succeeds exactly when the kernel
\* listed them and the four known ones are those with the prefix; then the
\* connection is open and both services are there, else it is closed.
THEOREM NewClientReady ==
  ASSUME NEW listed \in BOOLEAN, NEW F, NEW families \in Seq(F),
         IsInjective(families)
  PROVE  Ready(listed, families)
<1> DEFINE done == Fold({}, families, PrefixedFamily)
           got  == {i \in DOMAIN families : families[i] \in OvsPrefix}
           K    == ToSet(families) \cap OvsPrefix
           r    == init({}, families)
           N    == Len(families)
<1>1. /\ done.err = "nil" <=> \A i \in 1 .. N : families[i] \notin OvsPrefix \ Known
      /\ done.err = "nil" => done.val = UNION {ServiceOf(families[i]) : i \in 1 .. N}
  BY FamilyLoop DEF LoopIs
<1>2. DOMAIN families = 1 .. N
  OBVIOUS
<1>3. done.err = "nil" <=> K \subseteq Known
  BY <1>1, <1>2 DEF ToSet
<1>4. /\ IsFiniteSet(Known) /\ Cardinality(Known) = 4
      /\ IsFiniteSet(OvsPrefix) /\ IsFiniteSet(K)
  <2> DEFINE A == {"ovs_datapath"}
             B == A \cup {"ovs_packet"}
             C == B \cup {"ovs_flow"}
             D == C \cup {"ovs_vport"}
  <2>1. IsFiniteSet(A) /\ Cardinality(A) = 1
    BY FS_Singleton
  <2>2. IsFiniteSet(B) /\ Cardinality(B) = 1 + 1
    BY <2>1, FS_AddElement
  <2>3. IsFiniteSet(C) /\ Cardinality(C) = 1 + 1 + 1
    <3>1. "ovs_flow" \notin B
      OBVIOUS
    <3> HIDE DEF B
    <3> QED
      BY <2>2, <3>1, FS_AddElement
  <2>4. IsFiniteSet(D) /\ Cardinality(D) = 1 + 1 + 1 + 1
    <3>1. "ovs_vport" \notin C
      OBVIOUS
    <3> HIDE DEF C
    <3> QED
      BY <2>3, <3>1, FS_AddElement
  <2>5. D = Known
    BY DEF Known
  <2>6. IsFiniteSet(OvsPrefix)
    BY <2>4, <2>5, FS_AddElement DEF OvsPrefix
  <2>7. IsFiniteSet(K)
    BY <2>6, FS_Subset
  <2> QED
    BY <2>4, <2>5, <2>6, <2>7
<1>5. Cardinality(got) = Cardinality(K)
  <2> DEFINE f == [i \in got |-> families[i]]
  <2>1. f \in Bijection(got, K)
    <3>1. f \in [got -> K]
      BY DEF ToSet
    <3>2. ASSUME NEW i \in got, NEW j \in got, f[i] = f[j] PROVE i = j
      BY <3>2 DEF IsInjective
    <3>3. \A k \in K : \E i \in got : f[i] = k
      BY DEF ToSet
    <3> HIDE DEF f, K, got
    <3> QED
      BY <3>1, <3>2, <3>3 DEF Bijection, Injection, Surjection, IsInjective
  <2>2. f \in Injection(got, K) /\ f \in Surjection(got, K)
    BY <2>1 DEF Bijection
  <2> HIDE DEF f, K, got
  <2> QED
    BY <1>4, <2>2, FS_Injection
<1> HIDE DEF done, got, K
<1>6. r = IF done.err # "nil" THEN done
          ELSE IF Cardinality(got) = 0 THEN Bad("not exist")
          ELSE IF Cardinality(got) # wantf THEN Bad("unexpected number")
          ELSE done
  BY DEF init, done, got
<1>7. r.err = "nil" <=> K = Known
  <2>1. CASE K = Known
    BY <1>3, <1>4, <1>5, <1>6, <2>1 DEF wantf
  <2>2. CASE ~(K \subseteq Known)
    BY <1>3, <1>6, <2>2
  <2>3. CASE K \subseteq Known /\ K # Known
    <3>1. Cardinality(K) # 4
      BY <1>4, <2>3, FS_Subset
    <3> QED
      <4>1. r \in {Bad("not exist"), Bad("unexpected number")}
        BY <1>3, <1>5, <1>6, <2>3, <3>1 DEF wantf
      <4> HIDE DEF r
      <4>2. r.err # "nil"
        <5>1. Bad("not exist").err # "nil" /\ Bad("unexpected number").err # "nil"
          BY DEF Bad
        <5> QED
          BY <4>1, <5>1
      <4> QED
        BY <2>3, <4>2
  <2> QED
    BY <2>1, <2>2, <2>3
<1>8. ASSUME K = Known PROVE r.val = {"datapath", "packet"}
  <2>1. r = done
    BY <1>3, <1>4, <1>5, <1>6, <1>8 DEF wantf
  <2>2. done.val = UNION {ServiceOf(families[i]) : i \in 1 .. N}
    BY <1>1, <1>3, <1>8
  <2>3. /\ \E i \in 1 .. N : families[i] = "ovs_datapath"
        /\ \E i \in 1 .. N : families[i] = "ovs_packet"
    BY <1>2, <1>8 DEF K, ToSet, Known
  <2>4. \A i \in 1 .. N : ServiceOf(families[i]) \subseteq {"datapath", "packet"}
    BY DEF ServiceOf
  <2>5. ServiceOf("ovs_datapath") = {"datapath"} /\ ServiceOf("ovs_packet") = {"packet"}
    BY DEF ServiceOf
  <2> HIDE DEF r, N
  <2>6. r.val \subseteq {"datapath", "packet"}
    BY <2>1, <2>2, <2>4
  <2>7. "datapath" \in r.val /\ "packet" \in r.val
    BY <2>1, <2>2, <2>3, <2>5
  <2> QED
    BY <2>6, <2>7
<1> HIDE DEF r
<1> DEFINE c == newClient(listed, families)
<1>9. c = [result |-> IF listed THEN r ELSE Bad("ListFamilies"),
           open |-> (IF listed THEN r ELSE Bad("ListFamilies")).err = "nil"]
  BY DEF newClient, r
<1>10. CASE listed
  <2>0. c = [result |-> r, open |-> r.err = "nil"]
    BY <1>9, <1>10
  <2>1. c.result = r /\ (c.open <=> r.err = "nil")
    <3> HIDE DEF c
    <3> DEFINE b == r.err = "nil"
    <3>1. c = [result |-> r, open |-> b] /\ b \in BOOLEAN
      BY <2>0
    <3> HIDE DEF b
    <3>2. c.result = r /\ c.open = b
      BY <3>1
    <3> QED
      BY <3>2 DEF b
  <2> HIDE DEF c
  <2> QED
    BY <1>7, <1>8, <1>10, <2>1 DEF Ready, c, K
<1>11. CASE ~listed
  <2>1. c.result.err # "nil" /\ ~c.open
    BY <1>9, <1>11 DEF Bad
  <2> QED
    BY <1>11, <2>1 DEF Ready
<1> QED
  BY <1>10, <1>11
----------------------------------------------------------------------------
(* List.                                                                   *)

Attributes(T, W)  == [type : T, size : Int, value : W]
Messages(I, T, W) ==
  [header : Int, ifindex : I, attrs : Seq(Attributes(T, W)), torn : BOOLEAN]
Datapaths(I, W) ==
  [index : I, name : W \cup {""}, features : W \cup {0}, stats : W \cup {0},
   megaflow : W \cup {0}]
DatapathErrors == {"size", "panic"}

Sized(a) == a.type \in DOMAIN KernelSize => a.size = KernelSize[a.type]

LEMMA SizedIs ==
  ASSUME NEW a
  PROVE  /\ DOMAIN KernelSize = {"features", "stats", "megaflow"}
         /\ a.type = "features" => (Sized(a) <=> a.size = 4)
         /\ a.type \in {"stats", "megaflow"} => (Sized(a) <=> a.size = 32)
         /\ a.type \notin {"features", "stats", "megaflow"} => Sized(a)
BY DEF Sized, KernelSize

LEMMA DatapathAttrIs ==
  ASSUME NEW I, NEW T, NEW W, NEW dp \in Datapaths(I, W), NEW a \in Attributes(T, W)
  PROVE  LET r == DatapathAttr(dp, a) IN
         /\ r \in Outcomes(Datapaths(I, W), DatapathErrors)
         /\ r.err = "nil" <=> Sized(a)
         /\ r.err = "panic" => OddFeatures(a)
         /\ r.err = "nil" =>
              /\ r.val.index = dp.index
              /\ \A type \in DOMAIN KernelSize :
                   r.val[type] = IF a.type = type THEN a.value ELSE dp[type]
<1> DEFINE r == DatapathAttr(dp, a)
           D == Datapaths(I, W)
           Claim == /\ r \in Outcomes(D, DatapathErrors)
                    /\ r.err = "nil" <=> Sized(a)
                    /\ r.err = "panic" => OddFeatures(a)
                    /\ r.err = "nil" =>
                         /\ r.val.index = dp.index
                         /\ \A type \in {"features", "stats", "megaflow"} :
                              r.val[type] = IF a.type = type THEN a.value ELSE dp[type]
<1>0. SUFFICES Claim
  BY SizedIs
<1>1. ASSUME NEW d \in D, r = Good(d), Sized(a), d.index = dp.index,
             \A type \in {"features", "stats", "megaflow"} :
               d[type] = IF a.type = type THEN a.value ELSE dp[type]
      PROVE  Claim
  <2>1. r \in Outcomes(D, DatapathErrors)
    BY <1>1 DEF Outcomes
  <2>2. r.err = "nil" /\ r.val = d
    BY <1>1 DEF Good
  <2> HIDE DEF r, D
  <2> QED
    BY <1>1, <2>1, <2>2
<1>2. ASSUME NEW e \in DatapathErrors, r = Bad(e), ~Sized(a), e = "panic" => OddFeatures(a)
      PROVE  Claim
  <2>1. r \in Outcomes(D, DatapathErrors)
    BY <1>2 DEF Outcomes
  <2>2. r.err # "nil" /\ r.err = e
    BY <1>2 DEF Bad, DatapathErrors
  <2> HIDE DEF r, D
  <2> QED
    BY <1>2, <2>1, <2>2
<1>3. CASE a.type = "name"
  <2> DEFINE d == [dp EXCEPT !.name = a.value]
  <2>1. r = Good(d)
    BY <1>3 DEF DatapathAttr
  <2>2. d \in D
    BY DEF Datapaths, Attributes
  <2>3. /\ d.index = dp.index /\ d.features = dp.features
        /\ d.stats = dp.stats /\ d.megaflow = dp.megaflow
    BY DEF Datapaths
  <2>4. Sized(a)
    BY <1>3, SizedIs
  <2> HIDE DEF d, r, D, Claim
  <2> QED
    BY <1>1, <1>3, <2>1, <2>2, <2>3, <2>4
<1>4. CASE a.type = "features"
  <2> DEFINE d == [dp EXCEPT !.features = a.value]
  <2>1. r = IF a.size = 4 THEN Good(d) ELSE Bad("panic")
    <3>1. r = With(dp, "features", Uint32(a))
      BY <1>4 DEF DatapathAttr
    <3> HIDE DEF r
    <3> QED
      BY <3>1 DEF With, Uint32, Good, Bad
  <2>2. d \in D
    BY DEF Datapaths, Attributes
  <2>3. /\ d.index = dp.index /\ d.features = a.value
        /\ d.stats = dp.stats /\ d.megaflow = dp.megaflow
    BY DEF Datapaths
  <2>4. Sized(a) <=> a.size = 4
    BY <1>4, SizedIs
  <2> HIDE DEF d, r, D, Claim
  <2>5. CASE a.size = 4
    BY <1>1, <1>4, <2>1, <2>2, <2>3, <2>4, <2>5
  <2>6. CASE a.size # 4
    BY <1>2, <1>4, <2>1, <2>4, <2>6 DEF DatapathErrors, OddFeatures
  <2> QED
    BY <2>5, <2>6
<1>5. CASE a.type = "stats"
  <2> DEFINE d == [dp EXCEPT !.stats = a.value]
  <2>1. r = IF a.size = 32 THEN Good(d) ELSE Bad("size")
    <3>1. r = With(dp, "stats", parseDPStats(a))
      BY <1>5 DEF DatapathAttr
    <3> HIDE DEF r
    <3> QED
      BY <3>1 DEF With, parseDPStats, sizeofDPStats, Good, Bad
  <2>2. d \in D
    BY DEF Datapaths, Attributes
  <2>3. /\ d.index = dp.index /\ d.features = dp.features
        /\ d.stats = a.value /\ d.megaflow = dp.megaflow
    BY DEF Datapaths
  <2>4. Sized(a) <=> a.size = 32
    BY <1>5, SizedIs
  <2> HIDE DEF d, r, D, Claim
  <2>5. CASE a.size = 32
    BY <1>1, <1>5, <2>1, <2>2, <2>3, <2>4, <2>5
  <2>6. CASE a.size # 32
    BY <1>2, <2>1, <2>4, <2>6 DEF DatapathErrors
  <2> QED
    BY <2>5, <2>6
<1>6. CASE a.type = "megaflow"
  <2> DEFINE d == [dp EXCEPT !.megaflow = a.value]
  <2>1. r = IF a.size = 32 THEN Good(d) ELSE Bad("size")
    <3>1. r = With(dp, "megaflow", parseDPMegaflowStats(a))
      BY <1>6 DEF DatapathAttr
    <3> HIDE DEF r
    <3> QED
      BY <3>1 DEF With, parseDPMegaflowStats, sizeofDPMegaflowStats, Good, Bad
  <2>2. d \in D
    BY DEF Datapaths, Attributes
  <2>3. /\ d.index = dp.index /\ d.features = dp.features
        /\ d.stats = dp.stats /\ d.megaflow = a.value
    BY DEF Datapaths
  <2>4. Sized(a) <=> a.size = 32
    BY <1>6, SizedIs
  <2> HIDE DEF d, r, D, Claim
  <2>5. CASE a.size = 32
    BY <1>1, <1>6, <2>1, <2>2, <2>3, <2>4, <2>5
  <2>6. CASE a.size # 32
    BY <1>2, <2>1, <2>4, <2>6 DEF DatapathErrors
  <2> QED
    BY <2>5, <2>6
<1>7. CASE a.type \notin {"name", "features", "stats", "megaflow"}
  <2>1. r = Good(dp)
    BY <1>7 DEF DatapathAttr
  <2>2. Sized(a)
    BY <1>7, SizedIs
  <2> HIDE DEF r, Claim
  <2> QED
    BY <1>1, <1>7, <2>1, <2>2
<1> QED
  <2> HIDE DEF Claim
  <2> QED
    BY <1>3, <1>4, <1>5, <1>6, <1>7
\* What a field of a type holds after n attributes: the value of the last of
\* the type, if there is one.
Decided(attrs, n, type, v) ==
  \/ v = 0 /\ \A i \in 1 .. n : attrs[i].type # type
  \/ \E i \in 1 .. n : /\ attrs[i].type = type /\ v = attrs[i].value
                       /\ \A j \in i + 1 .. n : attrs[j].type # type

LEMMA DecidedStep ==
  ASSUME NEW attrs, NEW n \in Nat \ {0}, NEW type, NEW v,
         Decided(attrs, n - 1, type, v)
  PROVE  Decided(attrs, n, type,
                 IF attrs[n].type = type THEN attrs[n].value ELSE v)
<1>1. 1 .. n = (1 .. n - 1) \cup {n} /\ n \in 1 .. n
  OBVIOUS
<1>2. CASE attrs[n].type = type
  <2>1. \A j \in n + 1 .. n : attrs[j].type # type
    OBVIOUS
  <2> QED
    BY <1>1, <1>2, <2>1 DEF Decided
<1>3. CASE attrs[n].type # type
  <2>1. CASE v = 0 /\ \A i \in 1 .. n - 1 : attrs[i].type # type
    BY <1>1, <1>3, <2>1 DEF Decided
  <2>2. ASSUME NEW i \in 1 .. n - 1, attrs[i].type = type, v = attrs[i].value,
               \A j \in i + 1 .. n - 1 : attrs[j].type # type
        PROVE  Decided(attrs, n, type, v)
    <3>1. \A j \in i + 1 .. n : j = n \/ j \in i + 1 .. n - 1
      OBVIOUS
    <3> QED
      BY <1>1, <1>3, <2>2, <3>1 DEF Decided
  <2> QED
    BY <1>3, <2>1, <2>2 DEF Decided
<1> QED
  BY <1>2, <1>3

LEMMA DecidedLast ==
  ASSUME NEW A, NEW attrs \in Seq(A), NEW type, NEW v,
         Decided(attrs, Len(attrs), type, v)
  PROVE  v = LastValue(attrs, type)
<1> DEFINE n == Len(attrs)
           T == {i \in DOMAIN attrs : attrs[i].type = type}
<1>1. n \in Nat /\ DOMAIN attrs = 1 .. n
  OBVIOUS
<1> HIDE DEF n
<1>2. LastValue(attrs, type) = IF T = {} THEN 0 ELSE attrs[Max(T)].value
  BY DEF LastValue
<1>3. CASE v = 0 /\ \A i \in 1 .. n : attrs[i].type # type
  BY <1>1, <1>2, <1>3
<1>4. ASSUME NEW i \in 1 .. n, attrs[i].type = type, v = attrs[i].value,
             \A j \in i + 1 .. n : attrs[j].type # type
      PROVE  v = LastValue(attrs, type)
  <2>1. i \in T /\ \A y \in T : i >= y
    <3>1. ASSUME NEW y \in T PROVE i >= y
      <4>1. y \in 1 .. n /\ y \notin i + 1 .. n
        BY <1>1, <1>4
      <4> QED
        BY <1>1, <4>1
    <3> QED
      BY <1>1, <1>4, <3>1
  <2>2. Max(T) \in T /\ \A y \in T : Max(T) >= y
    <3> HIDE DEF T
    <3> QED
      BY <2>1 DEF Max
  <2>3. Max(T) = i
    <3>1. Max(T) >= i /\ i >= Max(T) /\ Max(T) \in Nat /\ i \in Nat
      BY <1>1, <2>1, <2>2
    <3> QED
      BY <3>1
  <2> QED
    BY <1>2, <1>4, <2>1, <2>3
<1> QED
  BY <1>3, <1>4 DEF Decided, n

DatapathIs(I, W, attrs, index, n, r) ==
  /\ r \in Outcomes(Datapaths(I, W), DatapathErrors)
  /\ r.err = "nil" <=> \A i \in 1 .. n : Sized(attrs[i])
  /\ r.err = "panic" => \E i \in 1 .. n : OddFeatures(attrs[i])
  /\ r.err = "nil" =>
       /\ r.val.index = index
       /\ \A type \in DOMAIN KernelSize : Decided(attrs, n, type, r.val[type])

LEMMA DatapathStep ==
  ASSUME NEW I, NEW T, NEW W, NEW attrs \in Seq(Attributes(T, W)), NEW index,
         NEW n \in 1 .. Len(attrs), NEW r,
         DatapathIs(I, W, attrs, index, n - 1, r)
  PROVE  DatapathIs(I, W, attrs, index, n,
                    IF r.err # "nil" THEN r ELSE DatapathAttr(r.val, attrs[n]))
<1> DEFINE a == attrs[n]
           s == DatapathAttr(r.val, a)
           D == Datapaths(I, W)
<1>1. a \in Attributes(T, W) /\ n \in Nat \ {0} /\ 1 .. n = (1 .. n - 1) \cup {n}
  OBVIOUS
<1>2. r \in Outcomes(D, DatapathErrors) /\ "nil" \notin DatapathErrors
  BY DEF DatapathIs, DatapathErrors
<1>3. CASE r.err # "nil"
  BY <1>1, <1>3 DEF DatapathIs
<1>4. CASE r.err = "nil"
  <2>1. r.val \in D
    BY <1>2, <1>4, OutcomesAre
  <2>2. /\ s \in Outcomes(D, DatapathErrors)
        /\ s.err = "nil" <=> Sized(a)
        /\ s.err = "panic" => OddFeatures(a)
        /\ s.err = "nil" =>
             /\ s.val.index = r.val.index
             /\ \A type \in DOMAIN KernelSize :
                  s.val[type] = IF a.type = type THEN a.value ELSE r.val[type]
    BY <1>1, <2>1, DatapathAttrIs
  <2> HIDE DEF s
  <2>3. s.err = "nil" <=> \A i \in 1 .. n : Sized(attrs[i])
    BY <1>1, <1>4, <2>2 DEF DatapathIs
  <2>4. ASSUME s.err = "nil", NEW type \in DOMAIN KernelSize
        PROVE  Decided(attrs, n, type, s.val[type])
    <3>1. Decided(attrs, n - 1, type, r.val[type])
      BY <1>4 DEF DatapathIs
    <3>2. s.val[type] = IF attrs[n].type = type THEN attrs[n].value ELSE r.val[type]
      BY <2>2, <2>4
    <3>3. Decided(attrs, n, type,
                  IF attrs[n].type = type THEN attrs[n].value ELSE r.val[type])
      BY <1>1, <3>1, DecidedStep
    <3> QED
      BY <3>2, <3>3
  <2>5. DatapathIs(I, W, attrs, index, n, s)
    BY <1>1, <1>4, <2>2, <2>3, <2>4 DEF DatapathIs
  <2> QED
    BY <1>4, <2>5 DEF s
<1> QED
  BY <1>3, <1>4

LEMMA DatapathLoop ==
  ASSUME NEW I, NEW T, NEW W, NEW attrs \in Seq(Attributes(T, W)), NEW index \in I
  PROVE  DatapathIs(I, W, attrs, index, Len(attrs),
           Fold([index |-> index, name |-> "", features |-> 0, stats |-> 0,
                 megaflow |-> 0], attrs, DatapathAttr))
<1> DEFINE N == Len(attrs)
           E == DatapathErrors
           D == Datapaths(I, W)
           zero == [index |-> index, name |-> "", features |-> 0, stats |-> 0,
                    megaflow |-> 0]
           R == Outcomes(D, E)
           G == [n \in 1 .. N |-> [d \in D |-> DatapathAttr(d, attrs[n])]]
           Is(f) == f = [n \in 0 .. N |->
                           IF n = 0 THEN Good(zero)
                           ELSE IF f[n - 1].err # "nil" THEN f[n - 1]
                           ELSE DatapathAttr(f[n - 1].val, attrs[n])]
           a == CHOOSE f : Is(f)
<1>1. N \in Nat /\ zero \in D /\ "nil" \notin E
  BY DEF Datapaths, DatapathErrors
<1>2. Fold(zero, attrs, DatapathAttr) = a[N]
  <2> HIDE DEF zero
  <2> QED
    BY DEF Fold
<1>3. G \in [1 .. N -> [D -> R]]
  <2>1. ASSUME NEW n \in 1 .. N, NEW d \in D PROVE DatapathAttr(d, attrs[n]) \in R
    <3>1. attrs[n] \in Attributes(T, W)
      OBVIOUS
    <3> QED
      BY <3>1, DatapathAttrIs
  <2> HIDE DEF R, N, D
  <2> QED
    BY <2>1
<1>11. /\ zero.index = index
       /\ \A type \in DOMAIN KernelSize : zero[type] = 0
  <2>1. DOMAIN KernelSize = {"features", "stats", "megaflow"}
    BY SizedIs
  <2>2. /\ zero.index = index /\ zero["features"] = 0 /\ zero["stats"] = 0
        /\ zero["megaflow"] = 0
    OBVIOUS
  <2> HIDE DEF zero
  <2> QED
    BY <2>1, <2>2
<1> HIDE DEF zero
<1>4. PICK f \in [0 .. N -> R] : LoopOf(f, N, zero, G)
  <2> HIDE DEF G, E, N, D
  <2> QED
    BY <1>1, <1>3, LoopExists
<1>5. Is(f)
  <2>1. ASSUME NEW n \in 0 .. N
        PROVE  f[n] = IF n = 0 THEN Good(zero)
                      ELSE IF f[n - 1].err # "nil" THEN f[n - 1]
                      ELSE DatapathAttr(f[n - 1].val, attrs[n])
    <3>0. f[n] = IF n = 0 THEN Good(zero)
                 ELSE IF f[n - 1].err # "nil" THEN f[n - 1]
                 ELSE G[n][f[n - 1].val]
      <4> HIDE DEF G
      <4> QED
        BY <1>4 DEF LoopOf
    <3>1. CASE n # 0 /\ f[n - 1].err = "nil"
      <4>1. n \in 1 .. N /\ n - 1 \in 0 .. N
        BY <1>1, <3>1
      <4>2. f[n - 1].val \in D
        <5>1. f[n - 1] \in R
          BY <4>1
        <5> HIDE DEF D, E
        <5> QED
          BY <1>1, <3>1, <5>1, OutcomesAre
      <4>3. G[n][f[n - 1].val] = DatapathAttr(f[n - 1].val, attrs[n])
        <5> HIDE DEF D, N
        <5> QED
          BY <4>1, <4>2
      <4> HIDE DEF G
      <4> QED
        BY <3>0, <3>1, <4>3
    <3> HIDE DEF G
    <3> QED
      BY <3>0, <3>1
  <2> HIDE DEF N, R
  <2> QED
    BY <1>4, <2>1
<1>6. Is(a)
  <2> HIDE DEF Is
  <2> QED
    BY <1>5
<1> HIDE DEF a
<1> DEFINE S == {n \in 0 .. N : DatapathIs(I, W, attrs, index, n, a[n])}
<1>7. 0 \in S
  <2>1. a[0] = Good(zero)
    BY <1>1, <1>6
  <2>2. a[0] \in R
    <3> HIDE DEF D
    <3> QED
      BY <1>1, <2>1 DEF Outcomes
  <2>3. a[0].err = "nil" /\ a[0].val = zero
    BY <2>1 DEF Good
  <2>4. \A type \in DOMAIN KernelSize : Decided(attrs, 0, type, zero[type])
    BY <1>11 DEF Decided
  <2> QED
    BY <1>1, <1>11, <2>2, <2>3, <2>4 DEF DatapathIs
<1>8. ASSUME NEW n \in 0 .. N - 1, n \in S PROVE n + 1 \in S
  <2>1. n + 1 \in 1 .. N /\ (n + 1) - 1 = n /\ n + 1 # 0
    BY <1>1
  <2>2. a[n + 1] = IF a[n].err # "nil" THEN a[n]
                   ELSE DatapathAttr(a[n].val, attrs[n + 1])
    BY <1>6, <2>1
  <2>3. DatapathIs(I, W, attrs, index, n + 1,
                   IF a[n].err # "nil" THEN a[n]
                   ELSE DatapathAttr(a[n].val, attrs[n + 1]))
    BY <1>8, <2>1, DatapathStep
  <2> QED
    BY <2>1, <2>2, <2>3
<1>9. 0 .. N \subseteq S
  <2> HIDE DEF S, N
  <2> QED
    BY <1>1, <1>7, <1>8, InductionUpTo
<1>10. DatapathIs(I, W, attrs, index, N, Fold(zero, attrs, DatapathAttr))
  BY <1>1, <1>2, <1>9
<1> QED
  BY <1>10 DEF zero
----------------------------------------------------------------------------
(* PktList.                                                                *)

Packets(I, W) == [index : I, packet : W \cup {""}]

LEMMA PacketAttrIs ==
  ASSUME NEW I, NEW T, NEW W, NEW pkt \in Packets(I, W), NEW a \in Attributes(T, W)
  PROVE  \E p \in Packets(I, W) :
           PacketAttr(pkt, a) = Good(p) /\ p.index = pkt.index
<1>1. CASE a.type = "name"
  <2> DEFINE p == [pkt EXCEPT !.packet = a.value]
  <2>1. p \in Packets(I, W) /\ p.index = pkt.index
    BY DEF Packets, Attributes
  <2>2. PacketAttr(pkt, a) = Good(p)
    BY <1>1 DEF PacketAttr
  <2> QED
    BY <2>1, <2>2
<1>2. CASE a.type # "name"
  BY <1>2 DEF PacketAttr
<1> QED
  BY <1>1, <1>2

PacketIs(I, W, index, r) ==
  \E p \in Packets(I, W) : r = Good(p) /\ p.index = index

LEMMA PacketLoop ==
  ASSUME NEW I, NEW T, NEW W, NEW attrs \in Seq(Attributes(T, W)), NEW index \in I
  PROVE  PacketIs(I, W, index,
           Fold([index |-> index, packet |-> ""], attrs, PacketAttr))
<1> DEFINE N == Len(attrs)
           D == Packets(I, W)
           zero == [index |-> index, packet |-> ""]
           R == Outcomes(D, {})
           G == [n \in 1 .. N |-> [d \in D |-> PacketAttr(d, attrs[n])]]
           Is(f) == f = [n \in 0 .. N |->
                           IF n = 0 THEN Good(zero)
                           ELSE IF f[n - 1].err # "nil" THEN f[n - 1]
                           ELSE PacketAttr(f[n - 1].val, attrs[n])]
           a == CHOOSE f : Is(f)
<1>1. N \in Nat /\ zero \in D /\ zero.index = index
  BY DEF Packets
<1>2. Fold(zero, attrs, PacketAttr) = a[N]
  <2> HIDE DEF zero
  <2> QED
    BY DEF Fold
<1>3. G \in [1 .. N -> [D -> R]]
  <2>1. ASSUME NEW n \in 1 .. N, NEW d \in D PROVE PacketAttr(d, attrs[n]) \in R
    <3>1. attrs[n] \in Attributes(T, W)
      OBVIOUS
    <3>2. \E p \in D : PacketAttr(d, attrs[n]) = Good(p)
      BY <3>1, PacketAttrIs
    <3> QED
      BY <3>2 DEF Outcomes
  <2> HIDE DEF R, N, D
  <2> QED
    BY <2>1
<1> HIDE DEF zero
<1>4. PICK f \in [0 .. N -> R] : LoopOf(f, N, zero, G)
  <2>1. "nil" \notin {}
    OBVIOUS
  <2> HIDE DEF G, N, D
  <2> QED
    BY <1>1, <1>3, <2>1, LoopExists
<1>5. Is(f)
  <2>1. ASSUME NEW n \in 0 .. N
        PROVE  f[n] = IF n = 0 THEN Good(zero)
                      ELSE IF f[n - 1].err # "nil" THEN f[n - 1]
                      ELSE PacketAttr(f[n - 1].val, attrs[n])
    <3>0. f[n] = IF n = 0 THEN Good(zero)
                 ELSE IF f[n - 1].err # "nil" THEN f[n - 1]
                 ELSE G[n][f[n - 1].val]
      <4> HIDE DEF G
      <4> QED
        BY <1>4 DEF LoopOf
    <3>1. CASE n # 0 /\ f[n - 1].err = "nil"
      <4>1. n \in 1 .. N /\ n - 1 \in 0 .. N
        BY <1>1, <3>1
      <4>2. f[n - 1].val \in D
        <5>1. f[n - 1] \in R /\ "nil" \notin {}
          BY <4>1
        <5> HIDE DEF D
        <5> QED
          BY <3>1, <5>1, OutcomesAre
      <4>3. G[n][f[n - 1].val] = PacketAttr(f[n - 1].val, attrs[n])
        <5> HIDE DEF D, N
        <5> QED
          BY <4>1, <4>2
      <4> HIDE DEF G
      <4> QED
        BY <3>0, <3>1, <4>3
    <3> HIDE DEF G
    <3> QED
      BY <3>0, <3>1
  <2> HIDE DEF N, R
  <2> QED
    BY <1>4, <2>1
<1>6. Is(a)
  <2> HIDE DEF Is
  <2> QED
    BY <1>5
<1> HIDE DEF a
<1> DEFINE S == {n \in 0 .. N : PacketIs(I, W, index, a[n])}
<1>7. 0 \in S
  <2>1. a[0] = Good(zero)
    BY <1>1, <1>6
  <2> QED
    BY <1>1, <2>1 DEF PacketIs
<1>8. ASSUME NEW n \in 0 .. N - 1, n \in S PROVE n + 1 \in S
  <2>1. n + 1 \in 1 .. N /\ (n + 1) - 1 = n /\ n + 1 # 0
    BY <1>1
  <2>2. a[n + 1] = IF a[n].err # "nil" THEN a[n]
                   ELSE PacketAttr(a[n].val, attrs[n + 1])
    BY <1>6, <2>1
  <2>3. PICK p \in D : a[n] = Good(p) /\ p.index = index
    BY <1>8 DEF PacketIs
  <2>4. a[n + 1] = PacketAttr(p, attrs[n + 1])
    BY <2>2, <2>3 DEF Good
  <2>5. attrs[n + 1] \in Attributes(T, W)
    BY <2>1
  <2>6. \E q \in D : PacketAttr(p, attrs[n + 1]) = Good(q) /\ q.index = p.index
    BY <2>5, PacketAttrIs
  <2> QED
    BY <2>1, <2>3, <2>4, <2>6 DEF PacketIs
<1>9. 0 .. N \subseteq S
  <2> HIDE DEF S, N
  <2> QED
    BY <1>1, <1>7, <1>8, InductionUpTo
<1>10. PacketIs(I, W, index, Fold(zero, attrs, PacketAttr))
  BY <1>1, <1>2, <1>9
<1> QED
  BY <1>10 DEF zero

----------------------------------------------------------------------------
(* A reply of many messages.                                               *)

LEMMA AllIs ==
  ASSUME NEW N \in Nat, NEW results, DOMAIN results = 1 .. N
  PROVE  /\ All(results).err = "nil" <=> \A i \in 1 .. N : results[i].err = "nil"
         /\ (\A i \in 1 .. N : results[i].err = "nil") =>
              All(results) = Good([i \in 1 .. N |-> results[i].val])
         /\ All(results).err # "nil" => \E i \in 1 .. N : All(results).err = results[i].err
<1> DEFINE bad == {i \in DOMAIN results : results[i].err # "nil"}
<1>1. All(results) = IF bad = {} THEN Good([i \in DOMAIN results |-> results[i].val])
                     ELSE results[Min(bad)]
  BY DEF All
<1>2. CASE bad = {}
  <2>1. \A i \in 1 .. N : results[i].err = "nil"
    BY <1>2
  <2>2. All(results) = Good([i \in 1 .. N |-> results[i].val])
    BY <1>1, <1>2
  <2>3. All(results).err = "nil"
    BY <2>2 DEF Good
  <2> QED
    BY <2>1, <2>2, <2>3
<1>3. CASE bad # {}
  <2>1. bad \in SUBSET Nat
    OBVIOUS
  <2>2. \E x \in bad : \A y \in bad : x <= y
    <3> HIDE DEF bad
    <3> QED
      BY <1>3, <2>1, LeastNumber
  <2>3. Min(bad) \in bad
    <3> HIDE DEF bad
    <3> QED
      BY <2>2 DEF Min
  <2>4. /\ All(results).err # "nil"
        /\ \E i \in 1 .. N : All(results).err = results[i].err
    BY <1>1, <1>3, <2>3
  <2> QED
    BY <1>3, <2>4
<1> QED
  BY <1>2, <1>3

DatapathOf(m) ==
  LET h     == parseHeader(m)
      attrs == UnmarshalAttributes(m)
  IN  IF h.err # "nil" THEN h
      ELSE IF attrs.err # "nil" THEN attrs
      ELSE Fold([index |-> h.val, name |-> "", features |-> 0,
                 stats |-> 0, megaflow |-> 0], attrs.val, DatapathAttr)

PacketOf(m) ==
  LET h     == parseHeader(m)
      attrs == UnmarshalAttributes(m)
  IN  IF h.err # "nil" THEN h
      ELSE IF attrs.err # "nil" THEN attrs
      ELSE Fold([index |-> h.val, packet |-> ""], attrs.val, PacketAttr)

LEMMA MessageDecoded ==
  ASSUME NEW I, NEW T, NEW W, NEW m \in Messages(I, T, W)
  PROVE  LET d == DatapathOf(m)  p == PacketOf(m) IN
         /\ d.err = "nil" <=> WellFormed(m)
         /\ p.err = "nil" <=> Readable(m)
         /\ d.err = "panic" =>
              Readable(m) /\ \E i \in DOMAIN m.attrs : OddFeatures(m.attrs[i])
         /\ p.err # "panic"
         /\ d.err = "nil" =>
              /\ d.val.index = m.ifindex /\ p.val.index = m.ifindex
              /\ \A type \in DOMAIN KernelSize :
                   d.val[type] = LastValue(m.attrs, type)
<1> DEFINE d == DatapathOf(m)
           p == PacketOf(m)
<1>1. /\ m.header \in Int /\ m.ifindex \in I /\ m.attrs \in Seq(Attributes(T, W))
      /\ m.torn \in BOOLEAN
  BY DEF Messages
<1>2. WellFormed(m) <=> Readable(m) /\ \A i \in 1 .. Len(m.attrs) : Sized(m.attrs[i])
  BY <1>1 DEF WellFormed, Sized
<1>3. CASE ~Readable(m)
  <2>1. PICK e \in {"header", "attributes"} : d = Bad(e) /\ p = Bad(e)
    <3>1. CASE m.header < 4
      <4>1. parseHeader(m) = Bad("header") /\ Bad("header").err # "nil"
        BY <3>1 DEF parseHeader, sizeofHeader, Bad
      <4> QED
        BY <4>1 DEF DatapathOf, PacketOf
    <3>2. CASE m.header >= 4 /\ m.torn
      <4>1. parseHeader(m).err = "nil"
        BY <1>1, <3>2 DEF parseHeader, sizeofHeader, Good
      <4>2. UnmarshalAttributes(m) = Bad("attributes") /\ Bad("attributes").err # "nil"
        BY <3>2 DEF UnmarshalAttributes, Bad
      <4> QED
        BY <4>1, <4>2 DEF DatapathOf, PacketOf
    <3> QED
      BY <1>1, <1>3, <3>1, <3>2 DEF Readable
  <2> HIDE DEF d, p
  <2>2. d.err \notin {"nil", "panic"} /\ p.err \notin {"nil", "panic"}
    BY <2>1 DEF Bad
  <2> QED
    BY <1>2, <1>3, <2>2 DEF d, p
<1>4. CASE Readable(m)
  <2>1. parseHeader(m) = Good(m.ifindex) /\ UnmarshalAttributes(m) = Good(m.attrs)
    BY <1>1, <1>4 DEF parseHeader, sizeofHeader, UnmarshalAttributes, Readable
  <2>2. /\ Good(m.ifindex).err = "nil" /\ Good(m.ifindex).val = m.ifindex
        /\ Good(m.attrs).err = "nil" /\ Good(m.attrs).val = m.attrs
    BY DEF Good
  <2>3. DatapathIs(I, W, m.attrs, m.ifindex, Len(m.attrs), d)
    <3>1. d = Fold([index |-> m.ifindex, name |-> "", features |-> 0,
                    stats |-> 0, megaflow |-> 0], m.attrs, DatapathAttr)
      BY <2>1, <2>2 DEF DatapathOf
    <3> HIDE DEF d
    <3> QED
      BY <1>1, <3>1, DatapathLoop
  <2>4. PacketIs(I, W, m.ifindex, p)
    <3>1. p = Fold([index |-> m.ifindex, packet |-> ""], m.attrs, PacketAttr)
      BY <2>1, <2>2 DEF PacketOf
    <3> HIDE DEF p
    <3> QED
      BY <1>1, <3>1, PacketLoop
  <2> HIDE DEF d, p
  <2>5. p.err = "nil" /\ p.val.index = m.ifindex
    BY <2>4 DEF PacketIs, Good
  <2>6. d.err = "nil" <=> WellFormed(m)
    BY <1>2, <1>4, <2>3 DEF DatapathIs
  <2>7. ASSUME d.err = "nil", NEW type \in DOMAIN KernelSize
        PROVE  d.val[type] = LastValue(m.attrs, type)
    <3>1. Decided(m.attrs, Len(m.attrs), type, d.val[type])
      BY <2>3, <2>7 DEF DatapathIs
    <3> QED
      BY <1>1, <3>1, DecidedLast
  <2>8. d.err = "nil" => d.val.index = m.ifindex
    BY <2>3 DEF DatapathIs
  <2>9. d.err = "panic" => \E i \in DOMAIN m.attrs : OddFeatures(m.attrs[i])
    <3>1. DOMAIN m.attrs = 1 .. Len(m.attrs)
      BY <1>1
    <3> QED
      BY <2>3, <3>1 DEF DatapathIs
  <2> QED
    BY <1>4, <2>5, <2>6, <2>7, <2>8, <2>9 DEF d, p
<1> QED
  BY <1>3, <1>4

\* For every reply of any number of messages with any attributes, List gives
\* every datapath whole or an error, and ends the process only at an attribute
\* of features that is not of four bytes.
THEOREM ReplyDecodedWhole ==
  ASSUME NEW I, NEW T, NEW W, NEW msgs \in Seq(Messages(I, T, W))
  PROVE  DecodesWhole(msgs)
<1> DEFINE N == Len(msgs)
           ds == [i \in DOMAIN msgs |-> DatapathOf(msgs[i])]
           ps == [i \in DOMAIN msgs |-> PacketOf(msgs[i])]
           r == parseDatapaths(msgs)
           p == parsePackets(msgs)
<1>1. N \in Nat /\ DOMAIN msgs = 1 .. N /\ \A i \in 1 .. N : msgs[i] \in Messages(I, T, W)
  OBVIOUS
<1> HIDE DEF N
<1>2. r = All(ds)
  BY DEF parseDatapaths, DatapathOf
<1>3. p = All(ps)
  BY DEF parsePackets, PacketOf
<1>4. /\ DOMAIN ds = 1 .. N /\ DOMAIN ps = 1 .. N
      /\ \A i \in 1 .. N : ds[i] = DatapathOf(msgs[i]) /\ ps[i] = PacketOf(msgs[i])
  BY <1>1
<1> HIDE DEF ds, ps, r, p
<1>5. ASSUME NEW i \in 1 .. N
      PROVE  /\ ds[i].err = "nil" <=> WellFormed(msgs[i])
             /\ ps[i].err = "nil" <=> Readable(msgs[i])
             /\ ds[i].err = "panic" =>
                  \E k \in DOMAIN msgs[i].attrs :
                    Readable(msgs[i]) /\ OddFeatures(msgs[i].attrs[k])
             /\ ps[i].err # "panic"
             /\ ds[i].err = "nil" =>
                  /\ ds[i].val.index = msgs[i].ifindex
                  /\ ps[i].val.index = msgs[i].ifindex
                  /\ \A type \in DOMAIN KernelSize :
                       ds[i].val[type] = LastValue(msgs[i].attrs, type)
  BY <1>1, <1>4, MessageDecoded
<1>6. /\ r.err = "nil" <=> \A i \in 1 .. N : WellFormed(msgs[i])
      /\ p.err = "nil" <=> \A i \in 1 .. N : Readable(msgs[i])
  BY <1>1, <1>2, <1>3, <1>4, <1>5, AllIs
<1>8. /\ r.err = "panic" => \E i \in 1 .. N : \E k \in DOMAIN msgs[i].attrs :
           Readable(msgs[i]) /\ OddFeatures(msgs[i].attrs[k])
      /\ p.err # "panic"
  <2>1. /\ r.err # "nil" => \E i \in 1 .. N : r.err = ds[i].err
        /\ p.err # "nil" => \E i \in 1 .. N : p.err = ps[i].err
    BY <1>1, <1>2, <1>3, <1>4, AllIs
  <2> QED
    BY <1>5, <2>1
<1>7. ASSUME r.err = "nil"
      PROVE  /\ Len(r.val) = N /\ Len(p.val) = N
             /\ \A i \in 1 .. N : r.val[i] = ds[i].val /\ p.val[i] = ps[i].val
             /\ \A i \in 1 .. N : ds[i].err = "nil"
  <2>1. \A i \in 1 .. N : ds[i].err = "nil"
    BY <1>1, <1>2, <1>4, <1>7, AllIs
  <2>2. \A i \in 1 .. N : ps[i].err = "nil"
    BY <1>5, <2>1 DEF WellFormed
  <2>3. r = Good([i \in 1 .. N |-> ds[i].val])
    BY <1>1, <1>2, <1>4, <2>1, AllIs
  <2>4. p = Good([i \in 1 .. N |-> ps[i].val])
    BY <1>1, <1>3, <1>4, <2>2, AllIs
  <2>5. r.val = [i \in 1 .. N |-> ds[i].val]
    BY <2>3 DEF Good
  <2>6. p.val = [i \in 1 .. N |-> ps[i].val] /\ p.err = "nil"
    BY <2>4 DEF Good
  <2>7. Len(r.val) = N /\ Len(p.val) = N
    BY <1>1, <2>5, <2>6
  <2> QED
    BY <2>1, <2>5, <2>6, <2>7
<1> QED
  BY <1>1, <1>5, <1>6, <1>7, <1>8 DEF DecodesWhole, r, p, N

----------------------------------------------------------------------------
(* Go source: GoString and what the compiler makes of it.                  *)

\* Literals denote what they were made from.
LEMMA Literals ==
  ASSUME NEW v
  PROVE  /\ Literal(dec(v)) = v /\ Literal(hex(v)) = v
         /\ Literal(quoted(v)) = v /\ Literal(hwAddrGoString(v)) = v
         /\ Literal(ipv4GoString(Ok(v))) = v
BY DEF Literal, IsDec, IsHex, dec, hex, quoted, hwAddrGoString, ipv4GoString, Ok

\* An expression has its name and its arguments.
LEMMA CallOfOne ==
  ASSUME NEW fn, NEW a
  PROVE  Expr(fn, <<a>>).fn = fn /\ Expr(fn, <<a>>).args[1] = a
BY DEF Expr

LEMMA CallOfTwo ==
  ASSUME NEW fn, NEW a, NEW b
  PROVE  /\ Expr(fn, <<a, b>>).fn = fn
         /\ Expr(fn, <<a, b>>).args[1] = a /\ Expr(fn, <<a, b>>).args[2] = b
BY DEF Expr

\* A match as its constructor returns it: from any string or address, from
\* any number, and from a number and a mask, which is an unsigned integer.
IsMatch(m) ==
  \/ \E v : \/ m = DataLinkSource(v)
            \/ m = DataLinkDestination(v)
            \/ m = NetworkSource(v)
            \/ m = NetworkDestination(v)
            \/ m = IPv6Source(v)
            \/ m = IPv6Destination(v)
            \/ m = NeighborDiscoveryTarget(v)
            \/ m = NeighborDiscoverySourceLinkLayer(v)
            \/ m = NeighborDiscoveryTargetLinkLayer(v)
            \/ m = ARPSourceHardwareAddress(v)
            \/ m = ARPTargetHardwareAddress(v)
            \/ m = ARPSourceProtocolAddress(v)
            \/ m = ARPTargetProtocolAddress(v)
            \/ m = ConnectionTrackingState(v)
            \/ m = TCPFlags(v)
  \/ \E n \in Int : \/ m = DataLinkType(n)
                   \/ m = DataLinkVLAN(n)
                   \/ m = ConjunctionID(n)
                   \/ m = NetworkProtocol(n)
                   \/ m = ICMPType(n)
                   \/ m = ConnectionTrackingZone(n)
                   \/ m = TransportSourcePort(n)
                   \/ m = TransportDestinationPort(n)
                   \/ m = TunnelID(n)
  \/ \E n \in Int, k \in Nat : \/ m = TransportSourceMaskedPort(n, k)
                               \/ m = TransportDestinationMaskedPort(n, k)
                               \/ m = VLANTCI(n, k)
                               \/ m = ConnectionTrackingMark(n, k)
                               \/ m = TunnelIDWithMask(n, k)

\* GoString of every match names the constructor, and gives it the arguments,
\* that make the match again.
THEOREM MatchSourceDenotes == ASSUME NEW m, IsMatch(m) PROVE MatchDenoted(m)
<1>1. ASSUME NEW v
      PROVE  /\ MatchDenoted(DataLinkSource(v))
             /\ MatchDenoted(DataLinkDestination(v))
             /\ MatchDenoted(NetworkSource(v))
             /\ MatchDenoted(NetworkDestination(v))
             /\ MatchDenoted(IPv6Source(v))
             /\ MatchDenoted(IPv6Destination(v))
             /\ MatchDenoted(NeighborDiscoveryTarget(v))
             /\ MatchDenoted(NeighborDiscoverySourceLinkLayer(v))
             /\ MatchDenoted(NeighborDiscoveryTargetLinkLayer(v))
             /\ MatchDenoted(ARPSourceHardwareAddress(v))
             /\ MatchDenoted(ARPTargetHardwareAddress(v))
             /\ MatchDenoted(ARPSourceProtocolAddress(v))
             /\ MatchDenoted(ARPTargetProtocolAddress(v))
             /\ MatchDenoted(ConnectionTrackingState(v))
             /\ MatchDenoted(TCPFlags(v))
  <2>1. MatchDenoted(DataLinkSource(v))
    <3>1. MatchGoString(DataLinkSource(v)) = Expr("DataLinkSource", <<quoted(v)>>)
      BY DEF MatchGoString, DataLinkSource, dataLinkMatch, dataLinkMatch_GoString
    <3>2. MatchOf(Expr("DataLinkSource", <<quoted(v)>>)) = DataLinkSource(v)
      BY CallOfOne, Literals DEF MatchOf
    <3> QED
      BY <3>1, <3>2 DEF MatchDenoted
  <2>2. MatchDenoted(DataLinkDestination(v))
    <3>1. MatchGoString(DataLinkDestination(v)) = Expr("DataLinkDestination", <<quoted(v)>>)
      BY DEF MatchGoString, DataLinkDestination, dataLinkMatch,
         dataLinkMatch_GoString
    <3>2. MatchOf(Expr("DataLinkDestination", <<quoted(v)>>)) = DataLinkDestination(v)
      BY CallOfOne, Literals DEF MatchOf
    <3> QED
      BY <3>1, <3>2 DEF MatchDenoted
  <2>3. MatchDenoted(NetworkSource(v))
    <3>1. MatchGoString(NetworkSource(v)) = Expr("NetworkSource", <<quoted(v)>>)
      BY DEF MatchGoString, NetworkSource, networkMatch, networkMatch_GoString
    <3>2. MatchOf(Expr("NetworkSource", <<quoted(v)>>)) = NetworkSource(v)
      BY CallOfOne, Literals DEF MatchOf
    <3> QED
      BY <3>1, <3>2 DEF MatchDenoted
  <2>4. MatchDenoted(NetworkDestination(v))
    <3>1. MatchGoString(NetworkDestination(v)) = Expr("NetworkDestination", <<quoted(v)>>)
      BY DEF MatchGoString, NetworkDestination, networkMatch, networkMatch_GoString
    <3>2. MatchOf(Expr("NetworkDestination", <<quoted(v)>>)) = NetworkDestination(v)
      BY CallOfOne, Literals DEF MatchOf
    <3> QED
      BY <3>1, <3>2 DEF MatchDenoted
  <2>5. MatchDenoted(IPv6Source(v))
    <3>1. MatchGoString(IPv6Source(v)) = Expr("IPv6Source", <<quoted(v)>>)
      BY DEF MatchGoString, IPv6Source, ipv6Match, ipv6Match_GoString
    <3>2. MatchOf(Expr("IPv6Source", <<quoted(v)>>)) = IPv6Source(v)
      BY CallOfOne, Literals DEF MatchOf
    <3> QED
      BY <3>1, <3>2 DEF MatchDenoted
  <2>6. MatchDenoted(IPv6Destination(v))
    <3>1. MatchGoString(IPv6Destination(v)) = Expr("IPv6Destination", <<quoted(v)>>)
      BY DEF MatchGoString, IPv6Destination, ipv6Match, ipv6Match_GoString
    <3>2. MatchOf(Expr("IPv6Destination", <<quoted(v)>>)) = IPv6Destination(v)
      BY CallOfOne, Literals DEF MatchOf
    <3> QED
      BY <3>1, <3>2 DEF MatchDenoted
  <2>7. MatchDenoted(NeighborDiscoveryTarget(v))
    <3>1. MatchGoString(NeighborDiscoveryTarget(v))
            = Expr("NeighborDiscoveryTarget", <<quoted(v)>>)
      BY DEF MatchGoString, NeighborDiscoveryTarget,
         neighborDiscoveryTargetMatch_GoString
    <3>2. MatchOf(Expr("NeighborDiscoveryTarget", <<quoted(v)>>)) = NeighborDiscoveryTarget(v)
      BY CallOfOne, Literals DEF MatchOf
    <3> QED
      BY <3>1, <3>2 DEF MatchDenoted
  <2>8. MatchDenoted(NeighborDiscoverySourceLinkLayer(v))
    <3>1. MatchGoString(NeighborDiscoverySourceLinkLayer(v))
            = Expr("NeighborDiscoverySourceLinkLayer", <<hwAddrGoString(v)>>)
      BY DEF MatchGoString, NeighborDiscoverySourceLinkLayer,
         neighborDiscoveryLinkLayerMatch,
         neighborDiscoveryLinkLayerMatch_GoString
    <3>2. MatchOf(Expr("NeighborDiscoverySourceLinkLayer", <<hwAddrGoString(v)>>))
            = NeighborDiscoverySourceLinkLayer(v)
      BY CallOfOne, Literals DEF MatchOf
    <3> QED
      BY <3>1, <3>2 DEF MatchDenoted
  <2>9. MatchDenoted(NeighborDiscoveryTargetLinkLayer(v))
    <3>1. MatchGoString(NeighborDiscoveryTargetLinkLayer(v))
            = Expr("NeighborDiscoveryTargetLinkLayer", <<hwAddrGoString(v)>>)
      BY DEF MatchGoString, NeighborDiscoveryTargetLinkLayer,
         neighborDiscoveryLinkLayerMatch,
         neighborDiscoveryLinkLayerMatch_GoString
    <3>2. MatchOf(Expr("NeighborDiscoveryTargetLinkLayer", <<hwAddrGoString(v)>>))
            = NeighborDiscoveryTargetLinkLayer(v)
      BY CallOfOne, Literals DEF MatchOf
    <3> QED
      BY <3>1, <3>2 DEF MatchDenoted
  <2>10. MatchDenoted(ARPSourceHardwareAddress(v))
    <3>1. MatchGoString(ARPSourceHardwareAddress(v))
            = Expr("ARPSourceHardwareAddress", <<hwAddrGoString(v)>>)
      BY DEF MatchGoString, ARPSourceHardwareAddress, arpHardwareAddressMatch,
         arpHardwareAddressMatch_GoString
    <3>2. MatchOf(Expr("ARPSourceHardwareAddress", <<hwAddrGoString(v)>>))
            = ARPSourceHardwareAddress(v)
      BY CallOfOne, Literals DEF MatchOf
    <3> QED
      BY <3>1, <3>2 DEF MatchDenoted
  <2>11. MatchDenoted(ARPTargetHardwareAddress(v))
    <3>1. MatchGoString(ARPTargetHardwareAddress(v))
            = Expr("ARPTargetHardwareAddress", <<hwAddrGoString(v)>>)
      BY DEF MatchGoString, ARPTargetHardwareAddress, arpHardwareAddressMatch,
         arpHardwareAddressMatch_GoString
    <3>2. MatchOf(Expr("ARPTargetHardwareAddress", <<hwAddrGoString(v)>>))
            = ARPTargetHardwareAddress(v)
      BY CallOfOne, Literals DEF MatchOf
    <3> QED
      BY <3>1, <3>2 DEF MatchDenoted
  <2>12. MatchDenoted(ARPSourceProtocolAddress(v))
    <3>1. MatchGoString(ARPSourceProtocolAddress(v))
            = Expr("ARPSourceProtocolAddress", <<quoted(v)>>)
      BY DEF MatchGoString, ARPSourceProtocolAddress, arpProtocolAddressMatch,
         arpProtocolAddressMatch_GoString
    <3>2. MatchOf(Expr("ARPSourceProtocolAddress", <<quoted(v)>>)) = ARPSourceProtocolAddress(v)
      BY CallOfOne, Literals DEF MatchOf
    <3> QED
      BY <3>1, <3>2 DEF MatchDenoted
  <2>13. MatchDenoted(ARPTargetProtocolAddress(v))
    <3>1. MatchGoString(ARPTargetProtocolAddress(v))
            = Expr("ARPTargetProtocolAddress", <<quoted(v)>>)
      BY DEF MatchGoString, ARPTargetProtocolAddress, arpProtocolAddressMatch,
         arpProtocolAddressMatch_GoString
    <3>2. MatchOf(Expr("ARPTargetProtocolAddress", <<quoted(v)>>)) = ARPTargetProtocolAddress(v)
      BY CallOfOne, Literals DEF MatchOf
    <3> QED
      BY <3>1, <3>2 DEF MatchDenoted
  <2>14. MatchDenoted(ConnectionTrackingState(v))
    <3>1. MatchGoString(ConnectionTrackingState(v))
            = Expr("ConnectionTrackingState", <<quoted(v)>>)
      BY DEF MatchGoString, ConnectionTrackingState,
         connectionTrackingMatch_GoString
    <3>2. MatchOf(Expr("ConnectionTrackingState", <<quoted(v)>>)) = ConnectionTrackingState(v)
      BY CallOfOne, Literals DEF MatchOf
    <3> QED
      BY <3>1, <3>2 DEF MatchDenoted
  <2>15. MatchDenoted(TCPFlags(v))
    <3>1. MatchGoString(TCPFlags(v)) = Expr("TCPFlags", <<quoted(v)>>)
      BY DEF MatchGoString, TCPFlags, tcpFlagsMatch_GoString
    <3>2. MatchOf(Expr("TCPFlags", <<quoted(v)>>)) = TCPFlags(v)
      BY CallOfOne, Literals DEF MatchOf
    <3> QED
      BY <3>1, <3>2 DEF MatchDenoted
  <2> QED
    BY <2>1, <2>2, <2>3, <2>4, <2>5, <2>6, <2>7, <2>8, <2>9, <2>10, <2>11,
       <2>12, <2>13, <2>14, <2>15
<1>2. ASSUME NEW n \in Int
      PROVE  /\ MatchDenoted(DataLinkType(n))
             /\ MatchDenoted(DataLinkVLAN(n))
             /\ MatchDenoted(ConjunctionID(n))
             /\ MatchDenoted(NetworkProtocol(n))
             /\ MatchDenoted(ICMPType(n))
             /\ MatchDenoted(ConnectionTrackingZone(n))
             /\ MatchDenoted(TransportSourcePort(n))
             /\ MatchDenoted(TransportDestinationPort(n))
             /\ MatchDenoted(TunnelID(n))
  <2>1. MatchDenoted(DataLinkType(n))
    <3>1. MatchGoString(DataLinkType(n)) = Expr("DataLinkType", <<hex(n)>>)
      BY DEF MatchGoString, DataLinkType, dataLinkTypeMatch_GoString
    <3>2. MatchOf(Expr("DataLinkType", <<hex(n)>>)) = DataLinkType(n)
      BY CallOfOne, Literals DEF MatchOf
    <3> QED
      BY <3>1, <3>2 DEF MatchDenoted
  <2>2. MatchDenoted(DataLinkVLAN(n))
    <3> DEFINE lit == IF n = VLANNone THEN hex(VLANNone) ELSE dec(n)
    <3>1. MatchGoString(DataLinkVLAN(n)) = Expr("DataLinkVLAN", <<lit>>)
      BY DEF MatchGoString, DataLinkVLAN, dataLinkVLANMatch_GoString
    <3>2. Literal(lit) = n
      BY Literals
    <3> HIDE DEF lit
    <3>3. MatchOf(Expr("DataLinkVLAN", <<lit>>)) = DataLinkVLAN(n)
      BY <3>2, CallOfOne DEF MatchOf
    <3> QED
      BY <3>1, <3>3 DEF MatchDenoted
  <2>3. MatchDenoted(ConjunctionID(n))
    <3>1. MatchGoString(ConjunctionID(n)) = Expr("ConjunctionID", <<dec(n)>>)
      BY DEF MatchGoString, ConjunctionID, conjunctionIDMatch_GoString
    <3>2. MatchOf(Expr("ConjunctionID", <<dec(n)>>)) = ConjunctionID(n)
      BY CallOfOne, Literals DEF MatchOf
    <3> QED
      BY <3>1, <3>2 DEF MatchDenoted
  <2>4. MatchDenoted(NetworkProtocol(n))
    <3>1. MatchGoString(NetworkProtocol(n)) = Expr("NetworkProtocol", <<dec(n)>>)
      BY DEF MatchGoString, NetworkProtocol, networkProtocolMatch_GoString
    <3>2. MatchOf(Expr("NetworkProtocol", <<dec(n)>>)) = NetworkProtocol(n)
      BY CallOfOne, Literals DEF MatchOf
    <3> QED
      BY <3>1, <3>2 DEF MatchDenoted
  <2>5. MatchDenoted(ICMPType(n))
    <3>1. MatchGoString(ICMPType(n)) = Expr("ICMPType", <<dec(n)>>)
      BY DEF MatchGoString, ICMPType, icmpTypeMatch_GoString
    <3>2. MatchOf(Expr("ICMPType", <<dec(n)>>)) = ICMPType(n)
      BY CallOfOne, Literals DEF MatchOf
    <3> QED
      BY <3>1, <3>2 DEF MatchDenoted
  <2>6. MatchDenoted(ConnectionTrackingZone(n))
    <3>1. MatchGoString(ConnectionTrackingZone(n)) = Expr("ConnectionTrackingZone", <<dec(n)>>)
      BY DEF MatchGoString, ConnectionTrackingZone,
         connectionTrackingZoneMatch_GoString
    <3>2. MatchOf(Expr("ConnectionTrackingZone", <<dec(n)>>)) = ConnectionTrackingZone(n)
      BY CallOfOne, Literals DEF MatchOf
    <3> QED
      BY <3>1, <3>2 DEF MatchDenoted
  <2>7. MatchDenoted(TransportSourcePort(n))
    <3>1. MatchGoString(TransportSourcePort(n)) = Expr("TransportSourcePort", <<dec(n)>>)
      BY DEF MatchGoString, TransportSourcePort, transportPortMatch,
         transportPortMatch_GoString
    <3>2. MatchOf(Expr("TransportSourcePort", <<dec(n)>>)) = TransportSourcePort(n)
      BY CallOfOne, Literals DEF MatchOf
    <3> QED
      BY <3>1, <3>2 DEF MatchDenoted
  <2>8. MatchDenoted(TransportDestinationPort(n))
    <3>1. MatchGoString(TransportDestinationPort(n)) = Expr("TransportDestinationPort", <<dec(n)>>)
      BY DEF MatchGoString, TransportDestinationPort, transportPortMatch,
         transportPortMatch_GoString
    <3>2. MatchOf(Expr("TransportDestinationPort", <<dec(n)>>)) = TransportDestinationPort(n)
      BY CallOfOne, Literals DEF MatchOf
    <3> QED
      BY <3>1, <3>2 DEF MatchDenoted
  <2>9. MatchDenoted(TunnelID(n))
    <3>1. MatchGoString(TunnelID(n)) = Expr("TunnelID", <<hex(n)>>)
      BY DEF MatchGoString, TunnelIDWithMask, TunnelID, tunnelIDMatch_GoString
    <3>2. MatchOf(Expr("TunnelID", <<hex(n)>>)) = TunnelID(n)
      BY CallOfOne, Literals DEF MatchOf
    <3> QED
      BY <3>1, <3>2 DEF MatchDenoted
  <2> QED
    BY <2>1, <2>2, <2>3, <2>4, <2>5, <2>6, <2>7, <2>8, <2>9
<1>3. ASSUME NEW n \in Int, NEW k \in Nat
      PROVE  /\ MatchDenoted(TransportSourceMaskedPort(n, k))
             /\ MatchDenoted(TransportDestinationMaskedPort(n, k))
             /\ MatchDenoted(VLANTCI(n, k))
             /\ MatchDenoted(ConnectionTrackingMark(n, k))
             /\ MatchDenoted(TunnelIDWithMask(n, k))
  <2>1. MatchDenoted(TransportSourceMaskedPort(n, k))
    <3>1. CASE k > 0
      <4>1. MatchGoString(TransportSourceMaskedPort(n, k)) = Expr("TransportSourceMaskedPort", <<hex(n), hex(k)>>)
        BY <3>1 DEF MatchGoString, TransportSourceMaskedPort, transportPortMatch,
         transportPortMatch_GoString
      <4>2. MatchOf(Expr("TransportSourceMaskedPort", <<hex(n), hex(k)>>)) = TransportSourceMaskedPort(n, k)
        BY CallOfTwo, Literals DEF MatchOf
      <4> QED
        BY <4>1, <4>2 DEF MatchDenoted
    <3>2. CASE k = 0
      <4>1. TransportSourceMaskedPort(n, 0) = TransportSourcePort(n)
        BY DEF TransportSourceMaskedPort, TransportSourcePort
      <4> QED
        BY <1>2, <3>2, <4>1
    <3> QED
      BY <3>1, <3>2
  <2>2. MatchDenoted(TransportDestinationMaskedPort(n, k))
    <3>1. CASE k > 0
      <4>1. MatchGoString(TransportDestinationMaskedPort(n, k)) = Expr("TransportDestinationMaskedPort", <<hex(n), hex(k)>>)
        BY <3>1 DEF MatchGoString, TransportDestinationMaskedPort, transportPortMatch,
         transportPortMatch_GoString
      <4>2. MatchOf(Expr("TransportDestinationMaskedPort", <<hex(n), hex(k)>>)) = TransportDestinationMaskedPort(n, k)
        BY CallOfTwo, Literals DEF MatchOf
      <4> QED
        BY <4>1, <4>2 DEF MatchDenoted
    <3>2. CASE k = 0
      <4>1. TransportDestinationMaskedPort(n, 0) = TransportDestinationPort(n)
        BY DEF TransportDestinationMaskedPort, TransportDestinationPort
      <4> QED
        BY <1>2, <3>2, <4>1
    <3> QED
      BY <3>1, <3>2
  <2>3. MatchDenoted(VLANTCI(n, k))
    <3>1. MatchGoString(VLANTCI(n, k)) = Expr("VLANTCI", <<hex(n), hex(k)>>)
      BY DEF MatchGoString, VLANTCI, vlanTCIMatch_GoString
    <3>2. MatchOf(Expr("VLANTCI", <<hex(n), hex(k)>>)) = VLANTCI(n, k)
      BY CallOfTwo, Literals DEF MatchOf
    <3> QED
      BY <3>1, <3>2 DEF MatchDenoted
  <2>4. MatchDenoted(ConnectionTrackingMark(n, k))
    <3>1. MatchGoString(ConnectionTrackingMark(n, k)) = Expr("ConnectionTrackingMark", <<hex(n), hex(k)>>)
      BY DEF MatchGoString, ConnectionTrackingMark, connectionTrackingMarkMatch_GoString
    <3>2. MatchOf(Expr("ConnectionTrackingMark", <<hex(n), hex(k)>>)) = ConnectionTrackingMark(n, k)
      BY CallOfTwo, Literals DEF MatchOf
    <3> QED
      BY <3>1, <3>2 DEF MatchDenoted
  <2>5. MatchDenoted(TunnelIDWithMask(n, k))
    <3>1. CASE k > 0
      <4>1. MatchGoString(TunnelIDWithMask(n, k)) = Expr("TunnelIDWithMask", <<hex(n), hex(k)>>)
        BY <3>1 DEF MatchGoString, TunnelIDWithMask, tunnelIDMatch_GoString
      <4>2. MatchOf(Expr("TunnelIDWithMask", <<hex(n), hex(k)>>)) = TunnelIDWithMask(n, k)
        BY CallOfTwo, Literals DEF MatchOf
      <4> QED
        BY <4>1, <4>2 DEF MatchDenoted
    <3>2. CASE k = 0
      <4>1. TunnelIDWithMask(n, 0) = TunnelID(n)
        BY DEF TunnelID
      <4> QED
        BY <1>2, <3>2, <4>1
    <3> QED
      BY <3>1, <3>2
  <2> QED
    BY <2>1, <2>2, <2>3, <2>4, <2>5
<1> QED
  BY <1>1, <1>2, <1>3 DEF IsMatch

LEMMA CallOfThree ==
  ASSUME NEW fn, NEW a, NEW b, NEW c
  PROVE  /\ Expr(fn, <<a, b, c>>).fn = fn /\ Expr(fn, <<a, b, c>>).args[1] = a
         /\ Expr(fn, <<a, b, c>>).args[2] = b /\ Expr(fn, <<a, b, c>>).args[3] = c
BY DEF Expr

LEMMA CallOfNone == ASSUME NEW fn PROVE Expr(fn, <<>>).fn = fn
BY DEF Expr

\* An action as its constructor returns it.
IsAction(a) ==
  \/ a \in {Drop, Flood, InPort, Local, Normal, StripVLAN}
  \/ \E v : \/ a = ConnectionTracking(v)
            \/ a = ModDataLinkSource(v)
            \/ a = ModDataLinkDestination(v)
            \/ a = ModNetworkSource(v)
            \/ a = ModNetworkDestination(v)
  \/ \E n \in Int : \/ a = ModTransportSourcePort(n)
                   \/ a = ModTransportDestinationPort(n)
                   \/ a = ModVLANVID(n)
                   \/ a = Output(n)
                   \/ a = ResubmitPort(n)
                   \/ a = SetTunnel(n)
  \/ \E n, k \in Int : a = Resubmit(n, k)
  \/ \E i, n, k \in Int : a = Conjunction(i, n, k)
  \/ \E v, f : a = Load(v, f) \/ a = SetField(v, f)

\* GoString of every action that can be marshalled names the constructor, and
\* gives it the arguments, that make the action again.
THEOREM ActionSourceDenotes ==
  ASSUME NEW a, IsAction(a), ActionText(a).ok PROVE ActionDenoted(a)
<1>1. ASSUME a \in {Drop, Flood, InPort, Local, Normal, StripVLAN}
      PROVE  ActionDenoted(a)
  <2>1. ActionDenoted(Drop)
    <3>1. ActionGoString(Drop) = Expr("Drop", <<>>)
      BY DEF ActionGoString, Drop, textAction, textAction_GoString
    <3>2. ActionOf(Expr("Drop", <<>>)) = Drop
      BY CallOfNone DEF ActionOf
    <3> QED
      BY <3>1, <3>2 DEF ActionDenoted
  <2>2. ActionDenoted(Flood)
    <3>1. ActionGoString(Flood) = Expr("Flood", <<>>)
      BY DEF ActionGoString, Flood, textAction, textAction_GoString
    <3>2. ActionOf(Expr("Flood", <<>>)) = Flood
      BY CallOfNone DEF ActionOf
    <3> QED
      BY <3>1, <3>2 DEF ActionDenoted
  <2>3. ActionDenoted(InPort)
    <3>1. ActionGoString(InPort) = Expr("InPort", <<>>)
      BY DEF ActionGoString, InPort, textAction, textAction_GoString
    <3>2. ActionOf(Expr("InPort", <<>>)) = InPort
      BY CallOfNone DEF ActionOf
    <3> QED
      BY <3>1, <3>2 DEF ActionDenoted
  <2>4. ActionDenoted(Local)
    <3>1. ActionGoString(Local) = Expr("Local", <<>>)
      BY DEF ActionGoString, Local, textAction, textAction_GoString
    <3>2. ActionOf(Expr("Local", <<>>)) = Local
      BY CallOfNone DEF ActionOf
    <3> QED
      BY <3>1, <3>2 DEF ActionDenoted
  <2>5. ActionDenoted(Normal)
    <3>1. ActionGoString(Normal) = Expr("Normal", <<>>)
      BY DEF ActionGoString, Normal, textAction, textAction_GoString
    <3>2. ActionOf(Expr("Normal", <<>>)) = Normal
      BY CallOfNone DEF ActionOf
    <3> QED
      BY <3>1, <3>2 DEF ActionDenoted
  <2>6. ActionDenoted(StripVLAN)
    <3>1. ActionGoString(StripVLAN) = Expr("StripVLAN", <<>>)
      BY DEF ActionGoString, StripVLAN, textAction, textAction_GoString
    <3>2. ActionOf(Expr("StripVLAN", <<>>)) = StripVLAN
      BY CallOfNone DEF ActionOf
    <3> QED
      BY <3>1, <3>2 DEF ActionDenoted
  <2> QED
    BY <1>1, <2>1, <2>2, <2>3, <2>4, <2>5, <2>6
<1>2. ASSUME NEW v
      PROVE  /\ ActionDenoted(ConnectionTracking(v))
             /\ ActionDenoted(ModDataLinkSource(v))
             /\ ActionDenoted(ModDataLinkDestination(v))
             /\ (ActionText(ModNetworkSource(v)).ok => ActionDenoted(ModNetworkSource(v)))
             /\ (ActionText(ModNetworkDestination(v)).ok => ActionDenoted(ModNetworkDestination(v)))
  <2>1. ActionDenoted(ConnectionTracking(v))
    <3>1. ActionGoString(ConnectionTracking(v)) = Expr("ConnectionTracking", <<quoted(v)>>)
      BY DEF ActionGoString, ConnectionTracking, ctAction_GoString
    <3>2. ActionOf(Expr("ConnectionTracking", <<quoted(v)>>)) = ConnectionTracking(v)
      BY CallOfOne, Literals DEF ActionOf
    <3> QED
      BY <3>1, <3>2 DEF ActionDenoted
  <2>2. ActionDenoted(ModDataLinkSource(v))
    <3>1. ActionGoString(ModDataLinkSource(v)) = Expr("ModDataLinkSource", <<hwAddrGoString(v)>>)
      BY DEF ActionGoString, ModDataLinkSource, modDataLinkAction,
         modDataLinkAction_GoString
    <3>2. ActionOf(Expr("ModDataLinkSource", <<hwAddrGoString(v)>>)) = ModDataLinkSource(v)
      BY CallOfOne, Literals DEF ActionOf
    <3> QED
      BY <3>1, <3>2 DEF ActionDenoted
  <2>3. ActionDenoted(ModDataLinkDestination(v))
    <3>1. ActionGoString(ModDataLinkDestination(v)) = Expr("ModDataLinkDestination", <<hwAddrGoString(v)>>)
      BY DEF ActionGoString, ModDataLinkDestination, modDataLinkAction,
         modDataLinkAction_GoString
    <3>2. ActionOf(Expr("ModDataLinkDestination", <<hwAddrGoString(v)>>)) = ModDataLinkDestination(v)
      BY CallOfOne, Literals DEF ActionOf
    <3> QED
      BY <3>1, <3>2 DEF ActionDenoted
  <2>4. ActionText(ModNetworkSource(v)).ok => ActionDenoted(ModNetworkSource(v))
    <3>1. CASE v.v4
      <4>1. To4(v) = Ok(IPs["ip4"]) /\ To4(IPs["ip4"]) = Ok(IPs["ip4"])
        BY <3>1 DEF To4, IPs
      <4>2. ActionGoString(ModNetworkSource(v)) = Expr("ModNetworkSource", <<ipv4GoString(Ok(IPs["ip4"]))>>)
        BY <4>1 DEF ActionGoString, ModNetworkSource, modNetworkAction,
           modNetworkAction_GoString
      <4>3. ActionOf(Expr("ModNetworkSource", <<ipv4GoString(Ok(IPs["ip4"]))>>))
            = ModNetworkSource(IPs["ip4"])
        BY CallOfOne, Literals DEF ActionOf
      <4>4. ModNetworkSource(IPs["ip4"]) = ModNetworkSource(v)
        BY <4>1 DEF ModNetworkSource, modNetworkAction
      <4> QED
        BY <4>2, <4>3, <4>4 DEF ActionDenoted
    <3>2. CASE ~v.v4
      <4>1. To4(v) = Fail /\ ~Fail.ok
        BY <3>2 DEF To4, Fail
      <4>2. ActionText(ModNetworkSource(v)) = Fail
        BY <4>1 DEF ActionText, ModNetworkSource, modNetworkAction,
           modNetworkAction_MarshalText
      <4> QED
        BY <4>1, <4>2 DEF ActionDenoted
    <3> QED
      BY <3>1, <3>2
  <2>5. ActionText(ModNetworkDestination(v)).ok => ActionDenoted(ModNetworkDestination(v))
    <3>1. CASE v.v4
      <4>1. To4(v) = Ok(IPs["ip4"]) /\ To4(IPs["ip4"]) = Ok(IPs["ip4"])
        BY <3>1 DEF To4, IPs
      <4>2. ActionGoString(ModNetworkDestination(v)) = Expr("ModNetworkDestination", <<ipv4GoString(Ok(IPs["ip4"]))>>)
        BY <4>1 DEF ActionGoString, ModNetworkDestination, modNetworkAction,
           modNetworkAction_GoString
      <4>3. ActionOf(Expr("ModNetworkDestination", <<ipv4GoString(Ok(IPs["ip4"]))>>))
            = ModNetworkDestination(IPs["ip4"])
        BY CallOfOne, Literals DEF ActionOf
      <4>4. ModNetworkDestination(IPs["ip4"]) = ModNetworkDestination(v)
        BY <4>1 DEF ModNetworkDestination, modNetworkAction
      <4> QED
        BY <4>2, <4>3, <4>4 DEF ActionDenoted
    <3>2. CASE ~v.v4
      <4>1. To4(v) = Fail /\ ~Fail.ok
        BY <3>2 DEF To4, Fail
      <4>2. ActionText(ModNetworkDestination(v)) = Fail
        BY <4>1 DEF ActionText, ModNetworkDestination, modNetworkAction,
           modNetworkAction_MarshalText
      <4> QED
        BY <4>1, <4>2 DEF ActionDenoted
    <3> QED
      BY <3>1, <3>2
  <2> QED
    BY <2>1, <2>2, <2>3, <2>4, <2>5
<1>3. ASSUME NEW n \in Int
      PROVE  /\ ActionDenoted(ModTransportSourcePort(n))
             /\ ActionDenoted(ModTransportDestinationPort(n))
             /\ ActionDenoted(ModVLANVID(n))
             /\ ActionDenoted(Output(n))
             /\ ActionDenoted(ResubmitPort(n))
             /\ ActionDenoted(SetTunnel(n))
  <2>1. ActionDenoted(ModTransportSourcePort(n))
    <3>1. ActionGoString(ModTransportSourcePort(n)) = Expr("ModTransportSourcePort", <<dec(n)>>)
      BY DEF ActionGoString, ModTransportSourcePort, modTransportPortAction,
         modTransportPortAction_GoString
    <3>2. ActionOf(Expr("ModTransportSourcePort", <<dec(n)>>)) = ModTransportSourcePort(n)
      BY CallOfOne, Literals DEF ActionOf
    <3> QED
      BY <3>1, <3>2 DEF ActionDenoted
  <2>2. ActionDenoted(ModTransportDestinationPort(n))
    <3>1. ActionGoString(ModTransportDestinationPort(n)) = Expr("ModTransportDestinationPort", <<dec(n)>>)
      BY DEF ActionGoString, ModTransportDestinationPort,
         modTransportPortAction, modTransportPortAction_GoString
    <3>2. ActionOf(Expr("ModTransportDestinationPort", <<dec(n)>>)) = ModTransportDestinationPort(n)
      BY CallOfOne, Literals DEF ActionOf
    <3> QED
      BY <3>1, <3>2 DEF ActionDenoted
  <2>3. ActionDenoted(ModVLANVID(n))
    <3>1. ActionGoString(ModVLANVID(n)) = Expr("ModVLANVID", <<dec(n)>>)
      BY DEF ActionGoString, ModVLANVID, modVLANVIDAction_GoString
    <3>2. ActionOf(Expr("ModVLANVID", <<dec(n)>>)) = ModVLANVID(n)
      BY CallOfOne, Literals DEF ActionOf
    <3> QED
      BY <3>1, <3>2 DEF ActionDenoted
  <2>4. ActionDenoted(Output(n))
    <3>1. ActionGoString(Output(n)) = Expr("Output", <<dec(n)>>)
      BY DEF ActionGoString, Output, outputAction_GoString
    <3>2. ActionOf(Expr("Output", <<dec(n)>>)) = Output(n)
      BY CallOfOne, Literals DEF ActionOf
    <3> QED
      BY <3>1, <3>2 DEF ActionDenoted
  <2>5. ActionDenoted(ResubmitPort(n))
    <3>1. ActionGoString(ResubmitPort(n)) = Expr("ResubmitPort", <<dec(n)>>)
      BY DEF ActionGoString, ResubmitPort, resubmitPortAction_GoString
    <3>2. ActionOf(Expr("ResubmitPort", <<dec(n)>>)) = ResubmitPort(n)
      BY CallOfOne, Literals DEF ActionOf
    <3> QED
      BY <3>1, <3>2 DEF ActionDenoted
  <2>6. ActionDenoted(SetTunnel(n))
    <3>1. ActionGoString(SetTunnel(n)) = Expr("SetTunnel", <<hex(n)>>)
      BY DEF ActionGoString, SetTunnel, setTunnelAction_GoString
    <3>2. ActionOf(Expr("SetTunnel", <<hex(n)>>)) = SetTunnel(n)
      BY CallOfOne, Literals DEF ActionOf
    <3> QED
      BY <3>1, <3>2 DEF ActionDenoted
  <2> QED
    BY <2>1, <2>2, <2>3, <2>4, <2>5, <2>6
<1>4. ASSUME NEW n \in Int, NEW k \in Int PROVE ActionDenoted(Resubmit(n, k))
  <2>1. ActionDenoted(Resubmit(n, k))
    <3>1. ActionGoString(Resubmit(n, k)) = Expr("Resubmit", <<dec(n), dec(k)>>)
      BY DEF ActionGoString, Resubmit, resubmitAction_GoString
    <3>2. ActionOf(Expr("Resubmit", <<dec(n), dec(k)>>)) = Resubmit(n, k)
      BY CallOfTwo, Literals DEF ActionOf
    <3> QED
      BY <3>1, <3>2 DEF ActionDenoted
  <2> QED
    BY <2>1
<1>5. ASSUME NEW i \in Int, NEW n \in Int, NEW k \in Int
      PROVE  ActionDenoted(Conjunction(i, n, k))
  <2>1. ActionDenoted(Conjunction(i, n, k))
    <3>1. ActionGoString(Conjunction(i, n, k)) = Expr("Conjunction", <<dec(i), dec(n), dec(k)>>)
      BY DEF ActionGoString, Conjunction, conjunctionAction_GoString
    <3>2. ActionOf(Expr("Conjunction", <<dec(i), dec(n), dec(k)>>)) = Conjunction(i, n, k)
      BY CallOfThree, Literals DEF ActionOf
    <3> QED
      BY <3>1, <3>2 DEF ActionDenoted
  <2> QED
    BY <2>1
<1>6. ASSUME NEW v, NEW f PROVE ActionDenoted(Load(v, f)) /\ ActionDenoted(SetField(v, f))
  <2>1. ActionDenoted(Load(v, f))
    <3>1. ActionGoString(Load(v, f)) = Expr("Load", <<quoted(v), quoted(f)>>)
      BY DEF ActionGoString, Load, loadSetFieldAction,
         loadSetFieldAction_GoString
    <3>2. ActionOf(Expr("Load", <<quoted(v), quoted(f)>>)) = Load(v, f)
      BY CallOfTwo, Literals DEF ActionOf
    <3> QED
      BY <3>1, <3>2 DEF ActionDenoted
  <2>2. ActionDenoted(SetField(v, f))
    <3>1. ActionGoString(SetField(v, f)) = Expr("SetField", <<quoted(v), quoted(f)>>)
      BY DEF ActionGoString, SetField, loadSetFieldAction,
         loadSetFieldAction_GoString
    <3>2. ActionOf(Expr("SetField", <<quoted(v), quoted(f)>>)) = SetField(v, f)
      BY CallOfTwo, Literals DEF ActionOf
    <3> QED
      BY <3>1, <3>2 DEF ActionDenoted
  <2> QED
    BY <2>1, <2>2
<1> QED
  BY <1>1, <1>2, <1>3, <1>4, <1>5, <1>6 DEF IsAction

----------------------------------------------------------------------------
(* The questions that LibrarySpec asks.                                    *)

LEMMA NumsFit ==
  ASSUME NEW b \in {U8, U12, U16, U32, U64}
  PROVE  /\ Nums(b) \subseteq 0 .. MaxUint(b) /\ TextNums(b) \subseteq Int
         /\ \A n \in TextNums(b) : n # -1 => n \in Nat
         /\ 0 \in 0 .. MaxUint(b)
<1>1. b \in Nat /\ b - 1 \in Nat /\ b - 1 < b
  BY WidthAssumption
<1>2. 2 ^ b \in Nat \ {0} /\ 2 ^ (b - 1) \in Nat \ {0} /\ 2 ^ (b - 1) < 2 ^ b
  BY <1>1, PowerPositive, PowerMonotone
<1> QED
  BY <1>2 DEF Nums, TextNums, MaxUint

LEMMA PiecesAreNumbers ==
  ASSUME NEW b \in {U8, U12, U16, U32, U64}
  PROVE  Pieces(b) \subseteq NumberPieces
<1>1. TextNums(b) \subseteq Int /\ \A n \in TextNums(b) : n # -1 => n \in Nat
  BY NumsFit
<1> QED
  BY <1>1 DEF Pieces, NumberPieces

LEMMA MACStringsAre ==
  ASSUME NEW s \in MACStrings PROVE \E P : s \in Seq(P)
<1>1. ASSUME NEW x, s = <<x>> PROVE \E P : s \in Seq(P)
  <2>1. s \in Seq({x})
    BY <1>1
  <2> QED
    BY <2>1
<1>2. ASSUME NEW x, NEW y, s = <<x, y>> PROVE \E P : s \in Seq(P)
  <2>1. s \in Seq({x, y})
    BY <1>2
  <2> QED
    BY <2>1
<1> QED
  BY <1>1, <1>2 DEF MACStrings, Strings, Slashed

LEMMA FlagListsAre ==
  ASSUME NEW fl \in FlagLists PROVE FourEach(fl) /\ ~Recut(fl)
<1>1. \A f \in Flags3 : f.len = 3 /\ "of" \notin DOMAIN f
  BY DEF Flags3, SetState, UnsetState, Flag
<1>2. ASSUME NEW f \in Flags3, fl = <<f>> PROVE FourEach(fl) /\ ~Recut(fl)
  BY <1>1, <1>2, OnePiece DEF FourEach, Recut
<1>3. ASSUME NEW f \in Flags3, NEW g \in Flags3, fl = <<f, g>>
      PROVE  FourEach(fl) /\ ~Recut(fl)
  BY <1>1, <1>3, TwoPieces DEF FourEach, Recut
<1> QED
  BY <1>2, <1>3 DEF FlagLists

LEMMA OddFlagsAre ==
  ASSUME NEW fl \in OddFlags PROVE ~Recut(fl)
<1> DEFINE four == UnsetTCPFlag(<<"psh2", 4>>)
           three == SetTCPFlag(<<"ack", 3>>)
<1>1. "of" \notin DOMAIN four /\ "of" \notin DOMAIN three
  BY DEF SetTCPFlag, UnsetTCPFlag, Flag
<1>2. fl = <<>> \/ fl = <<three, four>> \/ fl = <<four, four, four, four>>
  BY DEF OddFlags
<1> HIDE DEF three, four
<1> QED
  BY <1>1, <1>2 DEF Recut

\* Every match that is asked about is one that its constructor returns, from
\* values of the types its arguments have.
LEMMA MatchesAreTyped == ASSUME NEW m \in Matches PROVE TypedMatch(m)
<1>1. /\ Nums(U8) \subseteq 0 .. MaxUint(U8) /\ Nums(U16) \subseteq 0 .. MaxUint(U16)
      /\ Nums(U32) \subseteq 0 .. MaxUint(U32) /\ Nums(U64) \subseteq 0 .. MaxUint(U64)
  BY NumsFit
<1>2. 0 \in 0 .. MaxUint(U16) /\ 0 \in 0 .. MaxUint(U64)
  BY NumsFit
<1>3. TextNums(U12) \subseteq Int /\ Nums(U16) \subseteq Int
  BY <1>1, NumsFit
<1>4. {MACs[a] : a \in {"mac", "eui64"}} \subseteq HardwareAddrs
  BY DEF HardwareAddrs, MACs
<1>5. ASSUME NEW n \in Nums(U16)
      PROVE  TypedMatch(TransportSourcePort(n)) /\ TypedMatch(TransportDestinationPort(n))
  BY <1>1, <1>2 DEF TypedMatch, TransportSourcePort, TransportDestinationPort
<1>6. ASSUME NEW n \in Nums(U16), NEW k \in Nums(U16)
      PROVE  /\ TypedMatch(TransportSourceMaskedPort(n, k))
             /\ TypedMatch(TransportDestinationMaskedPort(n, k))
             /\ TypedMatch(VLANTCI(n, k))
  BY <1>1 DEF TypedMatch, TransportSourceMaskedPort, TransportDestinationMaskedPort
<1>7. ASSUME NEW n \in Nums(U32), NEW k \in Nums(U32)
      PROVE  TypedMatch(ConnectionTrackingMark(n, k))
  BY <1>1 DEF TypedMatch
<1>8. ASSUME NEW n \in Nums(U64), NEW k \in Nums(U64)
      PROVE  TypedMatch(TunnelIDWithMask(n, k)) /\ TypedMatch(TunnelID(n))
  BY <1>1, <1>2 DEF TypedMatch, TunnelID
<1>9. ASSUME NEW s \in MACStrings
      PROVE  TypedMatch(DataLinkSource(s)) /\ TypedMatch(DataLinkDestination(s))
  BY MACStringsAre DEF TypedMatch
<1>10. ASSUME NEW s
       PROVE  /\ TypedMatch(NetworkSource(s)) /\ TypedMatch(NetworkDestination(s))
              /\ TypedMatch(IPv6Source(s)) /\ TypedMatch(IPv6Destination(s))
              /\ TypedMatch(NeighborDiscoveryTarget(s))
              /\ TypedMatch(ARPSourceProtocolAddress(s))
              /\ TypedMatch(ARPTargetProtocolAddress(s))
  BY DEF TypedMatch
<1>11. ASSUME NEW a \in HardwareAddrs
       PROVE  /\ TypedMatch(NeighborDiscoverySourceLinkLayer(a))
              /\ TypedMatch(NeighborDiscoveryTargetLinkLayer(a))
              /\ TypedMatch(ARPSourceHardwareAddress(a))
              /\ TypedMatch(ARPTargetHardwareAddress(a))
  BY DEF TypedMatch
<1>12. ASSUME NEW n \in Nums(U8)
       PROVE  TypedMatch(NetworkProtocol(n)) /\ TypedMatch(ICMPType(n))
  BY <1>1 DEF TypedMatch
<1>13. ASSUME NEW n \in Nums(U16)
       PROVE  TypedMatch(DataLinkType(n)) /\ TypedMatch(ConnectionTrackingZone(n))
  BY <1>1 DEF TypedMatch
<1>14. ASSUME NEW n \in Nums(U32) PROVE TypedMatch(ConjunctionID(n))
  BY <1>1 DEF TypedMatch
<1>15. ASSUME NEW n \in Int PROVE TypedMatch(DataLinkVLAN(n))
  BY DEF TypedMatch
<1>16. ASSUME NEW fl \in FlagLists
       PROVE  TypedMatch(ConnectionTrackingState(fl)) /\ TypedMatch(TCPFlags(fl))
  BY FlagListsAre DEF TypedMatch
<1> QED
  BY <1>3, <1>4, <1>5, <1>6, <1>7, <1>8, <1>9, <1>10, <1>11, <1>12, <1>13, <1>14,
     <1>15, <1>16 DEF Matches
\* Such a match is one whose source GoString writes.
LEMMA TypedMatchesAreMatches == ASSUME NEW m, TypedMatch(m) PROVE IsMatch(m)
<1>1. /\ MaxUint(U8) \in Nat /\ MaxUint(U16) \in Nat
      /\ MaxUint(U32) \in Nat /\ MaxUint(U64) \in Nat
  BY NumsFit, WidthAssumption, PowerPositive DEF MaxUint
<1>2. ASSUME NEW n \in 0 .. MaxUint(U8), m = NetworkProtocol(n) \/ m = ICMPType(n)
      PROVE  IsMatch(m)
  BY <1>1, <1>2 DEF IsMatch
<1>3. ASSUME NEW n \in 0 .. MaxUint(U16),
             m = DataLinkType(n) \/ m = ConnectionTrackingZone(n)
      PROVE  IsMatch(m)
  BY <1>1, <1>3 DEF IsMatch
<1>4. ASSUME NEW n \in 0 .. MaxUint(U32), m = ConjunctionID(n) PROVE IsMatch(m)
  BY <1>1, <1>4 DEF IsMatch
<1>5. ASSUME NEW n \in 0 .. MaxUint(U16), NEW k \in 0 .. MaxUint(U16),
             \/ m = transportPortMatch("src", n, k)
             \/ m = transportPortMatch("dst", n, k)
             \/ m = VLANTCI(n, k)
      PROVE  IsMatch(m)
  BY <1>1, <1>5
     DEF IsMatch, TransportSourceMaskedPort, TransportDestinationMaskedPort
<1>6. ASSUME NEW n \in 0 .. MaxUint(U32), NEW k \in 0 .. MaxUint(U32),
             m = ConnectionTrackingMark(n, k)
      PROVE  IsMatch(m)
  BY <1>1, <1>6 DEF IsMatch
<1>7. ASSUME NEW n \in 0 .. MaxUint(U64), NEW k \in 0 .. MaxUint(U64),
             m = TunnelIDWithMask(n, k)
      PROVE  IsMatch(m)
  BY <1>1, <1>7 DEF IsMatch
<1>8. ASSUME NEW n \in Int, m = DataLinkVLAN(n) PROVE IsMatch(m)
  BY <1>8 DEF IsMatch
<1>9. ASSUME NEW s, \/ m = DataLinkSource(s) \/ m = DataLinkDestination(s)
                    \/ m = NetworkSource(s) \/ m = NetworkDestination(s)
                    \/ m = IPv6Source(s) \/ m = IPv6Destination(s)
                    \/ m = NeighborDiscoveryTarget(s)
                    \/ m = ARPSourceProtocolAddress(s)
                    \/ m = ARPTargetProtocolAddress(s)
                    \/ m = NeighborDiscoverySourceLinkLayer(s)
                    \/ m = NeighborDiscoveryTargetLinkLayer(s)
                    \/ m = ARPSourceHardwareAddress(s)
                    \/ m = ARPTargetHardwareAddress(s)
                    \/ m = ConnectionTrackingState(s) \/ m = TCPFlags(s)
      PROVE  IsMatch(m)
  BY <1>9 DEF IsMatch
<1> QED
  BY <1>2, <1>3, <1>4, <1>5, <1>6, <1>7, <1>8, <1>9 DEF TypedMatch

\* Every action that is asked about is one that its constructor returns.
LEMMA ActionsAreActions == ASSUME NEW a \in Actions PROVE IsAction(a)
<1>1. /\ Nums(U16) \subseteq Int /\ Nums(U64) \subseteq Int /\ TextNums(U12) \subseteq Int
  BY NumsFit DEF TextNums
<1>2. LargestPort \in Int
  <2>1. 2 ^ U8 \in Nat /\ 2 ^ U32 \in Nat
    BY WidthAssumption, PowerPositive
  <2> QED
    BY <2>1 DEF LargestPort, MaxUint
<1>3. ASSUME NEW t \in TextActions PROVE IsAction(textAction(t))
  BY DEF IsAction, TextActions, Drop, Flood, InPort, Local, Normal, StripVLAN
<1>4. ASSUME NEW v
      PROVE  /\ IsAction(ConnectionTracking(v))
             /\ IsAction(ModDataLinkSource(v)) /\ IsAction(ModDataLinkDestination(v))
             /\ IsAction(ModNetworkSource(v)) /\ IsAction(ModNetworkDestination(v))
  BY DEF IsAction
<1>5. ASSUME NEW n \in Int
      PROVE  /\ IsAction(ModTransportSourcePort(n))
             /\ IsAction(ModTransportDestinationPort(n))
             /\ IsAction(ModVLANVID(n)) /\ IsAction(Output(n))
             /\ IsAction(ResubmitPort(n)) /\ IsAction(SetTunnel(n))
  BY DEF IsAction
<1>6. ASSUME NEW n \in Int, NEW k \in Int PROVE IsAction(Resubmit(n, k))
  BY DEF IsAction
<1>7. ASSUME NEW i \in Int, NEW n \in Int, NEW k \in Int
      PROVE  IsAction(Conjunction(i, n, k))
  BY DEF IsAction
<1>8. ASSUME NEW v, NEW f PROVE IsAction(Load(v, f)) /\ IsAction(SetField(v, f))
  BY DEF IsAction
<1> DEFINE ports == {-1, 0, LargestPort, LargestPort + 1}
<1>9. ASSUME a \in UNION {{ModDataLinkSource(v), ModDataLinkDestination(v)} :
                           v \in {MACs["mac"], MACs["eui64"]}}
      PROVE  IsAction(a)
  BY <1>4, <1>9
<1>10. ASSUME a \in UNION {{ModNetworkSource(v), ModNetworkDestination(v)} :
                            v \in {IPs[x] : x \in DOMAIN IPs}}
       PROVE  IsAction(a)
  BY <1>4, <1>10
<1>11. ASSUME a \in UNION {{ModTransportSourcePort(n), ModTransportDestinationPort(n)} :
                            n \in Nums(U16)}
       PROVE  IsAction(a)
  BY <1>1, <1>5, <1>11
<1>12. ASSUME a \in {ModVLANVID(n) : n \in TextNums(U12)}
                    \cup {Output(n) : n \in ports} \cup {ResubmitPort(n) : n \in ports}
                    \cup {SetTunnel(n) : n \in Nums(U64)}
       PROVE  IsAction(a)
  BY <1>1, <1>2, <1>5, <1>12
<1>13. ASSUME \/ a \in {Resubmit(p, t) : p, t \in {0, 1, LargestPort}}
              \/ a \in {Conjunction(i, n, k) : i \in {0, LargestPort}, n, k \in {0, 1, 2}}
       PROVE  IsAction(a)
  <2>1. {0, 1, LargestPort} \subseteq Int /\ {0, LargestPort} \subseteq Int
        /\ {0, 1, 2} \subseteq Int
    BY <1>2
  <2>2. CASE a \in {Resubmit(p, t) : p, t \in {0, 1, LargestPort}}
    BY <1>6, <2>1, <2>2
  <2>3. CASE a \in {Conjunction(i, n, k) : i \in {0, LargestPort}, n, k \in {0, 1, 2}}
    <3>1. PICK i \in {0, LargestPort}, n \in {0, 1, 2}, k \in {0, 1, 2} :
            a = Conjunction(i, n, k)
      BY <2>3
    <3> QED
      BY <1>7, <2>1, <3>1
  <2> QED
    BY <1>13, <2>2, <2>3
<1>14. ASSUME a \in {Load(v, f) : v \in {<<>>, <<hex(1)>>}, f \in {<<>>, <<atom("reg")>>}}
                    \cup {SetField(v, <<atom("reg")>>) : v \in {<<hex(1)>>, <<atom("mac")>>}}
       PROVE  IsAction(a)
  BY <1>8, <1>14
<1>15. ASSUME a \in {textAction(t) : t \in TextActions}
                    \cup {ConnectionTracking(v) : v \in CTArgs \cup {<<>>}}
       PROVE  IsAction(a)
  BY <1>3, <1>4, <1>15
<1> QED
  BY <1>9, <1>10, <1>11, <1>12, <1>13, <1>14, <1>15 DEF Actions
\* Small numbers, and the ports asked about, are Go integers.
LEMMA PortsAreInts ==
  /\ {-1, 0, 1, 2, LargestPort, LargestPort + 1} \subseteq GoInts
  /\ {0, 1, 2, LargestPort} \subseteq Nat
<1>1. LargestPort \in 0 .. MaxUint(U32) /\ LargestPort + 1 \in 0 .. MaxUint(U32)
  BY LargestPortFits
<1>2. /\ U8 \in Nat /\ U12 \in Nat /\ U16 \in Nat /\ U32 \in Nat /\ U64 - 1 \in Nat
      /\ U8 < U12 /\ U12 < U16 /\ U16 < U32
  BY WidthAssumption
<1>3. 2 ^ U32 \in Nat /\ 2 ^ U32 >= 8 /\ 2 ^ (U64 - 1) \in Nat \ {0}
  <2>1. /\ 2 ^ U8 \in Nat \ {0} /\ 2 ^ U12 \in Nat /\ 2 ^ U16 \in Nat /\ 2 ^ U32 \in Nat
        /\ 2 ^ (U64 - 1) \in Nat \ {0}
    BY <1>2, PowerPositive
  <2>2. 2 * 2 ^ U8 <= 2 ^ U12 /\ 2 * 2 ^ U12 <= 2 ^ U16 /\ 2 * 2 ^ U16 <= 2 ^ U32
    BY <1>2, PowerMonotone
  <2> QED
    BY <2>1, <2>2
<1>4. MaxUint(U32) = 2 ^ U32 - 1
  BY DEF MaxUint
<1>5. 0 \in 0 .. MaxUint(U32) /\ 1 \in 0 .. MaxUint(U32) /\ 2 \in 0 .. MaxUint(U32)
  BY <1>3, <1>4
<1>6. \A n \in 0 .. MaxUint(U32) : n \in GoInts
  BY NarrowInts
<1>7. -1 \in GoInts
  BY <1>3 DEF GoInts
<1>8. MaxUint(U32) \in Nat
  BY <1>3, <1>4
<1> QED
  BY <1>1, <1>5, <1>6, <1>7, <1>8

LEMMA SampleOperands ==
  Operand(<<>>) /\ Operand(<<hex(1)>>) /\ Operand(<<atom("reg")>>) /\ Operand(<<atom("mac")>>)
<1>1. Operand(<<>>)
  BY ShortSequences DEF Operand
<1>2. ASSUME NEW p, p \notin {Comma, Blank, sym("("), sym(")"), sym("->"), atom("ct"),
              atom("resubmit"), atom("resubmit:"), atom("load:"), atom("set_field:")}
      PROVE  Operand(<<p>>)
  BY <1>2, ShortSequences, OnePiece DEF Operand
<1>3. \A w : hex(1) # atom(w)
  BY NumberNoWord
<1>4. \A u, w : atom(u) = atom(w) => u = w
  BY DEF atom
<1>5. Operand(<<hex(1)>>)
  BY <1>2, <1>3, PlainPieces
<1>6. ASSUME NEW w \in {"reg", "mac"} PROVE Operand(<<atom(w)>>)
  <2>1. w \notin {"ct", "resubmit", "resubmit:", "load:", "set_field:"}
    OBVIOUS
  <2>2. atom(w) \notin {atom("ct"), atom("resubmit"), atom("resubmit:"), atom("load:"),
                        atom("set_field:")}
    BY <1>4, <2>1
  <2> QED
    BY <1>2, <2>2, PlainPieces
<1> QED
  BY <1>1, <1>5, <1>6

\* Every action that is asked about, but for SetTunnel's, is one that the
\* parser should read back.
LEMMA ActionsAreTyped ==
  ASSUME NEW a \in Actions, a.type # "setTunnel" PROVE TypedAction(a)
<1> DEFINE ports == {-1, 0, LargestPort, LargestPort + 1}
<1>1. /\ Nums(U16) \subseteq 0 .. MaxUint(U16) /\ TextNums(U12) \subseteq Int
  BY NumsFit
<1>2. ports \subseteq GoInts /\ ports \subseteq Int
  <2>1. LargestPort \in Nat
    BY PortsAreInts
  <2> QED
    BY <2>1, PortsAreInts
<1>3. CASE a \in {textAction(t) : t \in TextActions}
  BY <1>3 DEF TypedAction
<1>4. CASE a \in {ConnectionTracking(t) : t \in CTArgs \cup {<<>>}}
  BY <1>4, CTArgsNest DEF TypedAction
<1>5. CASE a \in UNION {{ModDataLinkSource(v), ModDataLinkDestination(v)} :
                         v \in {MACs["mac"], MACs["eui64"]}}
  <2>1. MACs["mac"] \in HardwareAddrs /\ MACs["eui64"] \in HardwareAddrs
    BY DEF HardwareAddrs, MACs
  <2> QED
    BY <1>5, <2>1 DEF TypedAction
<1>6. CASE a \in UNION {{ModNetworkSource(v), ModNetworkDestination(v)} :
                         v \in {IPs[x] : x \in DOMAIN IPs}}
  BY <1>6 DEF TypedAction
<1>7. CASE a \in UNION {{ModTransportSourcePort(n), ModTransportDestinationPort(n)} :
                         n \in Nums(U16)}
  BY <1>1, <1>7 DEF TypedAction
<1>8. CASE a \in {ModVLANVID(n) : n \in TextNums(U12)} \cup {ResubmitPort(n) : n \in ports}
  <2> HIDE DEF ports
  <2> QED
    BY <1>1, <1>2, <1>8 DEF TypedAction
<1>9. CASE a \in {Output(n) : n \in ports}
  <2> HIDE DEF ports
  <2> QED
    BY <1>2, <1>9 DEF TypedAction
<1>10. CASE a \in {Resubmit(p, t) : p, t \in {0, 1, LargestPort}}
  <2>1. PICK p \in {0, 1, LargestPort}, t \in {0, 1, LargestPort} : a = Resubmit(p, t)
    BY <1>10
  <2>2. p \in Nat /\ p \in GoInts /\ t \in Nat /\ t \in GoInts
    BY PortsAreInts
  <2> QED
    BY <2>1, <2>2 DEF TypedAction
<1>11. CASE a \in {Conjunction(i, n, k) : i \in {0, LargestPort}, n, k \in {0, 1, 2}}
  <2>1. PICK i \in {0, LargestPort}, n \in {0, 1, 2}, k \in {0, 1, 2} : a = Conjunction(i, n, k)
    BY <1>11
  <2>2. i \in GoInts /\ n \in GoInts /\ k \in GoInts
    BY PortsAreInts
  <2> QED
    BY <2>1, <2>2 DEF TypedAction
<1>12. CASE a \in {Load(v, f) : v \in {<<>>, <<hex(1)>>}, f \in {<<>>, <<atom("reg")>>}}
  <2>1. PICK v \in {<<>>, <<hex(1)>>}, f \in {<<>>, <<atom("reg")>>} : a = Load(v, f)
    BY <1>12
  <2>2. Operand(v) /\ Operand(f)
    BY SampleOperands
  <2> QED
    BY <2>1, <2>2 DEF TypedAction
<1>13. CASE a \in {SetField(v, <<atom("reg")>>) : v \in {<<hex(1)>>, <<atom("mac")>>}}
  <2>1. PICK v \in {<<hex(1)>>, <<atom("mac")>>} : a = SetField(v, <<atom("reg")>>)
    BY <1>13
  <2>2. Operand(v) /\ Operand(<<atom("reg")>>)
    BY SampleOperands
  <2> QED
    BY <2>1, <2>2 DEF TypedAction
<1>14. a \notin {SetTunnel(n) : n \in Nums(U64)}
  BY DEF SetTunnel
<1> QED
  BY <1>3, <1>4, <1>5, <1>6, <1>7, <1>8, <1>9, <1>10, <1>11, <1>12, <1>13, <1>14
     DEF Actions

\* A text is of numbers, or of flags.
FlagText(key, parts) ==
  key \in {"ct_state", "tcp_flags"} /\ \E fl : ~Recut(fl) /\ parts = Joined(fl)

\* What a question of each kind is about: all that the answers depend on.
Asked ==
  /\ query.kind = "range" => query.start \in Ports /\ query.end \in Ports
  /\ query.kind = "match" => TypedMatch(query.match)
  /\ query.kind = "text" =>
       NumberText(query.key, query.parts) \/ FlagText(query.key, query.parts)
  /\ query.kind = "actions" =>
       /\ IsSequence(query.actions) /\ Len(query.actions) = 2
       /\ \A i \in 1 .. 2 :
            /\ IsAction(query.actions[i])
            /\ query.actions[i].type # "setTunnel" => TypedAction(query.actions[i])
  /\ query.kind = "flow" => query.flow \in Flows /\ query.into \in {Flow, UsedFlow}
  /\ query.kind = "families" =>
       /\ query.listed \in BOOLEAN /\ query.families \in Seq(OvsPrefix \cup {"nlctrl"})
       /\ IsInjective(query.families)
  /\ query.kind = "messages" => query.msgs \in Seq(Messages({1, 2}, AttrTypes, {1, 2}))

\* The widths of the keys.
LEMMA KeyWidths ==
  ASSUME NEW key \in DOMAIN NumberKeys PROVE NumberKeys[key] \in {U8, U12, U16, U32, U64}
BY DEF NumberKeys

LEMMA AskTextAsked == AskText => Asked'
<1>1. ASSUME NEW key \in DOMAIN NumberKeys, NEW p \in Pieces(NumberKeys[key]),
             query' = [kind |-> "text", key |-> key, parts |-> <<p>>]
      PROVE  Asked'
  <2>1. p \in NumberPieces
    BY KeyWidths, PiecesAreNumbers
  <2>2. NumberText(key, <<p>>)
    BY <2>1 DEF NumberText
  <2> QED
    BY <1>1, <2>2 DEF Asked
<1>2. ASSUME NEW key \in MaskKeys, NEW p \in Pieces(NumberKeys[key]),
             NEW k \in Pieces(NumberKeys[key]),
             query' = [kind |-> "text", key |-> key, parts |-> <<p, k>>]
      PROVE  Asked'
  <2>1. key \in DOMAIN NumberKeys
    BY DEF MaskKeys, NumberKeys
  <2>2. p \in NumberPieces /\ k \in NumberPieces
    BY <2>1, KeyWidths, PiecesAreNumbers
  <2>3. NumberText(key, <<p, k>>)
    BY <2>1, <2>2 DEF NumberText
  <2> QED
    BY <1>2, <2>3 DEF Asked
<1>3. ASSUME NEW key \in {"ct_state", "tcp_flags"}, NEW fl \in FlagLists \cup OddFlags,
             query' = [kind |-> "text", key |-> key, parts |-> Joined(fl)]
      PROVE  Asked'
  <2>1. FlagText(key, Joined(fl))
    BY FlagListsAre, OddFlagsAre DEF FlagText
  <2> QED
    BY <1>3, <2>1 DEF Asked
<1> QED
  BY <1>1, <1>2, <1>3 DEF AskText

LEMMA AskFamiliesAsked == AskFamilies => Asked'
<1>1. ASSUME NEW n \in 0 .. 5, NEW fs \in [1 .. n -> OvsPrefix \cup {"nlctrl"}]
      PROVE  fs \in Seq(OvsPrefix \cup {"nlctrl"})
  <2>1. n \in Nat
    OBVIOUS
  <2> QED
    BY <2>1, SeqDef
<1>2. ASSUME NEW fs \in Seq(OvsPrefix \cup {"nlctrl"}), NEW listed \in BOOLEAN,
             IsInjective(fs),
             query' = [kind |-> "families", families |-> fs, listed |-> listed]
      PROVE  Asked'
  BY <1>2 DEF Asked
<1> QED
  BY <1>1, <1>2 DEF AskFamilies

LEMMA AskMessagesAsked == AskMessages => Asked'
<1> DEFINE A == Attributes(AttrTypes, {1, 2})
           M == Messages({1, 2}, AttrTypes, {1, 2})
<1>1. Attrs \subseteq A
  BY DEF Attrs, Attributes
<1>2. ASSUME NEW n \in 0 .. 2, NEW as \in [1 .. n -> Attrs] PROVE as \in Seq(A)
  <2>1. n \in Nat
    OBVIOUS
  <2>2. as \in [1 .. n -> A]
    BY <1>1
  <2> QED
    BY <2>1, <2>2, SeqDef
<1>3. ASSUME NEW h \in {0, 4}, NEW torn \in BOOLEAN, NEW as \in Seq(A),
             query' = [kind |-> "messages",
                       msgs |-> <<[header |-> 4, ifindex |-> 1, attrs |-> <<>>,
                                   torn |-> FALSE],
                                  [header |-> h, ifindex |-> 2, attrs |-> as,
                                   torn |-> torn]>>]
      PROVE  Asked'
  <2>1. <<>> \in Seq(A)
    OBVIOUS
  <2>2. [header |-> 4, ifindex |-> 1, attrs |-> <<>>, torn |-> FALSE] \in M
    BY <2>1 DEF Messages
  <2>3. [header |-> h, ifindex |-> 2, attrs |-> as, torn |-> torn] \in M
    <3>1. h \in Int
      OBVIOUS
    <3> QED
      BY <3>1 DEF Messages
  <2>4. query'.kind = "messages" /\ query'.msgs \in Seq(M)
    <3> HIDE DEF M
    <3> QED
      BY <1>3, <2>2, <2>3
  <2> QED
    BY <2>4 DEF Asked
<1> QED
  BY <1>2, <1>3 DEF AskMessages

\* Every question is one the answers of which the theorems are about.
LEMMA AlwaysAsked == LibrarySpec => []Asked
<1>1. query = NoQuery => Asked
  BY DEF NoQuery, Asked
<1>2. ASSUME Asked, [Ask]_query PROVE Asked'
  <2>1. CASE AskRange
    BY <2>1 DEF AskRange, Asked
  <2>2. CASE AskMatch
    <3>1. PICK m \in Matches : query' = [kind |-> "match", match |-> m]
      BY <2>2 DEF AskMatch
    <3>2. TypedMatch(m)
      BY MatchesAreTyped
    <3> QED
      BY <3>1, <3>2 DEF Asked
  <2>3. CASE AskText
    BY <2>3, AskTextAsked
  <2>4. CASE AskAction
    <3>1. PICK a \in Actions, b \in Actions :
            query' = [kind |-> "actions", actions |-> <<a, b>>]
      BY <2>4 DEF AskAction
    <3>2. IsAction(a) /\ IsAction(b)
      BY ActionsAreActions
    <3>3. /\ a.type # "setTunnel" => TypedAction(a)
          /\ b.type # "setTunnel" => TypedAction(b)
      BY ActionsAreTyped
    <3>4. IsSequence(<<a, b>>) /\ Len(<<a, b>>) = 2 /\ <<a, b>>[1] = a /\ <<a, b>>[2] = b
      BY ShortSequences
    <3>5. query'.kind = "actions" /\ query'.actions = <<a, b>>
      BY <3>1
    <3>6. /\ IsSequence(query'.actions) /\ Len(query'.actions) = 2
          /\ query'.actions[1] = a /\ query'.actions[2] = b
      BY <3>4, <3>5
    <3>7. \A i \in 1 .. 2 :
            /\ IsAction(query'.actions[i])
            /\ query'.actions[i].type # "setTunnel" => TypedAction(query'.actions[i])
      <4>1. \A i \in 1 .. 2 : i = 1 \/ i = 2
        OBVIOUS
      <4> QED
        BY <3>2, <3>3, <3>6, <4>1
    <3> QED
      BY <3>5, <3>6, <3>7 DEF Asked
  <2>5. CASE AskFlow
    <3>1. PICK f \in Flows, used \in BOOLEAN :
            query' = [kind |-> "flow", flow |-> f, into |-> IF used THEN UsedFlow ELSE Flow]
      BY <2>5 DEF AskFlow
    <3> QED
      BY <3>1 DEF Asked
  <2>6. CASE AskDump
    BY <2>6 DEF AskDump, Asked
  <2>7. CASE AskAggregate
    BY <2>7 DEF AskAggregate, Asked
  <2>8. CASE AskFamilies
    BY <2>8, AskFamiliesAsked
  <2>9. CASE AskMessages
    BY <2>9, AskMessagesAsked
  <2>10. CASE UNCHANGED query
    BY <1>2, <2>10 DEF Asked
  <2> QED
    BY <1>2, <2>1, <2>2, <2>3, <2>4, <2>5, <2>6, <2>7, <2>8, <2>9, <2>10 DEF Ask
<1> QED
  BY <1>1, <1>2, PTL DEF LibrarySpec

\* What ovs-ofctl selects by the masked ports of a range is always the range.
THEOREM CoverIsExact == LibrarySpec => []ExactCover
<1>1. Asked => ExactCover
  BY MaskedPortsCover DEF Asked, ExactCover
<1> QED
  BY <1>1, AlwaysAsked, PTL

\* BitwiseMatch always gives as few aligned blocks as cover the range, in order.
THEOREM CoverIsCoarsest == LibrarySpec => []CoarsestInOrder
<1>1. Asked => CoarsestInOrder
  BY BitwiseMatchCoarsest DEF Asked, CoarsestInOrder
<1> QED
  BY <1>1, AlwaysAsked, PTL

\* The parser always reads back what MarshalText of a match wrote, and keeps
\* a text of flags or refuses it.
THEOREM MatchesAreReadBack == LibrarySpec => []MatchRoundTrip
<1>1. Asked => MatchRoundTrip
  <2>1. SUFFICES ASSUME Asked PROVE MatchRoundTrip
    OBVIOUS
  <2>2. ASSUME query.kind = "match" PROVE RoundTrips(query.match)
    BY <2>1, <2>2, MatchesRoundTrip DEF Asked
  <2>3. ASSUME query.kind = "text", query.key \in {"ct_state", "tcp_flags"}
        PROVE  FlagsKept(query.key, query.parts)
    <3>1. ~NumberText(query.key, query.parts)
      BY <2>3 DEF NumberText, NumberKeys
    <3>2. PICK fl : ~Recut(fl) /\ query.parts = Joined(fl)
      BY <2>1, <2>3, <3>1 DEF Asked, FlagText
    <3> QED
      BY <2>3, <3>2, FlagsRead
  <2> QED
    BY <2>2, <2>3 DEF MatchRoundTrip
<1> QED
  BY <1>1, AlwaysAsked, PTL

\* Numbers that fit always survive being parsed and marshalled, and larger
\* ones are refused where the parser clamps.
THEOREM NumbersAlwaysKept == LibrarySpec => []NumbersKept
<1>1. Asked => NumbersKept
  <2>1. SUFFICES ASSUME Asked, query.kind = "text", query.key \in DOMAIN NumberKeys,
                        SameBase(query.key, query.parts)
                 PROVE  KeepsNumbers(query.key, query.parts)
    BY DEF NumbersKept
  <2>2. ~FlagText(query.key, query.parts)
    BY <2>1 DEF FlagText, NumberKeys
  <2>3. NumberText(query.key, query.parts)
    BY <2>1, <2>2 DEF Asked
  <2> QED
    BY <2>1, <2>3, NumbersAreKept
<1> QED
  BY <1>1, AlwaysAsked, PTL

\* GoString of a match or an action is always Go source for it.
THEOREM GoSourceDenotes == LibrarySpec => []GoStringDenotes
<1>1. Asked => GoStringDenotes
  <2>1. SUFFICES ASSUME Asked PROVE GoStringDenotes
    OBVIOUS
  <2>2. ASSUME query.kind = "match" PROVE MatchDenoted(query.match)
    BY <2>1, <2>2, TypedMatchesAreMatches, MatchSourceDenotes DEF Asked
  <2>3. ASSUME query.kind = "actions", ActionText(query.actions[1]).ok
        PROVE  ActionDenoted(query.actions[1])
    BY <2>1, <2>3, ActionSourceDenotes DEF Asked
  <2> QED
    BY <2>2, <2>3 DEF GoStringDenotes
<1> QED
  BY <1>1, AlwaysAsked, PTL

\* Two actions that marshal, joined by a comma, are always cut apart and read
\* back.
THEOREM ActionsAlwaysReadBack == LibrarySpec => []ActionsRoundTrip
<1>1. Asked => ActionsRoundTrip
  <2> DEFINE texts == [i \in 1 .. 2 |-> ActionText(query.actions[i])]
             vals  == [i \in 1 .. 2 |-> texts[i].val]
             out   == ParseActions(JoinActions(vals))
  <2>1. SUFFICES ASSUME Asked, query.kind = "actions",
                        \A i \in 1 .. 2 : texts[i].ok /\ query.actions[i].type # "setTunnel"
                 PROVE  out.ok /\ out.val.actions = query.actions
    BY Zenon DEF ActionsRoundTrip
  <2>2. /\ IsSequence(query.actions) /\ Len(query.actions) = 2
        /\ \A i \in 1 .. 2 : TypedAction(query.actions[i])
    BY <2>1 DEF Asked
  <2>3. DOMAIN query.actions = 1 .. 2 /\ query.actions # <<>>
    <3>1. Len(<<>>) = 0
      OBVIOUS
    <3> QED
      BY <2>2, <3>1, NotEmpty
  <2>4. vals = Texts(query.actions)
    BY <2>3 DEF Texts
  <2>5. \A i \in DOMAIN query.actions :
          TypedAction(query.actions[i]) /\ ActionText(query.actions[i]).ok
    BY <2>1, <2>2, <2>3
  <2>6. out = Ok([actions |-> query.actions, raw |-> Texts(query.actions)])
    BY <2>2, <2>3, <2>4, <2>5, ActionsReadBack, Zenon
  <2> HIDE DEF out
  <2>7. out.ok /\ out.val = [actions |-> query.actions, raw |-> Texts(query.actions)]
    BY <2>6, Succeeds
  <2> QED
    BY <2>7
<1> QED
  BY <1>1, AlwaysAsked, PTL

\* Deleting by MatchFlow always deletes the flow, and no flow that differs in
\* what it sets.
THEOREM MatchFlowAlwaysSelects == LibrarySpec => []MatchFlowSelects
<1>1. Asked => MatchFlowSelects
  BY OutputFlowsAgree DEF Asked, MatchFlowSelects
<1> QED
  BY <1>1, AlwaysAsked, PTL

\* New always returns a client that is ready, or closes the connection.
THEOREM ClientAlwaysReady == LibrarySpec => []ClientReady
<1>1. Asked => ClientReady
  BY NewClientReady DEF Asked, ClientReady
<1> QED
  BY <1>1, AlwaysAsked, PTL

\* List always returns every datapath whole, or an error, but for a features
\* attribute of a size the kernel does not give it.
THEOREM DatapathsAlwaysWhole == LibrarySpec => []DatapathWhole
<1>1. Asked => DatapathWhole
  BY ReplyDecodedWhole DEF Asked, DatapathWhole
<1> QED
  BY <1>1, AlwaysAsked, PTL
----------------------------------------------------------------------------
(* The flows that LibrarySpec asks about.                                  *)

LEMMA ZoneNests ==
  Nested(<<atom("commit"), Comma, atom("zone")>>, 1)
  /\ \A k \in DOMAIN <<atom("commit"), Comma, atom("zone")>> :
       <<atom("commit"), Comma, atom("zone")>>[k] # Blank
<1> DEFINE t == <<atom("commit"), Comma, atom("zone")>>
           d == [k \in 0 .. 3 |-> 1]
<1>1. /\ Len(t) = 3 /\ DOMAIN t = 1 .. 3 /\ t[1] = atom("commit") /\ t[2] = Comma
      /\ t[3] = atom("zone") /\ t \in Seq({atom("commit"), Comma, atom("zone")})
  OBVIOUS
<1>2. /\ \A w : atom(w) \notin {Comma, Blank, sym("("), sym(")")}
      /\ Comma \notin {Blank, sym("("), sym(")")}
  BY PlainPieces, Symbols
<1>3. Moves(atom("commit"), 1, 1) /\ Moves(Comma, 1, 1) /\ Moves(atom("zone"), 1, 1)
  BY <1>2 DEF Moves
<1>4. d \in [0 .. 3 -> Nat] /\ \A k \in 0 .. 3 : d[k] = 1
  OBVIOUS
<1> HIDE DEF t, d
<1>5. IsSequence(t)
  BY <1>1 DEF IsSequence
<1>6. ASSUME NEW k \in 1 .. 3 PROVE Moves(t[k], d[k - 1], d[k]) /\ t[k] # Blank
  <2>1. d[k - 1] = 1 /\ d[k] = 1 /\ (k = 1 \/ k = 2 \/ k = 3)
    BY <1>4
  <2>2. t[k] \in {atom("commit"), Comma, atom("zone")}
    BY <1>1, <2>1
  <2> QED
    BY <1>2, <1>3, <2>1, <2>2
<1>7. Nested(t, 1)
  BY <1>1, <1>4, <1>5, <1>6 DEF Nested
<1> QED
  BY <1>1, <1>6, <1>7 DEF t

SampleActions ==
  {Drop, Output(1), ConnectionTracking(<<atom("commit"), Comma, atom("zone")>>), Resubmit(0, 1)}

LEMMA SampleFlowActions ==
  ASSUME NEW acts \in FlowActions
  PROVE  IsSequence(acts) /\ \A i \in DOMAIN acts : acts[i] \in SampleActions
<1> DEFINE c == ConnectionTracking(<<atom("commit"), Comma, atom("zone")>>)
           r == Resubmit(0, 1)
           o == Output(1)
<1>1. acts \in {<<>>, <<Drop>>, <<o>>, <<o, Drop>>, <<Drop, Drop>>, <<c, r>>}
  BY Zenon DEF FlowActions, Comma
<1>2. SampleActions = {Drop, o, c, r}
  BY Zenon DEF SampleActions
<1> HIDE DEF c, r, o
<1>3. IsSequence(acts) /\ Elements(acts) \subseteq {Drop, o, c, r}
  BY <1>1, ShortSequences
<1> QED
  BY <1>2, <1>3 DEF Elements

LEMMA SampleActionsMarshal ==
  ASSUME NEW a \in SampleActions PROVE TypedAction(a) /\ ActionText(a).ok
<1>1. TypedAction(Drop) /\ ActionText(Drop).ok
  <2>1. TypedAction(Drop)
    BY DEF TypedAction, Drop, TextActions
  <2>2. ActionText(Drop) = Ok(<<atom("drop")>>)
    BY DEF ActionText, textAction_MarshalText, Drop, textAction
  <2> QED
    BY <2>1, <2>2, Succeeds
<1>2. TypedAction(Output(1)) /\ ActionText(Output(1)).ok
  <2>1. TypedAction(Output(1))
    BY PortsAreInts DEF TypedAction
  <2>2. ActionText(Output(1)) = Ok(<<atom("output:"), dec(1)>>)
    BY DEF ActionText, Output, outputAction_MarshalText, Colon
  <2> QED
    BY <2>1, <2>2, Succeeds
<1> DEFINE t == <<atom("commit"), Comma, atom("zone")>>
           c == ConnectionTracking(t)
<1>3. TypedAction(c) /\ ActionText(c).ok
  <2>1. Nested(t, 1) /\ (\A k \in DOMAIN t : t[k] # Blank)
    BY ZoneNests
  <2>2. t # <<>>
    OBVIOUS
  <2> HIDE DEF t
  <2>3. TypedAction(c)
    BY <2>1 DEF TypedAction
  <2>4. c.type = "ct" /\ c.args = t
    BY DEF ConnectionTracking
  <2> HIDE DEF c
  <2>5. ActionText(c) = ctAction_MarshalText(c)
    BY <2>4 DEF ActionText
  <2> DEFINE z == <<atom("ct"), sym("(")>> \o t \o <<sym(")")>>
  <2>6. ctAction_MarshalText(c) = Ok(z)
    BY <2>2, <2>4, Zenon DEF ctAction_MarshalText
  <2> HIDE DEF z
  <2> QED
    BY <2>3, <2>5, <2>6, Succeeds
<1> DEFINE r == Resubmit(0, 1)
<1>4. TypedAction(r) /\ ActionText(r).ok
  <2>1. TypedAction(r)
    BY PortsAreInts DEF TypedAction
  <2>2. r.type = "resubmit" /\ r.port = 0 /\ r.table = 1
    BY DEF Resubmit
  <2> HIDE DEF r
  <2>3. ActionText(r) = resubmitAction_MarshalText(r)
    BY <2>2 DEF ActionText
  <2>4. ~(r.port = 0 /\ r.table = 0)
    BY <2>2
  <2>5. PICK z : resubmitAction_MarshalText(r) = Ok(z)
    BY <2>4, Zenon DEF resubmitAction_MarshalText
  <2> QED
    BY <2>1, <2>3, <2>5, Succeeds
<1>5. a = Drop \/ a = Output(1) \/ a = c \/ a = r
  BY Zenon DEF SampleActions
<1> QED
  BY <1>1, <1>2, <1>3, <1>4, <1>5, Zenon

LEMMA TenFits == 10 \in GoInts
<1>1. /\ U8 \in Nat \ {0} /\ U12 \in Nat /\ U16 \in Nat /\ U32 \in Nat /\ 0 < U8
      /\ U8 < U12 /\ U12 < U16 /\ U16 < U32
  BY WidthAssumption
<1>2. /\ 2 ^ U8 \in Nat /\ 2 ^ U12 \in Nat /\ 2 ^ U16 \in Nat /\ 2 ^ U32 \in Nat
  BY <1>1, PowerPositive
<1>3. 2 ^ 0 \in Nat \ {0}
  BY PowerPositive
<1>4. 2 * 2 ^ 0 <= 2 ^ U8 /\ 2 * 2 ^ U8 <= 2 ^ U12 /\ 2 * 2 ^ U12 <= 2 ^ U16 /\ 2 * 2 ^ U16 <= 2 ^ U32
  BY <1>1, PowerMonotone
<1>5. 2 ^ U32 >= 16
  BY <1>2, <1>3, <1>4
<1>6. 10 \in 0 .. MaxUint(U32)
  BY <1>2, <1>5 DEF MaxUint
<1> QED
  BY <1>6, NarrowInts

LEMMA SampleMatchesTyped ==
  ASSUME NEW m \in {TransportDestinationPort(1), DataLinkSource(<<atom("MAC")>>)}
  PROVE  TypedMatch(m)
<1>1. TypedMatch(TransportDestinationPort(1))
  <2>1. 0 \in 0 .. MaxUint(U16) /\ 1 \in 0 .. MaxUint(U16)
    <3>1. U16 \in Nat /\ 0 < U16
      BY WidthAssumption
    <3>2. 2 ^ U16 \in Nat /\ 2 ^ 0 \in Nat \ {0} /\ 2 * 2 ^ 0 <= 2 ^ U16
      BY <3>1, PowerPositive, PowerMonotone
    <3> QED
      BY <3>2 DEF MaxUint
  <2> QED
    BY <2>1, Zenon DEF TypedMatch, TransportDestinationPort
<1>2. TypedMatch(DataLinkSource(<<atom("MAC")>>))
  <2>1. <<atom("MAC")>> \in Seq({atom("MAC")})
    OBVIOUS
  <2> QED
    BY <2>1, Zenon DEF TypedMatch, DataLinkSource
<1> QED
  BY <1>1, <1>2

LEMMA FlowsAreTyped ==
  ASSUME NEW f \in Flows PROVE TypedFlow(f) /\ ActionsMarshal(f) /\ MatchesMarshal(f)
<1>1. /\ f.priority \in {0, 10} /\ f.inPort \in {0, 1, PortLOCAL} /\ f.table \in {0, 1}
      /\ f.idleTimeout \in {0} /\ f.cookie \in {0, 2 ^ U64 - 1}
      /\ f.matches \in FlowMatches /\ f.actions \in FlowActions
  BY DEF Flows
<1>2. /\ f.priority \in GoInts /\ f.inPort \in GoInts /\ f.table \in GoInts
      /\ f.idleTimeout \in GoInts
  BY <1>1, PortsAreInts, TenFits DEF PortLOCAL
<1>3. f.cookie \in 0 .. MaxUint(U64)
  BY <1>1, LimitIs
<1>4. /\ IsSequence(f.matches)
      /\ \A i \in DOMAIN f.matches : TypedMatch(f.matches[i]) /\ MatchText(f.matches[i]).ok
  BY <1>1, SampleFlowMatches, SampleMatches, SampleMatchesTyped DEF Marshals
<1>5. /\ IsSequence(f.actions)
      /\ \A i \in DOMAIN f.actions : TypedAction(f.actions[i]) /\ ActionText(f.actions[i]).ok
  BY <1>1, SampleFlowActions, SampleActionsMarshal
<1> QED
  BY <1>2, <1>3, <1>4, <1>5 DEF TypedFlow, ActionsMarshal, MatchesMarshal

Reused(F, x, y) == [F EXCEPT !.matches = x, !.actions = y]

LEMMA UsedAgain ==
  ASSUME NEW p, NEW w, NEW i, NEW ms, NEW t, NEW d, NEW c, NEW a, NEW x, NEW y
  PROVE  Reused(FlowOf(p, w, i, ms, t, d, c, a), x, y) = FlowOf(p, w, i, x, t, d, c, y)
<1> DEFINE F == FlowOf(p, w, i, ms, t, d, c, a)
           G == FlowOf(p, w, i, x, t, d, c, a)
<1>1. [F EXCEPT !.matches = x] = G
  BY DEF FlowOf
<1>2. [G EXCEPT !.actions = y] = FlowOf(p, w, i, x, t, d, c, y)
  BY DEF FlowOf
<1> HIDE DEF F, G
<1>3. [F EXCEPT !.matches = x, !.actions = y] = [[F EXCEPT !.matches = x] EXCEPT !.actions = y]
  OBVIOUS
<1>4. [F EXCEPT !.matches = x, !.actions = y] = FlowOf(p, w, i, x, t, d, c, y)
  BY <1>1, <1>2, <1>3
<1> QED
  BY <1>4 DEF F, Reused

LEMMA BothCanHold ==
  ASSUME NEW f, NEW into \in {Flow, UsedFlow} PROVE CanHold(into, f)
<1>1. Flow = FlowOf(0, NoProtocol, 0, <<>>, 0, 0, 0, <<>>)
  BY Zenon DEF Flow, FlowOf, NoProtocol
<1>2. \E ms, a : into = FlowOf(0, NoProtocol, 0, ms, 0, 0, 0, a)
  <2>1. CASE into = Flow
    BY <1>1, <2>1
  <2>2. CASE into = UsedFlow
    <3> DEFINE x == <<ICMPType(1)>>
               y == <<Flood>>
    <3>1. into = Reused(FlowOf(0, NoProtocol, 0, <<>>, 0, 0, 0, <<>>), x, y)
      BY <1>1, <2>2, Zenon DEF UsedFlow, Reused
    <3> HIDE DEF x, y
    <3>2. into = FlowOf(0, NoProtocol, 0, x, 0, 0, 0, y)
      BY <3>1, UsedAgain
    <3> QED
      BY <3>2, Zenon
  <2> QED
    BY <2>1, <2>2
<1>3. PICK ms, a : into = FlowOf(0, NoProtocol, 0, ms, 0, 0, 0, a)
  BY <1>2
<1>4. IsFlowRecord(into) /\ into.protocol = NoProtocol /\ into.inPort = 0 /\ into.cookie = 0
  BY <1>3, FlowOfIs DEF IsFlowRecord
<1> QED
  BY <1>4 DEF CanHold

\* A flow that is marshalled is always read back and marshals the same again.
THEOREM FlowsAlwaysReadBack == LibrarySpec => []FlowRoundTrip
<1>1. Asked => FlowRoundTrip
  <2> DEFINE text == Flow_MarshalText(query.flow)
             back == Flow_UnmarshalText(query.into, text.val)
  <2>1. SUFFICES ASSUME Asked, query.kind = "flow", text.ok
                 PROVE  ~back.err /\ Flow_MarshalText(back.flow) = text
    BY Zenon DEF FlowRoundTrip
  <2>2. query.flow \in Flows /\ query.into \in {Flow, UsedFlow}
    BY <2>1 DEF Asked
  <2>3. TypedFlow(query.flow) /\ CanHold(query.into, query.flow)
    BY <2>2, FlowsAreTyped, BothCanHold
  <2>4. back = Done(AsRead(query.flow)) /\ Flow_MarshalText(AsRead(query.flow)) = text
    BY <2>1, <2>3, FlowsReadBack
  <2> HIDE DEF back, text
  <2>5. back.err = FALSE /\ back.flow = AsRead(query.flow)
    BY <2>4 DEF Done
  <2> QED
    BY <2>4, <2>5
<1> QED
  BY <1>1, AlwaysAsked, PTL

\* A flow is always written, and its actions read, just if drop stands alone.
THEOREM DropAlwaysAlone == LibrarySpec => []DropAlone
<1>1. Asked => DropAlone
  <2> DEFINE f == query.flow
             acts == f.actions
             alone == Len(acts) = 1 \/ \A i \in DOMAIN acts : acts[i] # Drop
             read == [fields |-> <<>>, actions |-> <<JoinActions(marshalActions(f).val)>>]
  <2>1. SUFFICES ASSUME Asked, query.kind = "flow", acts # <<>>
                 PROVE  /\ Flow_MarshalText(f).ok <=> alone
                        /\ Flow_UnmarshalText(query.into, read).err <=> ~alone
    BY Zenon DEF DropAlone
  <2>2. f \in Flows
    BY <2>1 DEF Asked
  <2>3. TypedFlow(f) /\ ActionsMarshal(f) /\ MatchesMarshal(f)
    BY <2>2, FlowsAreTyped
  <2>4. marshalActions(f).val = Texts(acts)
    BY <2>3, ActionsWritten
  <2>5. alone <=> OnlyAction(acts)
    BY DEF OnlyAction
  <2>6. /\ Flow_MarshalText(f).ok <=> OnlyAction(acts)
        /\ Flow_UnmarshalText(query.into, [fields  |-> <<>>,
                                           actions |-> <<JoinActions(Texts(acts))>>]).err
           <=> ~OnlyAction(acts)
    BY <2>1, <2>3, DropIsAlone
  <2> QED
    BY <2>4, <2>5, <2>6, Zenon
<1> QED
  BY <1>1, AlwaysAsked, PTL
=============================================================================
