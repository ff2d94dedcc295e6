--------------------------- MODULE DataInduction ---------------------------
(***************************************************************************)
(* Induction over numbers in a form without operator parameters: what is   *)
(* shown by induction is a set of numbers, and what a recursion computes   *)
(* is a function.  All of it rests on the fact that every set of natural   *)
(* numbers has a least element.  Powers of two and division follow.        *)
(***************************************************************************)
EXTENDS Integers, FiniteSets, WellFoundedInduction, FunctionTheorems,
        FiniteSetTheorems, TLAPS

----------------------------------------------------------------------------
(* Induction.                                                              *)

\* A set of natural numbers that is not empty has a least element.
LEMMA LeastNumber ==
  ASSUME NEW T \in SUBSET Nat, T # {}
  PROVE  \E x \in T : \A y \in T : x <= y
<1> DEFINE Less == {s \in Nat \X Nat : s[1] < s[2]}
<1>1. OpToRel(<, Nat) = Less
  BY DEF OpToRel
<1>2. IsWellFoundedOn(Less, Nat)
  BY <1>1, NatLessThanWellFounded
<1>3. PICK x \in T : \A y \in T : ~(<<y, x>> \in Less)
  <2> HIDE DEF Less
  <2> QED
    BY <1>2, WFMin
<1>4. ASSUME NEW y \in T PROVE x <= y
  <2>1. <<y, x>> \in Nat \X Nat /\ ~(y < x)
    BY <1>3
  <2> QED
    BY <2>1
<1> QED
  BY <1>4

\* A set of numbers below a bound that is not empty has a largest element.
LEMMA LargestNumber ==
  ASSUME NEW n \in Nat, NEW T \in SUBSET (0 .. n), T # {}
  PROVE  \E x \in T : \A y \in T : y <= x
<1> DEFINE U == {n - y : y \in T}
<1>1. U \in SUBSET Nat /\ U # {}
  <2>1. PICK y : y \in T
    OBVIOUS
  <2>2. n - y \in U
    BY <2>1
  <2>3. U \in SUBSET Nat
    OBVIOUS
  <2> QED
    BY <2>2, <2>3
<1>2. PICK u \in U : \A y \in U : u <= y
  BY <1>1, LeastNumber
<1>3. PICK x \in T : u = n - x
  BY <1>2
<1>4. ASSUME NEW y \in T PROVE y <= x
  <2>1. u <= n - y
    BY <1>2
  <2> QED
    BY <1>3, <2>1
<1> QED
  BY <1>4

\* Induction: the numbers of which something is true are a set S.
LEMMA InductionOnSet ==
  ASSUME NEW S, 0 \in S, \A n \in Nat : n \in S => n + 1 \in S
  PROVE  Nat \subseteq S
<1> SUFFICES ASSUME Nat \ S # {} PROVE FALSE
  OBVIOUS
<1>1. PICK x \in Nat \ S : \A y \in Nat \ S : x <= y
  BY LeastNumber
<1>2. x # 0 /\ x - 1 \in Nat
  BY <1>1
<1>3. x - 1 \in S
  BY <1>1, <1>2
<1> QED
  BY <1>1, <1>2, <1>3

\* The same up to a bound.
LEMMA InductionUpTo ==
  ASSUME NEW N \in Nat, NEW S, 0 \in S,
         \A n \in 0 .. N - 1 : n \in S => n + 1 \in S
  PROVE  0 .. N \subseteq S
<1> DEFINE T == {n \in Nat : n <= N => n \in S}
<1>1. 0 \in T
  OBVIOUS
<1>2. ASSUME NEW n \in Nat, n \in T PROVE n + 1 \in T
  <2>1. CASE n + 1 <= N
    BY <1>2, <2>1
  <2> QED
    BY <1>2, <2>1
<1>3. Nat \subseteq T
  <2> HIDE DEF T
  <2> QED
    BY <1>1, <1>2, InductionOnSet
<1> QED
  BY <1>3

\* Induction from every smaller number.
LEMMA StrongInductionOnSet ==
  ASSUME NEW S, \A n \in Nat : (\A k \in 0 .. n - 1 : k \in S) => n \in S
  PROVE  Nat \subseteq S
<1> SUFFICES ASSUME Nat \ S # {} PROVE FALSE
  OBVIOUS
<1>1. PICK x \in Nat \ S : \A y \in Nat \ S : x <= y
  BY LeastNumber
<1>2. \A k \in 0 .. x - 1 : k \in S
  BY <1>1
<1> QED
  BY <1>1, <1>2

----------------------------------------------------------------------------
(* Recursion: a function whose value at n is computed from its values      *)
(* below n exists.                                                         *)

\* G[n] gives the value at n from a function, of which it looks only at the
\* values below n.
LooksBelow(N, V, G) ==
  /\ G \in [0 .. N -> [[0 .. N -> V] -> V]]
  /\ \A n \in 0 .. N : \A g, h \in [0 .. N -> V] :
       (\A k \in 0 .. n - 1 : g[k] = h[k]) => G[n][g] = G[n][h]

LEMMA RecursionExists ==
  ASSUME NEW N \in Nat, NEW V, NEW v \in V, NEW G, LooksBelow(N, V, G)
  PROVE  \E f \in [0 .. N -> V] : \A n \in 0 .. N : f[n] = G[n][f]
<1> DEFINE F == [0 .. N -> V]
           Upto(n, g) == \A k \in 0 .. n : g[k] = G[k][g]
           S == {n \in 0 .. N : \E g \in F : Upto(n, g)}
<1>1. ASSUME NEW g \in F, NEW n \in 0 .. N, \A k \in 0 .. n - 1 : g[k] = G[k][g]
      PROVE  \E h \in F : Upto(n, h)
  <2> DEFINE h == [g EXCEPT ![n] = G[n][g]]
  <2>1. h \in F
    BY DEF LooksBelow
  <2>2. h[n] = G[n][g] /\ \A k \in 0 .. N : k # n => h[k] = g[k]
    OBVIOUS
  <2> HIDE DEF h
  <2>3. ASSUME NEW k \in 0 .. n PROVE h[k] = G[k][h]
    <3>1. k \in 0 .. N /\ \A i \in 0 .. k - 1 : g[i] = h[i]
      BY <2>2
    <3>2. G[k][g] = G[k][h]
      BY <2>1, <3>1 DEF LooksBelow
    <3> QED
      BY <1>1, <2>2, <3>1, <3>2
  <2> QED
    BY <2>1, <2>3
<1>2. 0 \in S
  <2> DEFINE g == [k \in 0 .. N |-> v]
  <2>1. g \in F /\ 0 \in 0 .. N /\ \A k \in 0 .. 0 - 1 : g[k] = G[k][g]
    OBVIOUS
  <2>2. \E h \in F : Upto(0, h)
    <3> HIDE DEF g, Upto
    <3> QED
      BY <1>1, <2>1
  <2> QED
    BY <2>1, <2>2
<1>3. ASSUME NEW n \in 0 .. N - 1, n \in S PROVE n + 1 \in S
  <2>1. PICK g \in F : Upto(n, g)
    BY <1>3
  <2>2. n + 1 \in 0 .. N /\ \A k \in 0 .. (n + 1) - 1 : g[k] = G[k][g]
    BY <2>1
  <2> QED
    BY <1>1, <2>2
<1>4. 0 .. N \subseteq S
  <2> HIDE DEF S
  <2> QED
    BY <1>2, <1>3, InductionUpTo
<1>5. PICK f \in F : Upto(N, f)
  BY <1>4
<1> QED
  BY <1>5

\* Steps: from a value before the first, step n leads from one value to
\* the next.
StepsOf(f, N, v, G) ==
  \A n \in 0 .. N : f[n] = IF n = 0 THEN v ELSE G[n][f[n - 1]]

LEMMA StepsExist ==
  ASSUME NEW N \in Nat, NEW V, NEW v \in V, NEW G \in [1 .. N -> [V -> V]]
  PROVE  \E f \in [0 .. N -> V] : StepsOf(f, N, v, G)
<1> DEFINE F == [0 .. N -> V]
           H == [n \in 0 .. N |-> [g \in F |->
                   IF n = 0 THEN v ELSE G[n][g[n - 1]]]]
<1>1. H \in [0 .. N -> [F -> V]]
  <2>1. ASSUME NEW n \in 0 .. N, NEW g \in F, n # 0
        PROVE  n \in 1 .. N /\ g[n - 1] \in V /\ G[n][g[n - 1]] \in V
    BY <2>1
  <2> QED
    BY <2>1
<1>2. \A n \in 0 .. N : \A g, h \in F :
        (\A k \in 0 .. n - 1 : g[k] = h[k]) => H[n][g] = H[n][h]
  OBVIOUS
<1>3. PICK f \in F : \A n \in 0 .. N : f[n] = H[n][f]
  <2>1. LooksBelow(N, V, H)
    <3> HIDE DEF H
    <3> QED
      BY <1>1, <1>2 DEF LooksBelow
  <2> HIDE DEF H
  <2> QED
    BY <2>1, RecursionExists
<1>4. \A n \in 0 .. N : f[n] = IF n = 0 THEN v ELSE G[n][f[n - 1]]
  BY <1>3
<1> QED
  BY <1>4 DEF StepsOf
----------------------------------------------------------------------------
(* Powers of two: the number of subsets of a set.                          *)

LEMMA PowerOfTwo ==
  ASSUME NEW n \in Nat
  PROVE  /\ 2 ^ 0 = 1
         /\ 2 ^ n \in Nat
         /\ 2 ^ (n + 1) = 2 * 2 ^ n
<1> DEFINE A == SUBSET (1 .. n)
           B == {X \cup {n + 1} : X \in A}
           f == [X \in A |-> X \cup {n + 1}]
<1>1. /\ IsFiniteSet(1 .. n) /\ Cardinality(1 .. n) = n
      /\ IsFiniteSet(1 .. n + 1) /\ Cardinality(1 .. n + 1) = n + 1
  BY FS_Interval
<1>2. /\ IsFiniteSet(A) /\ Cardinality(A) = 2 ^ n
      /\ Cardinality(SUBSET (1 .. n + 1)) = 2 ^ (n + 1)
  BY <1>1, FS_SUBSET
<1>3. 2 ^ n \in Nat
  BY <1>2, FS_CardinalityType
<1>4. IsFiniteSet(B) /\ Cardinality(B) = Cardinality(A)
  <2>1. f \in Bijection(A, B)
    <3>1. \A X \in A : n + 1 \notin X
      OBVIOUS
    <3>2. ASSUME NEW X \in A, NEW Y \in A, f[X] = f[Y] PROVE X = Y
      BY <3>1, <3>2
    <3>3. f \in [A -> B] /\ \A Z \in B : \E X \in A : f[X] = Z
      OBVIOUS
    <3> QED
      BY <3>2, <3>3, Fun_IsBij
  <2> HIDE DEF A, B, f
  <2> QED
    BY <1>2, <2>1, FS_Bijection DEF ExistsBijection
<1>5. SUBSET (1 .. n + 1) = A \cup B /\ A \cap B = {}
  <2>1. \A X \in A : n + 1 \notin X
    OBVIOUS
  <2>2. ASSUME NEW Z \in SUBSET (1 .. n + 1) PROVE Z \in A \cup B
    <3>1. CASE n + 1 \in Z
      <4>1. Z \ {n + 1} \in A /\ Z = (Z \ {n + 1}) \cup {n + 1}
        BY <3>1
      <4> QED
        BY <4>1
    <3>2. CASE n + 1 \notin Z
      BY <3>2
    <3> QED
      BY <3>1, <3>2
  <2>3. A \cup B \subseteq SUBSET (1 .. n + 1)
    <3>1. 1 .. n \subseteq 1 .. n + 1 /\ n + 1 \in 1 .. n + 1
      OBVIOUS
    <3> QED
      BY <3>1
  <2>4. A \cap B = {}
    BY <2>1
  <2> QED
    BY <2>2, <2>3, <2>4
<1>6. Cardinality(A \cup B) = Cardinality(A) + Cardinality(B) - Cardinality({})
  <2> HIDE DEF A, B, f
  <2>1. Cardinality(A \cup B)
          = Cardinality(A) + Cardinality(B) - Cardinality(A \cap B)
    BY <1>2, <1>4, FS_Union
  <2> QED
    BY <1>5, <2>1
<1>7. 2 ^ (n + 1) = 2 ^ n + 2 ^ n
  <2> HIDE DEF A, B, f
  <2>1. Cardinality({}) = 0
    BY FS_EmptySet
  <2>2. /\ 2 ^ (n + 1) = Cardinality(A) + Cardinality(B) - Cardinality({})
        /\ Cardinality(A) = 2 ^ n /\ Cardinality(B) = 2 ^ n
    BY <1>2, <1>4, <1>5, <1>6
  <2> QED
    BY <1>3, <2>1, <2>2
<1> QED
  BY <1>3, <1>7

\* A larger power is a multiple of a smaller one, hence larger.
LEMMA PowerDivides ==
  ASSUME NEW i \in Nat, NEW j \in Nat, i <= j
  PROVE  \E m \in Nat \ {0} : 2 ^ j = m * 2 ^ i
<1> DEFINE S == {d \in Nat : \E m \in Nat \ {0} : 2 ^ (i + d) = m * 2 ^ i}
<1>1. 0 \in S
  <2>1. 2 ^ (i + 0) = 1 * 2 ^ i
    BY PowerOfTwo
  <2> QED
    BY <2>1
<1>2. ASSUME NEW d \in Nat, d \in S PROVE d + 1 \in S
  <2>1. PICK m \in Nat \ {0} : 2 ^ (i + d) = m * 2 ^ i
    BY <1>2
  <2>2. 2 ^ (i + (d + 1)) = 2 * 2 ^ (i + d) /\ 2 ^ i \in Nat
    BY PowerOfTwo
  <2>3. 2 ^ (i + (d + 1)) = (2 * m) * 2 ^ i /\ 2 * m \in Nat \ {0}
    BY <2>1, <2>2
  <2>4. \E k \in Nat \ {0} : 2 ^ (i + (d + 1)) = k * 2 ^ i
    BY <2>3
  <2> QED
    BY <2>4
<1>3. Nat \subseteq S
  <2> HIDE DEF S
  <2> QED
    BY <1>1, <1>2, InductionOnSet
<1>4. j - i \in Nat /\ i + (j - i) = j
  OBVIOUS
<1>5. j - i \in S
  <2> HIDE DEF S
  <2> QED
    BY <1>3, <1>4
<1>6. \E m \in Nat \ {0} : 2 ^ (i + (j - i)) = m * 2 ^ i
  BY <1>5
<1> QED
  BY <1>4, <1>6

LEMMA PowerPositive ==
  ASSUME NEW n \in Nat
  PROVE  2 ^ n \in Nat \ {0}
<1>1. PICK m \in Nat \ {0} : 2 ^ n = m * 2 ^ 0
  <2>1. 0 \in Nat /\ 0 <= n
    OBVIOUS
  <2> QED
    BY <2>1, PowerDivides
<1> QED
  BY <1>1, PowerOfTwo

LEMMA PowerMonotone ==
  ASSUME NEW i \in Nat, NEW j \in Nat
  PROVE  /\ i <= j => 2 ^ i <= 2 ^ j
         /\ i < j => 2 * 2 ^ i <= 2 ^ j /\ 2 ^ i < 2 ^ j
<1>1. ASSUME NEW k \in Nat, k <= j PROVE 2 ^ k <= 2 ^ j
  <2>1. PICK m \in Nat \ {0} : 2 ^ j = m * 2 ^ k
    BY <1>1, PowerDivides
  <2>2. 2 ^ k \in Nat
    BY PowerPositive
  <2> QED
    BY <2>1, <2>2
<1>2. CASE i < j
  <2>1. 2 ^ (i + 1) <= 2 ^ j
    BY <1>1, <1>2
  <2> QED
    BY <1>1, <1>2, <2>1, PowerOfTwo, PowerPositive
<1> QED
  BY <1>1, <1>2

----------------------------------------------------------------------------
(* Division.                                                               *)

LEMMA DivisionParts ==
  ASSUME NEW a \in Nat, NEW b \in Nat \ {0}
  PROVE  /\ a \div b \in Nat /\ a % b \in 0 .. b - 1
         /\ a = b * (a \div b) + (a % b)
OBVIOUS

LEMMA DivisionUnique ==
  ASSUME NEW b \in Nat \ {0}, NEW q \in Nat, NEW r \in 0 .. b - 1
  PROVE  (b * q + r) \div b = q /\ (b * q + r) % b = r
OBVIOUS

LEMMA SmallModulo ==
  ASSUME NEW b \in Nat \ {0}, NEW r \in 0 .. b - 1
  PROVE  r % b = r
OBVIOUS

\* Multiples of b are at least b apart.
LEMMA MultiplesApart ==
  ASSUME NEW b \in Nat \ {0}, NEW p \in Nat, NEW q \in Nat, p < q
  PROVE  b * p + b <= b * q
<1>1. b * q - b * p = b * (q - p) /\ q - p >= 1
  OBVIOUS
<1>2. b * (q - p) >= b
  BY <1>1
<1> QED
  BY <1>1, <1>2

LEMMA NextMultiple ==
  ASSUME NEW b \in Nat \ {0}, NEW a \in Nat, a % b = 0
  PROVE  (a + b) % b = 0
<1> DEFINE q == a \div b
<1>1. a = b * q + (a % b) /\ q \in Nat
  BY DivisionParts
<1> HIDE DEF q
<1>2. b * (q + 1) = b * q + b
  BY <1>1
<1>3. a + b = b * (q + 1) + 0 /\ q + 1 \in Nat /\ 0 \in 0 .. b - 1
  BY <1>1, <1>2
<1>4. (b * (q + 1) + 0) % b = 0
  BY <1>3, DivisionUnique
<1> QED
  BY <1>3, <1>4

\* The numbers that divide to q are the block of b from b * q on.
LEMMA DividesToBlock ==
  ASSUME NEW b \in Nat \ {0}, NEW q \in Nat, NEW p \in Nat
  PROVE  p \div b = q <=> b * q <= p /\ p < b * q + b
<1>1. p = b * (p \div b) + (p % b) /\ p \div b \in Nat /\ p % b \in 0 .. b - 1
  BY DivisionParts
<1>2. CASE p \div b < q
  BY <1>1, <1>2, MultiplesApart
<1>3. CASE p \div b > q
  BY <1>1, <1>3, MultiplesApart
<1>4. CASE p \div b = q
  BY <1>1, <1>4
<1> QED
  BY <1>1, <1>2, <1>3, <1>4
=============================================================================
