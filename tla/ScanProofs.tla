------------------------------ MODULE ScanProofs ------------------------------
(***************************************************************************)
(* The strategies answer what the scan of the node list ends with, for any *)
(* number of nodes and any capacities.                                     *)
(***************************************************************************)
EXTENDS PlacementHistory, ClusterManagerProofs, WellFoundedInduction

\* A set of natural numbers has a least one.
LEMMA LeastNatural ==
    ASSUME NEW T \in SUBSET Nat, T # {}
    PROVE  \E x \in T : \A y \in T : x <= y
<1>1. \E x \in T : \A y \in T : ~ (<<y, x>> \in OpToRel(<, Nat))
    BY NatLessThanWellFounded, WFMin
<1>2. \E x \in T : \A y \in T : ~ (y < x)
    BY <1>1, Zenon DEF OpToRel
<1> QED
    BY <1>2

-----------------------------------------------------------------------------
(* The list *)

\* list enumerates S in ascending order.
Enumerates(list, S) ==
    /\ list \in [1 .. Cardinality(S) -> S]
    /\ \A i, j \in 1 .. Cardinality(S) : i < j => list[i] < list[j]

LEMMA NodeIdFinite ==
    ASSUME NEW S \in SUBSET NodeId
    PROVE  /\ IsFiniteSet(S)
           /\ Cardinality(S) \in Nat
           /\ S \in SUBSET Nat
<1>1. MaxNodes \in Nat
    BY Assumptions DEF Assumptions, BoundsAssumption
<1>2. IsFiniteSet(NodeId)
    BY <1>1, FS_Interval DEF NodeId
<1>3. IsFiniteSet(S)
    BY <1>2, FS_Subset
<1>4. Cardinality(S) \in Nat
    BY <1>3, FS_CardinalityType
<1> QED
    BY <1>1, <1>3, <1>4 DEF NodeId

\* The nodes up to n: more for a later node.
LEMMA UpToGrows ==
    ASSUME NEW S \in SUBSET NodeId, NEW m \in S, NEW n \in S, m < n
    PROVE  Cardinality({k \in S : k <= m}) < Cardinality({k \in S : k <= n})
<1> DEFINE A == {k \in S : k <= m}
           B == {k \in S : k <= n}
<1>1. A \in SUBSET B /\ n \in B /\ n \notin A
    BY NodeIdFinite
<1>2. IsFiniteSet(B) /\ B \in SUBSET NodeId
    BY NodeIdFinite
<1>3. A \in SUBSET NodeId
    OBVIOUS
<1> HIDE DEF A, B
<1>4. Cardinality(A) <= Cardinality(B) /\ (Cardinality(B) = Cardinality(A) => B = A)
    BY <1>1, <1>2, FS_Subset
<1>5. Cardinality(A) \in Nat /\ Cardinality(B) \in Nat
    BY <1>2, <1>3, NodeIdFinite
<1> QED
    BY <1>1, <1>4, <1>5 DEF A, B

\* Every set of nodes can be listed in ascending order.
LEMMA ListExists ==
    ASSUME NEW S \in SUBSET NodeId
    PROVE  \E list : Enumerates(list, S)
<1> DEFINE k == Cardinality(S)
           rank == [n \in S |-> Cardinality({m \in S : m <= n})]
           list == [i \in 1 .. k |-> CHOOSE n \in S : rank[n] = i]
<1>1. k \in Nat /\ IsFiniteSet(S) /\ IsFiniteSet(1 .. k) /\ Cardinality(1 .. k) = k
    BY NodeIdFinite, FS_Interval
<1>2. ASSUME NEW n \in S
      PROVE  rank[n] \in 1 .. k
  <2> DEFINE A == {m \in S : m <= n}
  <2>1. A \in SUBSET S /\ A \in SUBSET NodeId /\ n \in A
      BY NodeIdFinite
  <2>2. rank[n] = Cardinality(A)
      OBVIOUS
  <2> HIDE DEF A, rank
  <2>3. IsFiniteSet(A) /\ Cardinality(A) \in Nat /\ Cardinality(A) <= k
      BY <1>1, <2>1, FS_Subset, NodeIdFinite
  <2>4. Cardinality(A) # 0
      BY <2>1, <2>3, FS_EmptySet
  <2> QED
      BY <1>1, <2>2, <2>3, <2>4
<1>3. \A m, n \in S : m < n => rank[m] < rank[n]
    BY UpToGrows
<1>4. \A n \in S : n \in Nat
    BY NodeIdFinite
<1>5. \A m, n \in S : rank[m] = rank[n] => m = n
    BY <1>2, <1>3, <1>4
<1>6. rank \in [S -> 1 .. k]
    BY <1>2
<1> HIDE DEF rank, k
<1>7. rank \in Injection(S, 1 .. k)
    BY <1>5, <1>6 DEF Injection, IsInjective
<1>8. rank \in Surjection(S, 1 .. k)
    BY <1>1, <1>7, FS_Injection DEF k
<1>9. \A i \in 1 .. k : \E n \in S : rank[n] = i
    BY <1>8 DEF Surjection
<1>10. \A i \in 1 .. k : list[i] \in S /\ rank[list[i]] = i
    BY <1>9
<1>11. list \in [1 .. k -> S]
    BY <1>10
<1> HIDE DEF list
<1>12. ASSUME NEW i \in 1 .. k, NEW j \in 1 .. k, i < j
      PROVE  list[i] < list[j]
  <2>1. list[i] \in S /\ list[j] \in S /\ rank[list[i]] < rank[list[j]]
      BY <1>10, <1>12
  <2>2. list[i] = list[j] \/ list[i] < list[j] \/ list[j] < list[i]
      BY <1>4, <2>1
  <2>3. i \in Int /\ j \in Int
      BY <1>1
  <2> QED
      BY <1>3, <1>10, <1>12, <2>1, <2>2, <2>3
<1> QED
    BY <1>11, <1>12 DEF Enumerates, k

\* The list has every node of the set, and comes in list order.
LEMMA ListOfAll ==
    ASSUME NEW S \in SUBSET NodeId
    PROVE  /\ Enumerates(InListOrder(S), S)
           /\ \A n \in S : \E i \in 1 .. Cardinality(S) : InListOrder(S)[i] = n
           /\ InListOrder(S) \in Seq(S)
           /\ Len(InListOrder(S)) = Cardinality(S)
<1> DEFINE k == Cardinality(S)
           list == InListOrder(S)
<1>1. k \in Nat /\ IsFiniteSet(S) /\ IsFiniteSet(1 .. k) /\ Cardinality(1 .. k) = k
    BY NodeIdFinite, FS_Interval
<1>2. PICK other : Enumerates(other, S)
    BY ListExists
<1>3. other \in [1 .. k -> S] /\ \A i, j \in DOMAIN other : i < j => other[i] < other[j]
    BY <1>2 DEF Enumerates
<1>4. list \in [1 .. k -> S] /\ \A i, j \in DOMAIN list : i < j => list[i] < list[j]
    BY <1>3 DEF InListOrder
<1> HIDE DEF list
<1>5. Enumerates(list, S)
    BY <1>4 DEF Enumerates
<1>6. \A i, j \in 1 .. k : list[i] = list[j] => i = j
    BY <1>1, <1>4, NodeIdFinite
<1> HIDE DEF k
<1>7. list \in Injection(1 .. k, S)
    BY <1>4, <1>6 DEF Injection, IsInjective
<1>8. list \in Surjection(1 .. k, S)
    BY <1>1, <1>7, FS_Injection DEF k
<1>9. \A n \in S : \E i \in 1 .. k : list[i] = n
    BY <1>8 DEF Surjection
<1>10. list \in Seq(S) /\ Len(list) = k
    BY <1>1, <1>4
<1> QED
    BY <1>5, <1>9, <1>10 DEF list, k

\* As many nodes precede the i-th one as positions do.
LEMMA RankInList ==
    ASSUME NEW S \in SUBSET NodeId, NEW i \in 1 .. Cardinality(S)
    PROVE  Cardinality({m \in S : m < InListOrder(S)[i]}) = i - 1
<1> DEFINE k == Cardinality(S)
           list == InListOrder(S)
           A == {m \in S : m < list[i]}
           f == [j \in 1 .. i - 1 |-> list[j]]
<1>1. k \in Nat
    BY NodeIdFinite
<1>2. /\ \A j \in 1 .. k : list[j] \in S
      /\ \A j, l \in 1 .. k : j < l => list[j] < list[l]
      /\ \A n \in S : \E j \in 1 .. k : list[j] = n
    BY ListOfAll DEF Enumerates
<1>3. \A n \in S : n \in Nat
    BY NodeIdFinite
<1> HIDE DEF list, k
<1>4. i \in 1 .. k
    BY DEF k
<1>5. f \in [1 .. i - 1 -> A]
    BY <1>1, <1>2, <1>4
<1>6. \A a, b \in 1 .. i - 1 : f[a] = f[b] => a = b
    BY <1>1, <1>2, <1>3, <1>4
<1>7. ASSUME NEW n \in A
      PROVE  \E j \in 1 .. i - 1 : f[j] = n
  <2>1. PICK j \in 1 .. k : list[j] = n
      BY <1>2
  <2>2. ~ (i <= j)
      BY <1>1, <1>2, <1>3, <1>4, <2>1
  <2> QED
      BY <1>1, <1>4, <2>1, <2>2
<1> HIDE DEF f, A
<1>8. f \in Bijection(1 .. i - 1, A)
    BY <1>5, <1>6, <1>7 DEF Bijection, Injection, Surjection, IsInjective
<1>9. IsFiniteSet(1 .. i - 1) /\ Cardinality(1 .. i - 1) = i - 1
    BY <1>1, <1>4, FS_Interval
<1>10. Cardinality(A) = i - 1
    BY <1>8, <1>9, FS_Bijection DEF ExistsBijection
<1> QED
    BY <1>10 DEF A, list

-----------------------------------------------------------------------------
(* The loop of min(list, key) *)

\* What a comparison of keys is: of two nodes with different keys one is less, and whoever lies
\* between is off one of them.
KeyOrder(less, S) ==
    /\ \A a, b \in S : <<a, b>> \in less => <<b, a>> \notin less
    /\ \A a, b, c \in S : <<a, b>> \in less => <<a, c>> \in less \/ <<c, b>> \in less

\* f is what the loop has found, round by round, up to the k-th.
Rounds(f, list, less, k) ==
    f = [i \in 1 .. k |->
            IF i = 1 THEN list[1] ELSE IF <<list[i], f[i - 1]>> \in less THEN list[i] ELSE f[i - 1]]

\* The loop runs to its end: no round is the first that could not be completed.
LEMMA RoundsExist ==
    ASSUME NEW list, NEW less, NEW k \in Nat
    PROVE  \E f : Rounds(f, list, less, k)
<1> DEFINE Bad == {m \in Nat : ~ \E f : Rounds(f, list, less, m)}
<1>1. SUFFICES ASSUME k \in Bad PROVE FALSE
    OBVIOUS
<1>2. PICK m \in Bad : \A y \in Bad : m <= y
    BY <1>1, LeastNatural
<1>3. m # 0
  <2>1. Rounds([i \in 1 .. 0 |-> 0], list, less, 0)
      BY DEF Rounds
  <2> QED
      BY <2>1
<1>4. PICK f : Rounds(f, list, less, m - 1)
    BY <1>2, <1>3
<1> DEFINE step == IF m = 1 THEN list[1] ELSE IF <<list[m], f[m - 1]>> \in less THEN list[m] ELSE f[m - 1]
           g == [i \in 1 .. m |-> IF i = m THEN step ELSE f[i]]
<1>5. m \in Nat /\ m > 0
    BY <1>3
<1>6. \A i \in 1 .. m - 1 :
        f[i] = IF i = 1 THEN list[1] ELSE IF <<list[i], f[i - 1]>> \in less THEN list[i] ELSE f[i - 1]
    BY <1>4 DEF Rounds
<1>7. \A i \in 1 .. m :
        g[i] = IF i = 1 THEN list[1] ELSE IF <<list[i], g[i - 1]>> \in less THEN list[i] ELSE g[i - 1]
  <2> TAKE i \in 1 .. m
  <2>1. CASE i = m
    <3>1. i # 1 => g[i - 1] = f[i - 1]
        BY <1>5, <2>1
    <3> QED
        BY <2>1, <3>1
  <2>2. CASE i # m
    <3>1. i \in 1 .. m - 1 /\ g[i] = f[i]
        BY <1>5, <2>2
    <3>2. i # 1 => g[i - 1] = f[i - 1]
        BY <1>5, <2>2
    <3> QED
        BY <1>6, <3>1, <3>2
  <2> QED
      BY <2>1, <2>2
<1>8. Rounds(g, list, less, m)
    BY <1>7 DEF Rounds
<1> QED
    BY <1>2, <1>8

\* The node at position pos is the first one with the least key among the first k.
FirstLeast(list, less, k, pos) ==
    /\ pos \in 1 .. k
    /\ \A j \in 1 .. k : <<list[j], list[pos]>> \notin less
    /\ \A j \in 1 .. pos - 1 : <<list[pos], list[j]>> \in less

\* One round keeps that.
LEMMA OneRound ==
    ASSUME NEW S, NEW less, KeyOrder(less, S), NEW k \in Nat, NEW list, \A j \in 1 .. k + 1 : list[j] \in S,
           NEW pos, FirstLeast(list, less, k, pos)
    PROVE  FirstLeast(list, less, k + 1, IF <<list[k + 1], list[pos]>> \in less THEN k + 1 ELSE pos)
<1> DEFINE new == list[k + 1]
           old == list[pos]
<1>1. pos \in 1 .. k /\ pos \in 1 .. k + 1 /\ k + 1 \in 1 .. k + 1 /\ new \in S /\ old \in S
    BY DEF FirstLeast
<1>2. \A j \in 1 .. k + 1 : j \in 1 .. k \/ j = k + 1
    OBVIOUS
<1>3. \A j \in 1 .. k : list[j] \in S /\ <<list[j], old>> \notin less
    BY DEF FirstLeast
<1>4. CASE <<new, old>> \in less
  <2>1. \A j \in 1 .. k : <<new, list[j]>> \in less /\ <<list[j], new>> \notin less
      BY <1>1, <1>3, <1>4 DEF KeyOrder
  <2>2. <<new, new>> \notin less
      BY <1>1 DEF KeyOrder
  <2>3. (k + 1) - 1 = k
      OBVIOUS
  <2> QED
      BY <1>1, <1>2, <1>4, <2>1, <2>2, <2>3 DEF FirstLeast
<1>5. CASE <<new, old>> \notin less
    BY <1>1, <1>2, <1>3, <1>5 DEF FirstLeast
<1> QED
    BY <1>4, <1>5

\* So min(list, key) is the first of the nodes with the least key.
LEMMA MinIsFirstLeast ==
    ASSUME NEW S, NEW less, KeyOrder(less, S), NEW list \in Seq(S), list # <<>>
    PROVE  \E pos : FirstLeast(list, less, Len(list), pos) /\ MinOfList(list, less) = list[pos]
<1> DEFINE k == Len(list)
           f == CHOOSE f : Rounds(f, list, less, k)
<1>1. k \in Nat /\ k # 0 /\ \A j \in 1 .. k : list[j] \in S
    OBVIOUS
<1>2. Rounds(f, list, less, k)
    BY <1>1, RoundsExist
<1>3. MinOfList(list, less) = f[k]
    BY DEF MinOfList, Rounds
<1> HIDE DEF f, k
<1>4. \A i \in 1 .. k :
        f[i] = IF i = 1 THEN list[1] ELSE IF <<list[i], f[i - 1]>> \in less THEN list[i] ELSE f[i - 1]
    BY <1>2 DEF Rounds
<1> DEFINE Bad == {m \in Nat : m \in 1 .. k /\ ~ \E pos : FirstLeast(list, less, m, pos) /\ f[m] = list[pos]}
<1>5. Bad = {}
  <2>1. SUFFICES ASSUME Bad # {} PROVE FALSE
      OBVIOUS
  <2>2. PICK m \in Bad : \A y \in Bad : m <= y
      BY <2>1, LeastNatural
  <2>3. m \in 1 .. k
      OBVIOUS
  <2>4. m # 1
    <3>1. FirstLeast(list, less, 1, 1)
        BY <1>1 DEF FirstLeast, KeyOrder
    <3>2. 1 \in 1 .. k
        BY <1>1
    <3>3. f[1] = list[1]
        BY <1>4, <3>2
    <3> QED
        BY <3>1, <3>2, <3>3
  <2>5. m - 1 \in 1 .. k /\ m - 1 \in Nat /\ (m - 1) + 1 = m
      BY <1>1, <2>3, <2>4
  <2>6. PICK pos : FirstLeast(list, less, m - 1, pos) /\ f[m - 1] = list[pos]
      BY <2>2, <2>5
  <2>7. \A j \in 1 .. (m - 1) + 1 : list[j] \in S
      BY <1>1, <2>3, <2>5
  <2>8. FirstLeast(list, less, m, IF <<list[m], list[pos]>> \in less THEN m ELSE pos)
      BY <2>5, <2>6, <2>7, OneRound
  <2>9. f[m] = list[IF <<list[m], list[pos]>> \in less THEN m ELSE pos]
      BY <1>4, <2>3, <2>4, <2>6
  <2> QED
      BY <2>2, <2>8, <2>9
<1> QED
    BY <1>1, <1>3, <1>5 DEF k

-----------------------------------------------------------------------------
(* The keys *)

LEMMA FreeOrder == TypeOK => KeyOrder(LessFree, NodeId)
<1> SUFFICES ASSUME TypeOK PROVE KeyOrder(LessFree, NodeId)
    OBVIOUS
<1>1. \A n \in NodeId : Free(n) \in Int
    BY DEF TypeOK, NodesOK, Amount, Resource, Free
<1>2. \A a, b \in NodeId : <<a, b>> \in LessFree <=> Free(a) < Free(b)
    BY DEF LessFree
<1> QED
    BY <1>1, <1>2 DEF KeyOrder

\* A common factor changes no comparison.
LEMMA CancelFactor ==
    ASSUME NEW x \in Int, NEW y \in Int, NEW c \in Nat, c > 0
    PROVE  c * x < c * y <=> x < y
<1>1. CASE x < y
  <2>1. PICK d \in Nat : y = x + d /\ d > 0
    <3>1. y - x \in Nat /\ y = x + (y - x) /\ y - x > 0
        BY <1>1
    <3> QED
        BY <3>1
  <2>2. c * y = c * x + c * d
      BY <2>1
  <2>3. c * d > 0
      BY <2>1
  <2>4. c * x \in Int /\ c * y \in Int /\ c * d \in Int
      BY <2>1
  <2> QED
      BY <1>1, <2>2, <2>3, <2>4
<1>2. CASE ~ (x < y)
  <2>1. PICK d \in Nat : x = y + d
    <3>1. x - y \in Nat /\ x = y + (x - y)
        BY <1>2
    <3> QED
        BY <3>1
  <2>2. c * x = c * y + c * d
      BY <2>1
  <2>3. c * d >= 0
      BY <2>1
  <2>4. c * x \in Int /\ c * y \in Int /\ c * d \in Int
      BY <2>1
  <2> QED
      BY <1>2, <2>2, <2>3, <2>4
<1> QED
    BY <1>1, <1>2

\* A quotient without remainder.
LEMMA ExactQuotient ==
    ASSUME NEW c \in Nat, c > 0, NEW x \in Nat
    PROVE  (c * x) \div c = x
OBVIOUS

\* Fractions with positive denominators, compared crosswise, are ordered as keys are.
LEMMA FractionsBetween ==
    ASSUME NEW a \in Nat, NEW b \in Nat, NEW c \in Nat, NEW d \in Nat, NEW e \in Nat, NEW f \in Nat,
           b > 0, d > 0, f > 0, a * d < c * b
    PROVE  a * f < e * b \/ e * d < c * f
<1> SUFFICES ASSUME ~ (a * f < e * b), ~ (e * d < c * f)
             PROVE  FALSE
    OBVIOUS
<1>0. /\ a * d \in Nat /\ c * b \in Nat /\ a * f \in Nat /\ e * b \in Nat /\ e * d \in Nat /\ c * f \in Nat
    OBVIOUS
<1>1. ~ (d * (a * f) < d * (e * b))
    BY <1>0, CancelFactor
<1>2. ~ (b * (e * d) < b * (c * f))
    BY <1>0, CancelFactor
<1>3. f * (a * d) < f * (c * b)
    BY <1>0, CancelFactor
<1>4. d * (a * f) = f * (a * d) /\ d * (e * b) = b * (e * d) /\ b * (c * f) = f * (c * b)
    OBVIOUS
<1>5. d * (a * f) \in Nat /\ d * (e * b) \in Nat /\ b * (c * f) \in Nat
    BY <1>0
<1> QED
    BY <1>1, <1>2, <1>3, <1>4, <1>5

\* One resource's share, in parts of a multiple of its total.
LEMMA ShareOf ==
    ASSUME NEW t \in Nat, NEW u \in Nat, NEW w \in Nat
    PROVE  (IF t = 0 THEN 0 ELSE ((t * w) * u) \div t) = w * (IF t = 0 THEN 0 ELSE u)
<1>1. CASE t = 0
    BY <1>1
<1>2. CASE t # 0
  <2>1. (t * w) * u = t * (w * u) /\ w * u \in Nat /\ t > 0
      BY <1>2
  <2>2. (t * (w * u)) \div t = w * u
      BY <2>1, ExactQuotient
  <2> QED
      BY <1>2, <2>1, <2>2
<1> QED
    BY <1>1, <1>2

\* What a node has in use, as a fraction with a positive denominator.
InUse(n, r) == IF capacity[n][r] = 0 THEN 0 ELSE allocated[n][r]
Denominator(n) == Divisor(n, "cpu") * Divisor(n, "memory")
Numerator(n) == InUse(n, "cpu") * Divisor(n, "memory") + InUse(n, "memory") * Divisor(n, "cpu")

LEMMA UtilizationOf ==
    ASSUME TypeOK, NEW n \in NodeId
    PROVE  /\ Utilization(capacity[n], allocated[n]) = <<Numerator(n), Denominator(n)>>
           /\ Numerator(n) \in Nat /\ Denominator(n) \in Nat /\ Denominator(n) > 0
           /\ \A r \in Resource : /\ capacity[n][r] \in Nat /\ allocated[n][r] \in Nat /\ InUse(n, r) \in Nat
                                  /\ Divisor(n, r) \in Nat /\ Divisor(n, r) > 0
<1>1. \A r \in Resource : /\ capacity[n][r] \in Nat /\ allocated[n][r] \in Nat /\ InUse(n, r) \in Nat
                          /\ Divisor(n, r) \in Nat /\ Divisor(n, r) > 0
    BY DEF TypeOK, NodesOK, Amount, InUse, Divisor
<1>2. "cpu" \in Resource /\ "memory" \in Resource
    BY DEF Resource
<1> DEFINE share(r) == IF capacity[n][r] = 0 THEN <<0, 1>> ELSE <<allocated[n][r], capacity[n][r]>>
<1>3. \A r \in Resource : share(r)[1] = InUse(n, r) /\ share(r)[2] = Divisor(n, r)
    BY DEF InUse, Divisor
<1>4. Utilization(capacity[n], allocated[n])
        = <<share("cpu")[1] * share("memory")[2] + share("memory")[1] * share("cpu")[2],
            share("cpu")[2] * share("memory")[2]>>
    BY Zenon DEF Utilization
<1> HIDE DEF share
<1>5. Utilization(capacity[n], allocated[n]) = <<Numerator(n), Denominator(n)>>
    BY <1>2, <1>3, <1>4, Zenon DEF Numerator, Denominator
<1>6. Numerator(n) \in Nat /\ Denominator(n) \in Nat /\ Denominator(n) > 0
    BY <1>1, <1>2 DEF Numerator, Denominator
<1> QED
    BY <1>1, <1>5, <1>6

\* In parts of a multiple of its denominator, the fraction is a whole number.
LEMMA PartsOf ==
    ASSUME TypeOK, NEW n \in NodeId, NEW q \in Nat
    PROVE  UsedParts(n, Denominator(n) * q) = q * Numerator(n)
<1> DEFINE c == Divisor(n, "cpu")
           m == Divisor(n, "memory")
           whole == Denominator(n) * q
           share(r) == IF capacity[n][r] = 0 THEN 0 ELSE (whole * allocated[n][r]) \div capacity[n][r]
<1>1. "cpu" \in Resource /\ "memory" \in Resource
    BY DEF Resource
<1>2. /\ c \in Nat /\ m \in Nat
      /\ \A r \in Resource : capacity[n][r] \in Nat /\ allocated[n][r] \in Nat /\ InUse(n, r) \in Nat
    BY <1>1, UtilizationOf
<1>3. share("cpu") = (m * q) * InUse(n, "cpu")
  <2>1. m * q \in Nat
      BY <1>2
  <2>2. (IF capacity[n]["cpu"] = 0 THEN 0
         ELSE ((capacity[n]["cpu"] * (m * q)) * allocated[n]["cpu"]) \div capacity[n]["cpu"])
            = (m * q) * (IF capacity[n]["cpu"] = 0 THEN 0 ELSE allocated[n]["cpu"])
      BY <1>1, <1>2, <2>1, ShareOf
  <2>3. capacity[n]["cpu"] # 0 => whole = capacity[n]["cpu"] * (m * q)
    <3>1. whole = c * (m * q)
        BY <1>2 DEF Denominator
    <3> QED
        BY <3>1 DEF Divisor
  <2> QED
      BY <2>2, <2>3 DEF InUse
<1>4. share("memory") = (c * q) * InUse(n, "memory")
  <2>1. c * q \in Nat
      BY <1>2
  <2>2. (IF capacity[n]["memory"] = 0 THEN 0
         ELSE ((capacity[n]["memory"] * (c * q)) * allocated[n]["memory"]) \div capacity[n]["memory"])
            = (c * q) * (IF capacity[n]["memory"] = 0 THEN 0 ELSE allocated[n]["memory"])
      BY <1>1, <1>2, <2>1, ShareOf
  <2>3. capacity[n]["memory"] # 0 => whole = capacity[n]["memory"] * (c * q)
    <3>1. whole = m * (c * q)
        BY <1>2 DEF Denominator
    <3> QED
        BY <3>1 DEF Divisor
  <2> QED
      BY <2>2, <2>3 DEF InUse
<1>5. UsedParts(n, whole) = share("cpu") + share("memory")
    BY Zenon DEF UsedParts
<1> HIDE DEF share, whole
<1>6. q * Numerator(n) = (m * q) * InUse(n, "cpu") + (c * q) * InUse(n, "memory")
    BY <1>1, <1>2 DEF Numerator
<1> QED
    BY <1>3, <1>4, <1>5, <1>6 DEF whole

\* Hence the comparison of the scan is that of the strategy...
LEMMA UtilizedIsLoaded ==
    ASSUME TypeOK, NEW m \in NodeId, NEW n \in NodeId
    PROVE  /\ <<m, n>> \in LessUtilized <=> LessLoaded(capacity, allocated, m, n)
           /\ <<m, n>> \in LessUtilized <=> Numerator(m) * Denominator(n) < Numerator(n) * Denominator(m)
<1>1. /\ Numerator(m) \in Nat /\ Denominator(m) \in Nat
      /\ Numerator(n) \in Nat /\ Denominator(n) \in Nat
    BY UtilizationOf
<1>2. UsedParts(m, Multiple(m, n)) = Denominator(n) * Numerator(m)
  <2>1. Multiple(m, n) = Denominator(m) * Denominator(n)
      BY DEF Multiple, Denominator
  <2> QED
      BY <1>1, <2>1, PartsOf
<1>3. UsedParts(n, Multiple(m, n)) = Denominator(m) * Numerator(n)
  <2>1. Multiple(m, n) = Denominator(m) * Denominator(n)
      BY DEF Multiple, Denominator
  <2>2. Denominator(m) * Denominator(n) = Denominator(n) * Denominator(m)
      BY <1>1
  <2> QED
      BY <1>1, <2>1, <2>2, PartsOf
<1>4. <<m, n>> \in LessUtilized <=> UsedParts(m, Multiple(m, n)) < UsedParts(n, Multiple(m, n))
    BY DEF LessUtilized
<1>5. /\ Denominator(n) * Numerator(m) = Numerator(m) * Denominator(n)
      /\ Denominator(m) * Numerator(n) = Numerator(n) * Denominator(m)
    BY <1>1
<1>6. <<m, n>> \in LessUtilized <=> Numerator(m) * Denominator(n) < Numerator(n) * Denominator(m)
    BY <1>2, <1>3, <1>4, <1>5
<1>7. LessLoaded(capacity, allocated, m, n) <=> Numerator(m) * Denominator(n) < Numerator(n) * Denominator(m)
    BY UtilizationOf DEF LessLoaded
<1> QED
    BY <1>6, <1>7

\* ... and orders the nodes as a key does.
LEMMA UtilizedOrder == TypeOK => KeyOrder(LessUtilized, NodeId)
<1> SUFFICES ASSUME TypeOK PROVE KeyOrder(LessUtilized, NodeId)
    OBVIOUS
<1>1. \A n \in NodeId : Numerator(n) \in Nat /\ Denominator(n) \in Nat /\ Denominator(n) > 0
    BY UtilizationOf
<1>2. \A m, n \in NodeId :
        <<m, n>> \in LessUtilized <=> Numerator(m) * Denominator(n) < Numerator(n) * Denominator(m)
    BY UtilizedIsLoaded
<1>3. ASSUME NEW a \in NodeId, NEW b \in NodeId, <<a, b>> \in LessUtilized
      PROVE  <<b, a>> \notin LessUtilized
  <2>1. Numerator(a) * Denominator(b) \in Nat /\ Numerator(b) * Denominator(a) \in Nat
      BY <1>1
  <2> QED
      BY <1>2, <1>3, <2>1
<1>4. ASSUME NEW a \in NodeId, NEW b \in NodeId, NEW c \in NodeId, <<a, b>> \in LessUtilized
      PROVE  <<a, c>> \in LessUtilized \/ <<c, b>> \in LessUtilized
  <2>1. Numerator(a) * Denominator(b) < Numerator(b) * Denominator(a)
      BY <1>2, <1>4
  <2>2. \/ Numerator(a) * Denominator(c) < Numerator(c) * Denominator(a)
        \/ Numerator(c) * Denominator(b) < Numerator(b) * Denominator(c)
      BY <1>1, <2>1, FractionsBetween
  <2> QED
      BY <1>2, <2>2
<1> QED
    BY <1>3, <1>4 DEF KeyOrder

-----------------------------------------------------------------------------
(* The answers *)

\* The position of a node in the list, and what the list's order says of it.
LEMMA ListPositions ==
    ASSUME NEW S \in SUBSET NodeId, NEW n \in S
    PROVE  \E j \in 1 .. Cardinality(S) :
              /\ InListOrder(S)[j] = n
              /\ \A i \in 1 .. j : InListOrder(S)[i] \in S /\ InListOrder(S)[i] <= n
<1> DEFINE k == Cardinality(S)
           list == InListOrder(S)
<1>1. k \in Nat /\ \A m \in S : m \in Nat
    BY NodeIdFinite
<1>2. /\ \A j \in 1 .. k : list[j] \in S
      /\ \A j, l \in 1 .. k : j < l => list[j] < list[l]
      /\ \A m \in S : \E j \in 1 .. k : list[j] = m
    BY ListOfAll DEF Enumerates
<1> HIDE DEF list, k
<1>3. PICK j \in 1 .. k : list[j] = n
    BY <1>2
<1>4. \A i \in 1 .. j : i \in 1 .. k /\ (i < j \/ i = j)
    BY <1>1, <1>3
<1>5. \A i \in 1 .. j : list[i] \in S /\ list[i] <= n
    BY <1>1, <1>2, <1>3, <1>4
<1> QED
    BY <1>3, <1>5 DEF list, k

\* The first of the list is the first of the set.
LEMMA FirstOfList ==
    ASSUME NEW S \in SUBSET NodeId, S # {}
    PROVE  InListOrder(S)[1] \in S /\ FirstFit(S) = {InListOrder(S)[1]}
<1> DEFINE first == InListOrder(S)[1]
<1>1. \A m \in S : m \in Nat
    BY NodeIdFinite
<1>2. \A m \in S : first \in S /\ first <= m
  <2> TAKE m \in S
  <2>1. PICK j \in 1 .. Cardinality(S) : \A i \in 1 .. j : InListOrder(S)[i] \in S /\ InListOrder(S)[i] <= m
      BY ListPositions
  <2>2. 1 \in 1 .. j
      BY <2>1, NodeIdFinite
  <2> QED
      BY <2>1, <2>2
<1> HIDE DEF first
<1>3. FirstFit(S) = {first}
    BY <1>1, <1>2 DEF FirstFit
<1> QED
    BY <1>2, <1>3 DEF first

\* So is the first of the least by a key.
LEMMA MinOfSet ==
    ASSUME NEW S \in SUBSET NodeId, S # {}, NEW less, KeyOrder(less, NodeId)
    PROVE  LET min == MinOfList(InListOrder(S), less)
           IN  min \in S /\ FirstFit({n \in S : \A m \in S : <<m, n>> \notin less}) = {min}
<1> DEFINE k == Cardinality(S)
           list == InListOrder(S)
           least == {n \in S : \A m \in S : <<m, n>> \notin less}
<1>1. k \in Nat /\ \A n \in S : n \in Nat
    BY NodeIdFinite
<1>2. /\ \A j \in 1 .. k : list[j] \in S
      /\ \A n \in S : \E j \in 1 .. k : list[j] = n
      /\ list \in Seq(S)
      /\ Len(list) = k
    BY ListOfAll DEF Enumerates
<1>3. list # <<>>
    BY <1>2
<1>4. KeyOrder(less, S)
    BY DEF KeyOrder
<1>5. PICK pos : FirstLeast(list, less, k, pos) /\ MinOfList(list, less) = list[pos]
    BY <1>2, <1>3, <1>4, MinIsFirstLeast
<1> DEFINE min == list[pos]
<1>6. pos \in 1 .. k /\ min \in S
    BY <1>2, <1>5 DEF FirstLeast
<1>7. min \in least
    BY <1>2, <1>5, <1>6 DEF FirstLeast
<1>8. ASSUME NEW n \in least
      PROVE  min <= n
  <2>1. PICK j \in 1 .. k : list[j] = n /\ \A i \in 1 .. j : list[i] <= n
      BY ListPositions
  <2>2. j \notin 1 .. pos - 1
      BY <1>5, <1>6, <2>1 DEF FirstLeast
  <2>3. pos \in 1 .. j
      BY <1>1, <1>6, <2>1, <2>2
  <2> QED
      BY <2>1, <2>3
<1>9. \A n \in least : n \in Nat
    BY <1>1
<1> HIDE DEF min, least
<1>10. FirstFit(least) = {min}
    BY <1>7, <1>8, <1>9 DEF FirstFit
<1> QED
    BY <1>5, <1>6, <1>10 DEF min, least

\* The index modulo the length selects the node with that many before it.
LEMMA RoundRobinOfList ==
    ASSUME NEW S \in SUBSET NodeId, S # {}, NEW index \in Nat
    PROVE  LET at == InListOrder(S)[(index % Cardinality(S)) + 1]
           IN  at \in S /\ RoundRobin(S, index) = {at}
<1> DEFINE k == Cardinality(S)
           list == InListOrder(S)
           i == index % k
<1>1. k \in Nat /\ k # 0
    BY NodeIdFinite, FS_EmptySet
<1>2. i \in 0 .. k - 1
    BY <1>1
<1> HIDE DEF i
<1>3. /\ \A j \in 1 .. k : list[j] \in S
      /\ \A n \in S : \E j \in 1 .. k : list[j] = n
    BY ListOfAll DEF Enumerates
<1>4. \A j \in 1 .. k : Cardinality({m \in S : m < list[j]}) = j - 1
    BY RankInList
<1> HIDE DEF list, k
<1>5. i + 1 \in 1 .. k /\ (i + 1) - 1 = i
    BY <1>1, <1>2
<1>6. \A j \in 1 .. k : j - 1 = i => j = i + 1
    BY <1>2
<1>7. list[i + 1] \in S /\ Cardinality({m \in S : m < list[i + 1]}) = i
    BY <1>3, <1>4, <1>5
<1>8. \A n \in S : Cardinality({m \in S : m < n}) = i => n = list[i + 1]
    BY <1>3, <1>4, <1>6
<1>9. {n \in S : Cardinality({m \in S : m < n}) = i} = {list[i + 1]}
    BY <1>7, <1>8
<1> QED
    BY <1>7, <1>9 DEF RoundRobin, list, k, i

\* What the strategy in use may select for a pod.
Selected(p) == SelectNode(strategy, Eligible(p), capacity, allocated, Request(p), rrIndex)

LEMMA EligibleNodes ==
    ASSUME TypeOK, NEW p
    PROVE  /\ Eligible(p) \in SUBSET NodeId
           /\ EligibleList(Request(p)) = InListOrder(Eligible(p))
<1>1. {n \in Nodes : CanFit(n, Request(p))} = Eligible(p)
    BY DEF Nodes, Eligible, CanFit
<1> QED
    BY <1>1 DEF Eligible, EligibleList

LEMMA BestFitIsLessFree ==
    ASSUME TypeOK, NEW E \in SUBSET NodeId, NEW req \in Amount
    PROVE  BestFit(E, capacity, allocated, req)
             = FirstFit({n \in E : \A m \in E : <<m, n>> \notin LessFree})
<1>1. \A n \in E :
        /\ Free(n) \in Int /\ req["cpu"] \in Int /\ req["memory"] \in Int
        /\ Leftover(capacity, allocated, req, n) = Free(n) - (req["cpu"] + req["memory"])
    BY DEF TypeOK, NodesOK, Amount, Resource, Free, Leftover, Available
<1>2. \A m, n \in E :
        Leftover(capacity, allocated, req, n) <= Leftover(capacity, allocated, req, m)
            <=> ~ (Free(m) < Free(n))
    BY <1>1
<1>3. \A m, n \in E : <<m, n>> \in LessFree <=> Free(m) < Free(n)
    BY DEF LessFree
<1>4. {n \in E : \A m \in E : Leftover(capacity, allocated, req, n) <= Leftover(capacity, allocated, req, m)}
        = {n \in E : \A m \in E : <<m, n>> \notin LessFree}
    BY <1>2, <1>3
<1> QED
    BY <1>4, Zenon DEF BestFit

LEMMA LeastLoadedIsLessUtilized ==
    ASSUME TypeOK, NEW E \in SUBSET NodeId
    PROVE  LeastLoaded(E, capacity, allocated)
             = FirstFit({n \in E : \A m \in E : <<m, n>> \notin LessUtilized})
<1>1. \A m, n \in E : <<m, n>> \in LessUtilized <=> LessLoaded(capacity, allocated, m, n)
    BY UtilizedIsLoaded
<1>2. {n \in E : \A m \in E : ~ LessLoaded(capacity, allocated, m, n)}
        = {n \in E : \A m \in E : <<m, n>> \notin LessUtilized}
    BY <1>1
<1> QED
    BY <1>2, Zenon DEF LeastLoaded

\* With an eligible node there is one answer, the scan's; without one there is none.
LEMMA ScanAnswers ==
    ASSUME TypeOK, NEW p \in PodId
    PROVE  /\ Eligible(p) = {} => EligibleList(Request(p)) = <<>> /\ Selected(p) = {}
           /\ Eligible(p) # {} => /\ EligibleList(Request(p)) # <<>>
                                /\ Scan(Request(p)) \in Eligible(p)
                                /\ Selected(p) = {Scan(Request(p))}
<1> DEFINE E == Eligible(p)
           list == EligibleList(Request(p))
           answer == Scan(Request(p))
<1>1. E \in SUBSET NodeId /\ list = InListOrder(E)
    BY EligibleNodes
<1>2. list \in Seq(E) /\ Len(list) = Cardinality(E)
    BY <1>1, ListOfAll
<1>3. IsFiniteSet(E) /\ Cardinality(E) \in Nat /\ (Cardinality(E) = 0 <=> E = {})
    BY <1>1, NodeIdFinite, FS_EmptySet
<1>4. E = {} => list = <<>> /\ Selected(p) = {}
    BY <1>2, <1>3 DEF Selected, SelectNode
<1>5. ASSUME E # {}
      PROVE  answer \in E /\ Selected(p) = {answer}
  <2>1. strategy \in {"first-fit", "best-fit", "round-robin", "least-loaded"} /\ rrIndex \in Nat
      BY Assumptions DEF TypeOK, SchedulerOK, StrategyName, Assumptions, SchedulerAssumption
  <2>2. Request(p) \in Amount
      BY RequestType DEF TypeOK, PodsOK, Request
  <2>3. CASE strategy = "first-fit"
    <3>1. answer = list[1]
        BY <2>3 DEF Scan
    <3>2. answer \in E /\ FirstFit(E) = {answer}
        BY <1>1, <1>5, <3>1, FirstOfList
    <3>3. Selected(p) = {n \in E : n \in FirstFit(E)}
        BY <2>3 DEF Selected, SelectNode
    <3> QED
        BY <3>2, <3>3
  <2>4. CASE strategy = "best-fit"
    <3>1. answer = MinOfList(list, LessFree)
        BY <2>4 DEF Scan
    <3>2. answer \in E /\ BestFit(E, capacity, allocated, Request(p)) = {answer}
        BY <1>1, <1>5, <2>2, <3>1, FreeOrder, MinOfSet, BestFitIsLessFree
    <3>3. Selected(p) = {n \in E : n \in BestFit(E, capacity, allocated, Request(p))}
        BY <2>4 DEF Selected, SelectNode
    <3> QED
        BY <3>2, <3>3
  <2>5. CASE strategy = "round-robin"
    <3>1. answer = list[(rrIndex % Cardinality(E)) + 1]
        BY <1>2, <2>5 DEF Scan
    <3>2. answer \in E /\ RoundRobin(E, rrIndex) = {answer}
        BY <1>1, <1>5, <2>1, <3>1, RoundRobinOfList
    <3>3. Selected(p) = {n \in E : n \in RoundRobin(E, rrIndex)}
        BY <2>5 DEF Selected, SelectNode
    <3> QED
        BY <3>2, <3>3
  <2>6. CASE strategy = "least-loaded"
    <3>1. answer = MinOfList(list, LessUtilized)
        BY <2>6 DEF Scan
    <3>2. answer \in E /\ LeastLoaded(E, capacity, allocated) = {answer}
        BY <1>1, <1>5, <3>1, UtilizedOrder, MinOfSet, LeastLoadedIsLessUtilized
    <3>3. Selected(p) = {n \in E : n \in LeastLoaded(E, capacity, allocated)}
        BY <2>6 DEF Selected, SelectNode
    <3> QED
        BY <3>2, <3>3
  <2> QED
      BY <2>1, <2>3, <2>4, <2>5, <2>6
<1>6. E # {} => list # <<>>
    BY <1>2, <1>3
<1> QED
    BY <1>4, <1>5, <1>6

\* The queue's head is a pod.
LEMMA HeadIsPod ==
    ASSUME TypeOK, queue # <<>>
    PROVE  Head(queue) \in Pods /\ Head(queue) \in PodId
<1>1. queue \in Seq(Pods) /\ Pods \subseteq PodId
    BY PodsInPodId DEF TypeOK, SchedulerOK
<1> QED
    BY <1>1

LEMMA HistoryTypeCorrect == HistorySpec => []TypeOK
<1>1. HistoryInit => TypeOK
    BY InitTypeOK DEF HistoryInit
<1>2. TypeOK /\ [Next /\ Record]_<<vars, history>> => TypeOK'
    BY NextTypeOK DEF vars
<1> QED
    BY <1>1, <1>2, PTL DEF HistorySpec

\* In every reachable state, for every pod at the queue's head, select_node of each of the four
\* strategies returns the node the scan of the node list ends with: first-fit the first that fits,
\* best-fit and least-loaded the first with the least key, round-robin the one at its index.
THEOREM StrategiesScan == HistorySpec => []SelectsWhatTheScanFinds
<1>1. TypeOK => SelectsWhatTheScanFinds
    BY HeadIsPod, ScanAnswers DEF SelectsWhatTheScanFinds, Selected
<1> QED
    BY <1>1, HistoryTypeCorrect, PTL

\* A round of schedule_pending has exactly one outcome: the pod fits nowhere, or the strategy
\* answers with one eligible node.
OneOutcome ==
    phase = "schedule" /\ queue # <<>> =>
        LET p == Head(queue)
        IN  \/ Eligible(p) = {} /\ Selected(p) = {}
            \/ \E n \in Eligible(p) : Selected(p) = {n}

\* No strategy ever fails to choose among eligible nodes (an index out of range, a minimum of an
\* empty list), and none leaves the choice open: schedule_one is deterministic.
THEOREM SchedulingIsDetermined == Spec => []OneOutcome
<1>1. TypeOK => OneOutcome
    BY HeadIsPod, ScanAnswers DEF OneOutcome
<1> QED
    BY <1>1, TypeCorrect, PTL

=============================================================================
