--------------------------- MODULE IdentityProofs ---------------------------
(***************************************************************************)
(* Proofs about the key of a machine, for any sources and any devices.     *)
(*                                                                         *)
(* Two sequences of the same numbers in ascending order are one            *)
(* (OneOrder): the places up to a value are as many as the devices whose   *)
(* data point is not above it (UpToCount).  So what a source hands out     *)
(* depends on the devices and not on how they were listed, and so does the *)
(* sequence of all data points, source after source (Fed).  In every run   *)
(* the hash function was fed a beginning of that sequence, as far as Fetch *)
(* has come (At), and a key is made only at its end.                       *)
(***************************************************************************)
EXTENDS Identity, SequenceTheorems, FunctionTheorems, FiniteSetTheorems,
        WellFoundedInduction, TLAPS

\* A set of numbers has a least element.
LEMMA LeastOf ==
    ASSUME NEW T, T \subseteq Nat, T # {}
    PROVE  \E n \in T : \A m \in T : n <= m
<1>1. PICK n \in T : \A m \in T : ~(<<m, n>> \in OpToRel(<, Nat))
  BY NatLessThanWellFounded, WFMin, Zenon
<1>2. \A m \in T : ~(m < n)
  BY <1>1 DEF OpToRel
<1> QED
  BY <1>2, SMT

-----------------------------------------------------------------------------
(* Sorting *)

UpTo(q, v) == {i \in DOMAIN q : q[i] <= v}

\* q has the weights of the members of S, in ascending order.
InOrder(q, S, w) ==
    /\ q \in [1..Cardinality(S) -> Nat]
    /\ Ascending(q)
    /\ \E b \in Bijection(1..Cardinality(S), S) : \A i \in 1..Cardinality(S) : q[i] = w[b[i]]

Weighted(S, w) == IsFiniteSet(S) /\ \A d \in S : w[d] \in Nat

\* An initial segment of 1..n is known by its size.
LEMMA SegmentIs ==
    ASSUME NEW n \in Nat, NEW D \in SUBSET (1..n), \A i \in D : \A j \in 1..i : j \in D
    PROVE  D = 1..Cardinality(D)
<1> DEFINE Out == {i \in Nat \ {0} : i \notin D}
<1>1. n + 1 \in Out
  OBVIOUS
<1>2. PICK k \in Out : \A i \in Out : k <= i
  BY <1>1, LeastOf, Zenon
<1>3. k \in Nat \ {0} /\ k \notin D
  BY <1>2
<1>4. ASSUME NEW i \in 1..(k - 1) PROVE i \in D
  <2>1. i \in Nat \ {0} /\ ~(k <= i)
    BY <1>3
  <2> QED BY <1>2, <2>1
<1>5. ASSUME NEW i \in D PROVE i \in 1..(k - 1)
  <2>1. i \in Nat \ {0} /\ ~(k \in 1..i)
    BY <1>3
  <2> QED BY <1>3, <2>1
<1>6. D = 1..(k - 1)
  BY <1>4, <1>5
<1>7. Cardinality(1..(k - 1)) = k - 1
  BY <1>3, FS_Interval
<1> QED
  BY <1>6, <1>7

\* In ascending order, the numbers up to v come first.
LEMMA UpToIs ==
    ASSUME NEW n \in Nat, NEW q \in [1..n -> Nat], Ascending(q), NEW v \in Nat
    PROVE  UpTo(q, v) = 1..Cardinality(UpTo(q, v))
<1>1. UpTo(q, v) \in SUBSET (1..n)
  BY DEF UpTo
<1>2. ASSUME NEW i \in UpTo(q, v), NEW j \in 1..i PROVE j \in UpTo(q, v)
  <2>1. i \in 1..n /\ q[i] <= v
    BY DEF UpTo
  <2>2. j \in 1..n /\ (j = i \/ j < i)
    BY <2>1
  <2>3. q[j] <= q[i]
    BY <2>1, <2>2 DEF Ascending
  <2>4. q[i] \in Nat /\ q[j] \in Nat
    BY <2>1, <2>2
  <2>5. q[j] <= v
    BY <2>1, <2>3, <2>4
  <2> QED BY <2>2, <2>5 DEF UpTo
<1> QED
  BY <1>1, <1>2, SegmentIs, Zenon

Light(S, w, v) == {d \in S : w[d] <= v}
CountIs(X, Y) == Cardinality(X) = Cardinality(Y)

\* There are as many numbers up to v as members of S with such a weight.
LEMMA UpToCount ==
    ASSUME NEW S, NEW w, Weighted(S, w), NEW q, InOrder(q, S, w), NEW v \in Nat
    PROVE  CountIs(UpTo(q, v), Light(S, w, v))
<1> DEFINE n == Cardinality(S)
           T == Light(S, w, v)
           U == UpTo(q, v)
<1>1. n \in Nat
  BY FS_CardinalityType, Zenon DEF Weighted
<1>2. PICK b \in Bijection(1..n, S) : \A i \in 1..n : q[i] = w[b[i]]
  BY DEF InOrder
<1>3. /\ b \in [1..n -> S] /\ \A i, j \in 1..n : b[i] = b[j] => i = j
      /\ \A d \in S : \E i \in 1..n : b[i] = d
  BY <1>2 DEF Bijection, Injection, Surjection, IsInjective
<1>4. DOMAIN q = 1..n
  BY DEF InOrder
<1> HIDE DEF n
<1> DEFINE f == [i \in U |-> b[i]]
<1>5. U \subseteq 1..n
  BY <1>4 DEF UpTo
<1>6. \A i \in 1..n : i \in U <=> b[i] \in T
  BY <1>2, <1>3, <1>4 DEF UpTo, Light
<1> HIDE DEF U, T
<1>7. f \in [U -> T]
  BY <1>5, <1>6
<1>8. \A i, j \in U : f[i] = f[j] => i = j
  BY <1>3, <1>5
<1>9. \A d \in T : \E i \in U : f[i] = d
  <2>1. ASSUME NEW d \in T PROVE \E i \in U : f[i] = d
    <3>1. d \in S
      BY DEF T, Light
    <3>2. PICK i \in 1..n : b[i] = d
      BY <1>3, <3>1
    <3> QED BY <1>6, <3>2
  <2> QED BY <2>1
<1>10. f \in Bijection(U, T)
  BY <1>7, <1>8, <1>9, Fun_IsBij
<1>11. ExistsBijection(U, T)
  BY <1>10 DEF ExistsBijection
<1>12. IsFiniteSet(U)
  <2>1. IsFiniteSet(1..n)
    BY <1>1, FS_Interval
  <2> QED BY <1>5, <2>1, FS_Subset
<1> QED
  BY <1>11, <1>12, FS_Bijection DEF U, T, CountIs

Same(q, r) == q = r

\* So there is one way to sort, whatever the order in which things are found.
LEMMA OneOrder ==
    ASSUME NEW S, NEW w, Weighted(S, w), NEW q, NEW r, InOrder(q, S, w), InOrder(r, S, w)
    PROVE  Same(q, r)
<1> DEFINE n == Cardinality(S)
<1>1. n \in Nat
  BY FS_CardinalityType, Zenon DEF Weighted
<1>2. q \in [1..n -> Nat] /\ r \in [1..n -> Nat] /\ Ascending(q) /\ Ascending(r)
  BY DEF InOrder
<1>3. ASSUME NEW v \in Nat PROVE UpTo(q, v) = UpTo(r, v)
  <2>1. Cardinality(UpTo(q, v)) = Cardinality(UpTo(r, v))
    <3>1. CountIs(UpTo(q, v), Light(S, w, v))
      BY UpToCount, Zenon
    <3>2. CountIs(UpTo(r, v), Light(S, w, v))
      BY UpToCount, Zenon
    <3> QED BY <3>1, <3>2, Zenon DEF CountIs
  <2> HIDE DEF n
  <2>2. UpTo(q, v) = 1..Cardinality(UpTo(q, v)) /\ UpTo(r, v) = 1..Cardinality(UpTo(r, v))
    BY <1>1, <1>2, UpToIs
  <2> QED BY <2>1, <2>2
<1> HIDE DEF n
<1>4. ASSUME NEW i \in 1..n PROVE q[i] = r[i]
  <2>1. q[i] \in Nat /\ r[i] \in Nat
    BY <1>2
  <2>2. i \in UpTo(q, q[i]) /\ i \in UpTo(r, r[i])
    BY <1>2, <2>1 DEF UpTo
  <2>3. i \in UpTo(r, q[i]) /\ i \in UpTo(q, r[i])
    BY <1>3, <2>1, <2>2
  <2>4. r[i] <= q[i] /\ q[i] <= r[i]
    BY <2>3 DEF UpTo
  <2> QED BY <2>1, <2>4
<1>5. q = [i \in 1..n |-> q[i]] /\ r = [i \in 1..n |-> r[i]]
  BY <1>2
<1>6. [i \in 1..n |-> q[i]] = [i \in 1..n |-> r[i]]
  BY <1>4
<1> QED
  BY <1>5, <1>6, Zenon DEF Same

\* A sort puts what was listed in order.
LEMMA SortedInOrder ==
    ASSUME NEW S, NEW w, Weighted(S, w), NEW f \in Listings(S),
           NEW q \in Sorted([i \in DOMAIN f |-> w[f[i]]])
    PROVE  InOrder(q, S, w)
<1> DEFINE n == Cardinality(S)
           points == [i \in DOMAIN f |-> w[f[i]]]
<1>1. n \in Nat
  BY FS_CardinalityType, Zenon DEF Weighted
<1>2. f \in Bijection(1..n, S)
  BY DEF Listings
<1> HIDE DEF n
<1>3. f \in [1..n -> S] /\ DOMAIN f = 1..n
  BY <1>2 DEF Bijection, Injection
<1>4. DOMAIN points = 1..n /\ \A i \in 1..n : points[i] = w[f[i]]
  BY <1>3
<1> HIDE DEF points
<1>5. PICK p \in Bijection(1..n, 1..n) : q = [i \in 1..n |-> points[p[i]]]
  BY <1>4, Zenon DEF Sorted, points
<1>6. Ascending(q)
  BY Zenon DEF Sorted
<1> DEFINE b == [i \in 1..n |-> f[p[i]]]
<1>7. b \in Bijection(1..n, S)
  BY <1>2, <1>5, Fun_BijTransitive
<1>8. p \in [1..n -> 1..n]
  BY <1>5 DEF Bijection, Injection
<1>9. \A i \in 1..n : q[i] = w[b[i]]
  BY <1>4, <1>5, <1>8
<1>10. \A d \in S : w[d] \in Nat
  BY DEF Weighted
<1>11. q \in [1..n -> Nat]
  BY <1>3, <1>4, <1>5, <1>8, <1>10
<1> QED
  BY <1>6, <1>7, <1>9, <1>11 DEF InOrder, n

\* What comes first, before the others in order
LEMMA PutFirst ==
    ASSUME NEW S, NEW w, Weighted(S, w), NEW d \in S, \A e \in S : w[d] <= w[e],
           NEW r, InOrder(r, S \ {d}, w)
    PROVE  \E q : InOrder(q, S, w)
<1> DEFINE n == Cardinality(S)
           m == Cardinality(S \ {d})
<1>1. n \in Nat /\ m \in Nat /\ n = m + 1
  <2>1. IsFiniteSet(S)
    BY DEF Weighted
  <2>2. n \in Nat /\ m \in Nat
    BY <2>1, FS_CardinalityType, FS_RemoveElement, Zenon
  <2>3. m = n - 1
    BY <2>1, FS_RemoveElement
  <2> QED BY <2>2, <2>3
<1>2. r \in [1..m -> Nat] /\ Ascending(r)
  BY DEF InOrder
<1>3. PICK c \in Bijection(1..m, S \ {d}) : \A i \in 1..m : r[i] = w[c[i]]
  BY DEF InOrder
<1> HIDE DEF m
<1>4. /\ c \in [1..m -> S \ {d}] /\ \A i, j \in 1..m : c[i] = c[j] => i = j
      /\ \A e \in S \ {d} : \E i \in 1..m : c[i] = e
  BY <1>3 DEF Bijection, Injection, Surjection, IsInjective
<1> HIDE DEF n
<1> DEFINE b == [i \in 1..n |-> IF i = 1 THEN d ELSE c[i - 1]]
           q == [i \in 1..n |-> w[b[i]]]
<1>5. \A i \in 2..n : i - 1 \in 1..m
  BY <1>1
<1>6. \A i \in 1..n : i = 1 \/ i \in 2..n
  BY <1>1
<1>7. b \in [1..n -> S] /\ b[1] = d /\ \A i \in 2..n : b[i] = c[i - 1] /\ b[i] # d
  BY <1>1, <1>4, <1>5, <1>6
<1> HIDE DEF b
<1>8. \A i, j \in 1..n : b[i] = b[j] => i = j
  <2>1. ASSUME NEW i \in 1..n, NEW j \in 1..n, b[i] = b[j] PROVE i = j
    <3>1. CASE i = 1
      BY <1>6, <1>7, <2>1, <3>1
    <3>2. CASE j = 1
      BY <1>6, <1>7, <2>1, <3>2
    <3>3. CASE i \in 2..n /\ j \in 2..n
      <4>1. i - 1 = j - 1
        BY <1>4, <1>5, <1>7, <2>1, <3>3
      <4> QED BY <3>3, <4>1
    <3> QED BY <1>6, <3>1, <3>2, <3>3
  <2> QED BY <2>1
<1>9. \A e \in S : \E i \in 1..n : b[i] = e
  <2>1. ASSUME NEW e \in S PROVE \E i \in 1..n : b[i] = e
    <3>1. CASE e = d
      BY <1>1, <1>7, <3>1
    <3>2. CASE e # d
      <4>1. PICK i \in 1..m : c[i] = e
        BY <1>4, <3>2
      <4>2. i + 1 \in 2..n /\ i + 1 \in 1..n /\ (i + 1) - 1 = i
        BY <1>1
      <4>3. b[i + 1] = c[(i + 1) - 1]
        BY <1>7, <4>2, Zenon
      <4> QED BY <4>1, <4>2, <4>3
    <3> QED BY <3>1, <3>2
  <2> QED BY <2>1
<1>10. b \in Bijection(1..n, S)
  BY <1>7, <1>8, <1>9, Fun_IsBij, Zenon
<1>11. \A e \in S : w[e] \in Nat
  BY DEF Weighted
<1>12. q \in [1..n -> Nat]
  BY <1>7, <1>11
<1>13. Ascending(q)
  <2>1. ASSUME NEW i \in 1..n, NEW j \in 1..n, i < j PROVE q[i] <= q[j]
    <3>1. CASE i = 1
      BY <1>7, <3>1
    <3>2. CASE i # 1
      <4>1. i \in 2..n /\ j \in 2..n /\ i - 1 \in 1..m /\ j - 1 \in 1..m /\ i - 1 < j - 1
        BY <1>1, <2>1, <3>2
      <4>2. r[i - 1] <= r[j - 1]
        BY <1>2, <4>1 DEF Ascending
      <4>3. r[i - 1] = w[c[i - 1]] /\ r[j - 1] = w[c[j - 1]]
        BY <1>3, <4>1
      <4> QED BY <1>7, <4>1, <4>2, <4>3
    <3> QED BY <3>1, <3>2
  <2> QED BY <2>1 DEF Ascending
<1>14. InOrder(q, S, w)
  BY <1>10, <1>12, <1>13 DEF InOrder, n
<1> QED
  BY <1>14

\* Everything can be sorted.
LEMMA OrderExists ==
    ASSUME NEW S, NEW w, Weighted(S, w)
    PROVE  \E q : InOrder(q, S, w)
<1> DEFINE Unsortable(n) == \E T : Weighted(T, w) /\ Cardinality(T) = n /\ ~\E q : InOrder(q, T, w)
           Bad == {n \in Nat : Unsortable(n)}
<1>1. SUFFICES ASSUME ~\E q : InOrder(q, S, w) PROVE FALSE
  OBVIOUS
<1>2. Cardinality(S) \in Bad
  <2>1. Cardinality(S) \in Nat
    BY FS_CardinalityType, Zenon DEF Weighted
  <2> QED BY <1>1, <2>1
<1>3. PICK n \in Bad : \A m \in Bad : n <= m
  <2> HIDE DEF Unsortable
  <2> QED BY <1>2, LeastOf, Zenon
<1>4. PICK T : Weighted(T, w) /\ Cardinality(T) = n /\ ~\E q : InOrder(q, T, w)
  BY <1>3
<1>5. IsFiniteSet(T) /\ \A d \in T : w[d] \in Nat
  BY <1>4 DEF Weighted
<1>6. T # {}
  <2>1. SUFFICES ASSUME T = {} PROVE FALSE
    OBVIOUS
  <2>2. Cardinality(T) = 0
    BY <2>1, FS_EmptySet, Zenon
  <2>3. 1..0 = {}
    OBVIOUS
  <2> DEFINE none == [i \in {} |-> 0]
  <2>4. none \in [{} -> Nat] /\ Ascending(none)
    BY DEF Ascending
  <2>5. none \in Bijection({}, {})
    BY DEF Bijection, Injection, Surjection, IsInjective
  <2>6. InOrder(none, T, w)
    BY <2>1, <2>2, <2>3, <2>4, <2>5 DEF InOrder
  <2> QED BY <1>4, <2>6
<1>7. PICK d \in T : \A e \in T : w[d] <= w[e]
  <2> DEFINE Values == {w[e] : e \in T}
  <2>1. Values \subseteq Nat /\ Values # {}
    BY <1>5, <1>6
  <2>2. PICK v \in Values : \A x \in Values : v <= x
    <3> HIDE DEF Values
    <3> QED BY <2>1, LeastOf, Zenon
  <2> QED BY <2>2
<1>8. Weighted(T \ {d}, w)
  <2>1. IsFiniteSet(T \ {d})
    BY <1>5, FS_RemoveElement, Zenon
  <2> QED BY <1>5, <2>1 DEF Weighted
<1>9. Cardinality(T \ {d}) = n - 1 /\ n - 1 \in Nat
  <2>1. Cardinality(T \ {d}) = n - 1
    BY <1>4, <1>5, <1>7, FS_RemoveElement
  <2>2. Cardinality(T \ {d}) \in Nat
    BY <1>8, FS_CardinalityType, Zenon DEF Weighted
  <2> QED BY <2>1, <2>2
<1>10. n - 1 \notin Bad
  BY <1>3, <1>9
<1>11. PICK r : InOrder(r, T \ {d}, w)
  BY <1>8, <1>9, <1>10
<1> QED
  BY <1>4, <1>7, <1>11, PutFirst

-----------------------------------------------------------------------------
(* The fingerprint of a machine *)

M == Cardinality(Sources)
Self == [s \in Sources |-> s]
Names == CHOOSE q : InOrder(q, Sources, Self)

\* The data points of a source, as it hands them out
Ready(s) == CHOOSE q : InOrder(q, Found(Devices[s]), Point)

\* f[i] is what the hash was fed with after i of the first n sources.
Feeds(f, n) ==
    /\ f \in [0..n -> Seq(Nat)] /\ f[0] = <<>>
    /\ \A i \in 1..n : f[i] = f[i - 1] \o Ready(Names[i])

Fed == CHOOSE f : Feeds(f, M)

Fingerprint == Fed[M]

\* Names of sources are numbers, so they can be sorted.
LEMMA SourcesWeighted == Weighted(Sources, Self) /\ M \in Nat
<1>1. IsFiniteSet(Sources) /\ \A s \in Sources : Self[s] \in Nat
  BY IdentityAssumption DEF Self
<1> QED
  BY <1>1, FS_CardinalityType, Zenon DEF Weighted, M

\* The sequence of names has each source once.
LEMMA NamesAre ==
    /\ InOrder(Names, Sources, Self)
    /\ Names \in [1..M -> Nat]
    /\ \A i \in 1..M : Names[i] \in Sources
    /\ \A i, j \in 1..M : Names[i] = Names[j] => i = j
    /\ \A s \in Sources : \E i \in 1..M : Names[i] = s
<1>1. InOrder(Names, Sources, Self)
  BY SourcesWeighted, OrderExists, Zenon DEF Names
<1>2. PICK b \in Bijection(1..M, Sources) : \A i \in 1..M : Names[i] = Self[b[i]]
  BY <1>1 DEF InOrder, M
<1>3. /\ b \in [1..M -> Sources] /\ \A i, j \in 1..M : b[i] = b[j] => i = j
      /\ \A s \in Sources : \E i \in 1..M : b[i] = s
  BY <1>2 DEF Bijection, Injection, Surjection, IsInjective
<1>4. \A i \in 1..M : Names[i] = b[i]
  BY <1>2, <1>3 DEF Self
<1>5. Names \in [1..M -> Nat]
  BY <1>1 DEF InOrder, M
<1> QED
  BY <1>1, <1>3, <1>4, <1>5

\* What a source finds can be sorted.
LEMMA FoundWeighted ==
    ASSUME NEW s \in Sources
    PROVE  /\ Weighted(Found(Devices[s]), Point)
           /\ IsFiniteSet(Found(Devices[s])) /\ Cardinality(Found(Devices[s])) \in Nat
<1>1. IsFiniteSet(Devices[s]) /\ \A d \in Devices[s] : Point[d] \in Nat
  BY IdentityAssumption, Zenon
<1>2. Found(Devices[s]) \in SUBSET Devices[s]
  BY DEF Found
<1>3. IsFiniteSet(Found(Devices[s]))
  BY <1>1, <1>2, FS_Subset, Zenon
<1> QED
  BY <1>1, <1>2, <1>3, FS_CardinalityType, Zenon DEF Weighted

\* What a source hands out is a sequence, as long as it found devices.
LEMMA ReadyIs ==
    ASSUME NEW s \in Sources
    PROVE  /\ InOrder(Ready(s), Found(Devices[s]), Point)
           /\ Ready(s) \in Seq(Nat)
           /\ Len(Ready(s)) = Cardinality(Found(Devices[s]))
<1> DEFINE n == Cardinality(Found(Devices[s]))
<1>1. InOrder(Ready(s), Found(Devices[s]), Point)
  BY FoundWeighted, OrderExists, Zenon DEF Ready
<1>2. n \in Nat
  BY FoundWeighted
<1>3. Ready(s) \in [1..n -> Nat]
  BY <1>1 DEF InOrder
<1> HIDE DEF n
<1>4. Ready(s) \in Seq(Nat) /\ Len(Ready(s)) = n
  BY <1>2, <1>3
<1> QED
  BY <1>1, <1>4 DEF n

\* The sequence of data points goes on source by source.
LEMMA FedIs ==
    /\ Fed[0] = <<>>
    /\ \A i \in 0..M : Fed[i] \in Seq(Nat)
    /\ \A k \in 1..M : Fed[k] = Fed[k - 1] \o Ready(Names[k])
<1> DEFINE Bad == {n \in 0..M : ~\E f : Feeds(f, n)}
<1>1. ASSUME Bad # {} PROVE FALSE
  <2>1. Bad \subseteq Nat
    BY SourcesWeighted
  <2>2. PICK n \in Bad : \A m \in Bad : n <= m
    BY <1>1, <2>1, LeastOf, Zenon
  <2>3. n # 0
    <3>1. Feeds([i \in 0..0 |-> <<>>], 0)
      BY DEF Feeds
    <3> QED BY <2>2, <3>1
  <2>4. n \in 1..M /\ n \in Nat /\ n - 1 \in 0..M /\ ~(n <= n - 1)
    BY <2>2, <2>3, SourcesWeighted
  <2>5. PICK g : Feeds(g, n - 1)
    BY <2>2, <2>4
  <2>6. g[n - 1] \in Seq(Nat) /\ Ready(Names[n]) \in Seq(Nat)
    BY <2>4, <2>5, NamesAre, ReadyIs DEF Feeds
  <2> DEFINE last == g[n - 1] \o Ready(Names[n])
             h == [i \in 0..n |-> IF i = n THEN last ELSE g[i]]
  <2>7. last \in Seq(Nat)
    BY <2>6
  <2> HIDE DEF last
  <2>8. h \in [0..n -> Seq(Nat)] /\ h[0] = <<>>
    BY <2>4, <2>5, <2>7 DEF Feeds
  <2>9. ASSUME NEW i \in 1..n PROVE h[i] = h[i - 1] \o Ready(Names[i])
    <3>1. i \in 0..n /\ i - 1 \in 0..n /\ i - 1 # n
      BY <2>4
    <3>2. h[i - 1] = g[i - 1]
      BY <3>1
    <3>3. CASE i = n
      BY <3>1, <3>2, <3>3 DEF last
    <3>4. CASE i # n
      <4>1. i \in 1..(n - 1) /\ h[i] = g[i]
        BY <2>4, <3>1, <3>4
      <4>2. g[i] = g[i - 1] \o Ready(Names[i])
        BY <2>5, <4>1, Zenon DEF Feeds
      <4> QED BY <3>2, <4>1, <4>2
    <3> QED BY <3>3, <3>4
  <2>10. Feeds(h, n)
    BY <2>8, <2>9, Zenon DEF Feeds
  <2> QED BY <2>2, <2>10
<1>2. M \in 0..M
  BY SourcesWeighted
<1>3. Feeds(Fed, M)
  BY <1>1, <1>2, Zenon DEF Fed
<1> QED
  BY <1>3, Zenon DEF Feeds

\* The devices of the first k sources
FoundBy(k) == UNION {Found(Devices[Names[i]]) : i \in 1..k}

\* It has one data point of each device that was found.
LEMMA FedLength ==
    ASSUME NEW k \in 0..M
    PROVE  IsFiniteSet(FoundBy(k)) /\ Len(Fed[k]) = Cardinality(FoundBy(k))
<1> DEFINE Good(j) == IsFiniteSet(FoundBy(j)) /\ Len(Fed[j]) = Cardinality(FoundBy(j))
           Bad == {j \in 0..M : ~Good(j)}
<1>1. SUFFICES ASSUME Bad # {} PROVE FALSE
  OBVIOUS
<1>2. Bad \subseteq Nat
  BY SourcesWeighted
<1>3. PICK j \in Bad : \A i \in Bad : j <= i
  <2> HIDE DEF Good
  <2> QED BY <1>1, <1>2, LeastOf, Zenon
<1>4. j # 0
  <2>1. 1..0 = {}
    OBVIOUS
  <2>2. FoundBy(0) = {}
    BY <2>1, Zenon DEF FoundBy
  <2>3. Len(Fed[0]) = 0
    BY FedIs
  <2>4. Good(0)
    BY <2>2, <2>3, FS_EmptySet, Zenon
  <2> QED BY <1>3, <2>4
<1>5. j \in 1..M /\ j - 1 \in 0..M /\ ~(j <= j - 1) /\ j \in Nat /\ j - 1 \in Nat
  BY <1>3, <1>4, SourcesWeighted
<1>6. Good(j - 1)
  BY <1>3, <1>5
<1> DEFINE s == Names[j]
           F == Found(Devices[s])
<1>7. s \in Sources
  BY <1>5, NamesAre
<1>8. /\ IsFiniteSet(F) /\ Cardinality(F) \in Nat
      /\ Len(Ready(s)) = Cardinality(F) /\ Ready(s) \in Seq(Nat)
  BY <1>7, FoundWeighted, ReadyIs
<1>9. FoundBy(j) = FoundBy(j - 1) \union F
  <2>1. \A i : i \in 1..j <=> i \in 1..(j - 1) \/ i = j
    BY <1>5
  <2> QED BY <2>1, Zenon DEF FoundBy
<1>10. FoundBy(j - 1) \intersect F = {}
  <2>1. SUFFICES ASSUME NEW d, d \in FoundBy(j - 1), d \in F PROVE FALSE
    OBVIOUS
  <2>2. PICK i \in 1..(j - 1) : d \in Found(Devices[Names[i]])
    BY <2>1, Zenon DEF FoundBy
  <2>3. i \in 1..M /\ i # j
    BY <1>5, SourcesWeighted
  <2>4. Names[i] \in Sources /\ Names[i] # s
    BY <1>5, <2>3, NamesAre
  <2>5. d \in Devices[Names[i]] /\ d \in Devices[s]
    BY <2>1, <2>2 DEF Found
  <2> QED BY <1>7, <2>4, <2>5, IdentityAssumption, Zenon
<1>11. /\ IsFiniteSet(FoundBy(j))
       /\ Cardinality(FoundBy(j)) = Cardinality(FoundBy(j - 1)) + Cardinality(F)
  <2>1. Cardinality({}) = 0
    BY FS_EmptySet, Zenon
  <2>2. IsFiniteSet(FoundBy(j - 1)) /\ Cardinality(FoundBy(j - 1)) \in Nat
    BY <1>6, FS_CardinalityType, Zenon
  <2> HIDE DEF F
  <2>3. /\ IsFiniteSet(FoundBy(j - 1) \union F)
        /\ Cardinality(FoundBy(j - 1) \union F) =
               Cardinality(FoundBy(j - 1)) + Cardinality(F)
                   - Cardinality(FoundBy(j - 1) \intersect F)
    BY <1>8, <2>2, FS_Union, Zenon
  <2>4. Cardinality(FoundBy(j - 1) \intersect F) = 0
    BY <1>10, <2>1, Zenon
  <2>5. IsFiniteSet(FoundBy(j)) /\ Cardinality(FoundBy(j)) = Cardinality(FoundBy(j - 1) \union F)
    BY <1>9, <2>3, Zenon
  <2>6. PICK x \in Nat, y \in Nat : x = Cardinality(FoundBy(j - 1)) /\ y = Cardinality(F)
    BY <1>8, <2>2 DEF F
  <2>7. x + y - 0 = x + y
    OBVIOUS
  <2> QED BY <2>3, <2>4, <2>5, <2>6, <2>7, Zenon DEF F
<1>12. Len(Fed[j]) = Len(Fed[j - 1]) + Len(Ready(s))
  <2>1. Fed[j] = Fed[j - 1] \o Ready(s) /\ Fed[j - 1] \in Seq(Nat)
    BY <1>5, FedIs
  <2> QED BY <1>8, <2>1, ConcatProperties
<1>13. Good(j)
  BY <1>6, <1>8, <1>11, <1>12
<1> QED
  BY <1>3, <1>13

\* All sources together find all data points.
LEMMA AllFound == FoundBy(M) = AllPoints
<1>1. ASSUME NEW d \in FoundBy(M) PROVE d \in AllPoints
  <2>1. PICK i \in 1..M : d \in Found(Devices[Names[i]])
    BY <1>1, Zenon DEF FoundBy
  <2>2. Names[i] \in Sources
    BY NamesAre
  <2> QED BY <2>1, <2>2, Zenon DEF Found, AllPoints
<1>2. ASSUME NEW d \in AllPoints PROVE d \in FoundBy(M)
  <2>1. PICK s \in Sources : d \in Found(Devices[s])
    BY <1>2, Zenon DEF Found, AllPoints
  <2>2. PICK i \in 1..M : Names[i] = s
    BY NamesAre
  <2> QED BY <2>1, <2>2, Zenon DEF FoundBy
<1> QED
  BY <1>1, <1>2

-----------------------------------------------------------------------------
(* The command *)

\* Data points that are long enough
Long(h) == {i \in DOMAIN h : h[i] \notin Short}

\* There are finitely many of them.
LEMMA LongIs ==
    ASSUME NEW h \in Seq(Nat)
    PROVE  IsFiniteSet(Long(h)) /\ Cardinality(Long(h)) \in Nat
<1>1. DOMAIN h = 1..Len(h) /\ Len(h) \in Nat
  BY LenProperties
<1>2. IsFiniteSet(1..Len(h))
  BY <1>1, FS_Interval
<1>3. Long(h) \in SUBSET (1..Len(h))
  BY <1>1 DEF Long
<1>4. IsFiniteSet(Long(h))
  BY <1>2, <1>3, FS_Subset, Zenon
<1> QED
  BY <1>4, FS_CardinalityType, Zenon

\* None, before anything is fed
LEMMA LongEmpty == Cardinality(Long(<<>>)) = 0
<1>1. Long(<<>>) = {}
  BY DEF Long
<1> QED
  BY <1>1, FS_EmptySet, Zenon

\* One more, if a data point that is long enough is fed
LEMMA LongAppend ==
    ASSUME NEW h \in Seq(Nat), NEW p \in Nat
    PROVE  Cardinality(Long(Append(h, p))) =
               IF p \in Short THEN Cardinality(Long(h)) ELSE Cardinality(Long(h)) + 1
<1> DEFINE n == Len(h) + 1
           g == Append(h, p)
<1>1. Len(h) \in Nat /\ n \in Nat /\ DOMAIN h = 1..Len(h)
  BY LenProperties
<1>2. /\ DOMAIN g = 1..n /\ g[n] = p
      /\ \A i \in 1..Len(h) : g[i] = h[i]
  BY <1>1, AppendProperties
<1>3. n \notin Long(h)
  BY <1>1 DEF Long
<1>4. \A i : i \in 1..n <=> i \in 1..Len(h) \/ i = n
  BY <1>1
<1> HIDE DEF g, n
<1>5. CASE p \in Short
  <2>1. \A i : i \in Long(g) <=> i \in Long(h)
    BY <1>1, <1>2, <1>4, <1>5 DEF Long
  <2>2. Long(g) = Long(h)
    BY <2>1, Zenon
  <2> QED BY <1>5, <2>2, Zenon DEF g
<1>6. CASE p \notin Short
  <2>1. Long(g) = Long(h) \union {n}
    <3>1. \A i : i \in Long(g) <=> i \in Long(h) \/ i = n
      BY <1>1, <1>2, <1>4, <1>6 DEF Long
    <3> QED BY <3>1, Zenon
  <2>2. Cardinality(Long(h) \union {n}) = Cardinality(Long(h)) + 1
    BY <1>3, LongIs, FS_AddElement
  <2> QED BY <1>6, <2>1, <2>2, Zenon DEF g
<1> QED
  BY <1>5, <1>6

\* names has the sources after the first k.
NamesFrom(k) ==
    /\ names \in Seq(Nat) /\ Len(names) = M - k
    /\ \A i \in 1..(M - k) : names[i] = Names[k + i]

\* Nothing was read of them.
Unread(k) == \A i \in (k + 1)..M : chunks[Names[i]] = <<>> /\ index[Names[i]] = 1

\* The source s was filled, and a part of it was fed to the hash.
Within(k, s) ==
    /\ s = Names[k + 1]
    /\ chunks[s] = Ready(s) /\ Ready(s) # <<>>
    /\ index[s] \in 1..(Len(Ready(s)) + 1)
    /\ hash = Fed[k] \o SubSeq(Ready(s), 1, index[s] - 1)

At(k) ==
    /\ NamesFrom(k)
    /\ \/ Unread(k) /\ hash = Fed[k]
       \/ k < M /\ Unread(k + 1) /\ \E s \in Sources : Within(k, s)

Fetching ==
    idpc = "fetch" /\ ~failed =>
        /\ chunks \in [Sources -> Seq(Nat)] /\ index \in [Sources -> Nat]
        /\ hash \in Seq(Nat) /\ count = Cardinality(Long(hash))
        /\ \E k \in 0..M : At(k)

Stopped == idpc = "fetch" /\ failed => names # <<>>

\* The key is made from all data points of the machine, and they are enough.
Enough == Cardinality(Long(Fingerprint)) >= MinCount

Keyed ==
    idpc \in {"public", "publicOpen", "private", "privateOpen"} =>
        hash = Fingerprint /\ Enough

Saved == \A f \in {pub, priv} : f.is = "whole" => f.key = Fingerprint /\ Enough

IdentityInv ==
    /\ idpc \in {"off", "fetch", "public", "publicOpen", "private", "privateOpen"}
    /\ Fetching /\ Stopped /\ Keyed /\ Saved

\* The sequence of names, one further on
LEMMA NamesTail ==
    ASSUME NEW k \in 0..M, NamesFrom(k), names # <<>>
    PROVE  /\ k < M /\ k + 1 \in 1..M
           /\ Source = Names[k + 1] /\ Source \in Sources
           /\ Tail(names) \in Seq(Nat) /\ Len(Tail(names)) = M - (k + 1)
           /\ \A i \in 1..(M - (k + 1)) : Tail(names)[i] = Names[k + 1 + i]
<1>1. M \in Nat /\ k \in Nat
  BY SourcesWeighted
<1>2. names \in Seq(Nat) /\ Len(names) = M - k /\ Len(names) > 0
  BY DEF NamesFrom
<1>3. k < M /\ k + 1 \in 1..M
  BY <1>1, <1>2
<1>4. Source = names[1] /\ 1 \in 1..(M - k)
  BY <1>1, <1>2, <1>3 DEF Source
<1>5. Source = Names[k + 1]
  BY <1>4 DEF NamesFrom
<1>6. Tail(names) \in Seq(Nat) /\ Len(Tail(names)) = M - (k + 1)
  BY <1>1, <1>2
<1>7. ASSUME NEW i \in 1..(M - (k + 1)) PROVE Tail(names)[i] = Names[k + 1 + i]
  <2>1. Tail(names)[i] = names[i + 1]
    BY <1>1, <1>2
  <2>2. i + 1 \in 1..(M - k) /\ k + (i + 1) = k + 1 + i
    BY <1>1
  <2> QED BY <2>1, <2>2 DEF NamesFrom
<1> QED
  BY <1>3, <1>5, <1>6, <1>7, NamesAre

\* Nothing of a source
LEMMA FeedNone ==
    ASSUME NEW a \in Seq(Nat), NEW s \in Seq(Nat)
    PROVE  a \o SubSeq(s, 1, 0) = a
<1>1. SubSeq(s, 1, 0) = <<>>
  OBVIOUS
<1> QED
  BY <1>1

Regrouped(a, b, c) == (a \o b) \o c = a \o (b \o c)

\* Concatenation is associative.
LEMMA Regroup ==
    ASSUME NEW a \in Seq(Nat), NEW b \in Seq(Nat), NEW c \in Seq(Nat)
    PROVE  Regrouped(a, b, c)
BY ConcatAssociative DEF Regrouped

\* One data point more
LEMMA FeedOne ==
    ASSUME NEW a \in Seq(Nat), NEW s \in Seq(Nat), NEW j \in 1..Len(s)
    PROVE  Append(a \o SubSeq(s, 1, j - 1), s[j]) = a \o SubSeq(s, 1, j)
<1>1. SubSeq(s, 1, j - 1) \in Seq(Nat) /\ SubSeq(s, 1, j) \in Seq(Nat) /\ s[j] \in Nat
  BY LenProperties
<1>2. SubSeq(s, 1, j) = Append(SubSeq(s, 1, j - 1), s[j])
  <2> DEFINE x == SubSeq(s, 1, j)
             u == SubSeq(s, 1, j - 1)
             y == Append(u, s[j])
  <2>1. j \in Nat \ {0} /\ j - 1 \in Nat
    OBVIOUS
  <2>2. Len(x) = j /\ Len(u) = j - 1
    BY <1>1
  <2>3. \A i \in 1..j : x[i] = s[i]
    OBVIOUS
  <2>4. \A i \in 1..(j - 1) : u[i] = s[i]
    OBVIOUS
  <2> HIDE DEF x, u
  <2>5. y \in Seq(Nat) /\ Len(y) = j
    BY <1>1, <2>1, <2>2, AppendProperties DEF u
  <2>6. y[j] = s[j] /\ \A i \in 1..(j - 1) : y[i] = s[i]
    BY <1>1, <2>1, <2>2, <2>4, AppendProperties DEF u
  <2>7. \A i \in 1..j : y[i] = x[i]
    <3>1. \A i \in 1..j : i = j \/ i \in 1..(j - 1)
      BY <2>1
    <3> HIDE DEF y
    <3> QED BY <2>3, <2>6, <3>1, Zenon
  <2> HIDE DEF y
  <2>8. x = y
    BY <1>1, <2>2, <2>5, <2>7, SeqEqual DEF x
  <2> QED BY <2>8 DEF x, y, u
<1> DEFINE u == SubSeq(s, 1, j - 1)
           e == s[j]
<1>3. a \o u \in Seq(Nat) /\ <<e>> \in Seq(Nat)
  BY <1>1
<1> HIDE DEF u, e
<1>4. Append(a \o u, e) = (a \o u) \o <<e>>
  BY <1>1, <1>3, AppendIsConcat, Zenon DEF u, e
<1>5. Append(u, e) = u \o <<e>>
  BY <1>1, AppendIsConcat, Zenon DEF u, e
<1>6. (a \o u) \o <<e>> = a \o (u \o <<e>>)
  <2>1. u \in Seq(Nat)
    BY <1>1 DEF u
  <2>2. PICK t \in Seq(Nat) : t = <<e>>
    BY <1>3
  <2>3. Regrouped(a, u, t)
    BY <2>1, Regroup, Zenon
  <2> QED BY <2>2, <2>3, Zenon DEF Regrouped
<1> QED
  BY <1>2, <1>4, <1>5, <1>6, Zenon DEF u, e

\* All of a source
LEMMA FeedAll ==
    ASSUME NEW a \in Seq(Nat), NEW s \in Seq(Nat)
    PROVE  a \o SubSeq(s, 1, Len(s)) = a \o s
<1>1. SubSeq(s, 1, Len(s)) = s
  BY SubSeqFull
<1> QED
  BY <1>1

\* Fetch begins with all names, in one order.
LEMMA RunStep ==
    ASSUME NEW order \in Listings(Sources), Run(order)
    PROVE  Fetching'
<1>1. names' \in Sorted(order)
  BY Zenon DEF Run
<1>2. order = [i \in DOMAIN order |-> Self[order[i]]]
  <2>1. order \in [1..M -> Sources]
    BY DEF Listings, Bijection, Injection, M
  <2> QED BY <2>1 DEF Self
<1>3. InOrder(names', Sources, Self)
  BY <1>1, <1>2, SourcesWeighted, SortedInOrder
<1>4. Same(names', Names)
  BY <1>3, SourcesWeighted, NamesAre, OneOrder, Zenon
<1>5. /\ chunks' = [s \in Sources |-> <<>>] /\ index' = [s \in Sources |-> 1]
      /\ hash' = <<>> /\ count' = 0
  BY Zenon DEF Run
<1>6. M \in Nat /\ Names \in [1..M -> Nat]
  BY SourcesWeighted, NamesAre
<1>7. names' = Names /\ names' \in Seq(Nat) /\ Len(names') = M - 0
  BY <1>4, <1>6 DEF Same
<1>8. NamesFrom(0)'
  BY <1>6, <1>7 DEF NamesFrom
<1>9. Unread(0)'
  BY <1>5, <1>6, NamesAre DEF Unread
<1>10. At(0)'
  BY <1>5, <1>8, <1>9, FedIs, Zenon DEF At
<1>11. 0 \in 0..M
  BY <1>6
<1> QED
  BY <1>5, <1>10, <1>11, LongEmpty DEF Fetching

\* A source that is filled has the data points that it always has.
LEMMA FillStep ==
    ASSUME Fetching, names # <<>>, NEW order \in Listings(Found(Devices[Source])), Fill(order)
    PROVE  Fetching'
<1>1. idpc = "fetch" /\ ~failed /\ chunks[Source] = <<>> /\ Filled(order) # <<>>
  BY Zenon DEF Fill
<1>2. PICK sorted \in Sorted(Filled(order)) : chunks' = [chunks EXCEPT ![Source] = sorted]
  BY Zenon DEF Fill
<1>3. names' = names /\ index' = index /\ hash' = hash /\ count' = count
  BY Zenon DEF Fill
<1>4. /\ chunks \in [Sources -> Seq(Nat)] /\ index \in [Sources -> Nat]
      /\ hash \in Seq(Nat) /\ count = Cardinality(Long(hash))
  BY <1>1, Zenon DEF Fetching
<1>5. PICK k \in 0..M : At(k)
  BY <1>1, Zenon DEF Fetching
<1> DEFINE s == Names[k + 1]
<1>6. k < M /\ k + 1 \in 1..M /\ Source = s /\ s \in Sources
  BY <1>5, NamesTail, Zenon DEF At
<1>7. Unread(k) /\ hash = Fed[k]
  BY <1>1, <1>5, <1>6, Zenon DEF At, Within
<1>8. InOrder(sorted, Found(Devices[s]), Point)
  <2>1. sorted \in Sorted([i \in DOMAIN order |-> Point[order[i]]])
    BY <1>2, Zenon DEF Filled
  <2>2. order \in Listings(Found(Devices[s])) /\ Weighted(Found(Devices[s]), Point)
    BY <1>6, FoundWeighted, Zenon
  <2> HIDE DEF s
  <2> QED BY <2>1, <2>2, SortedInOrder, Zenon
<1>9. sorted = Ready(s)
  <2>1. Same(sorted, Ready(s))
    BY <1>6, <1>8, FoundWeighted, ReadyIs, OneOrder, Zenon
  <2> QED BY <2>1, Zenon DEF Same
<1>10. Ready(s) \in Seq(Nat)
  BY <1>6, ReadyIs
<1>11. Ready(s) # <<>>
  <2> DEFINE n == Cardinality(Found(Devices[s]))
  <2>1. n \in Nat /\ Len(Ready(s)) = n
    BY <1>6, FoundWeighted, ReadyIs
  <2>2. DOMAIN order = 1..n
    BY <1>6 DEF Listings, Bijection, Injection
  <2>3. n # 0
    <3>1. SUFFICES ASSUME n = 0 PROVE FALSE
      OBVIOUS
    <3>2. Filled(order) = <<>>
      BY <2>2, <3>1 DEF Filled
    <3> QED BY <1>1, <3>2
  <2> QED BY <2>1, <2>3
<1>12. k \in Nat /\ M \in Nat
  BY SourcesWeighted
<1> HIDE DEF s
<1>13. chunks' \in [Sources -> Seq(Nat)] /\ chunks'[s] = Ready(s)
       /\ \A t \in Sources : t # s => chunks'[t] = chunks[t]
  BY <1>2, <1>4, <1>6, <1>9, <1>10
<1>14. Unread(k + 1)'
  <2>1. SUFFICES ASSUME NEW i \in (k + 1 + 1)..M
                 PROVE  chunks'[Names[i]] = <<>> /\ index'[Names[i]] = 1
    BY DEF Unread
  <2>2. i \in (k + 1)..M /\ i \in 1..M /\ i # k + 1
    BY <1>12
  <2>3. Names[i] \in Sources /\ Names[i] # s
    BY <1>6, <2>2, NamesAre DEF s
  <2> QED BY <1>3, <1>7, <1>13, <2>2, <2>3, Zenon DEF Unread
<1>15. index[s] = 1
  <2>1. k + 1 \in (k + 1)..M
    BY <1>6, <1>12
  <2> QED BY <1>7, <2>1, Zenon DEF Unread, s
<1>16. hash = Fed[k] \o SubSeq(Ready(s), 1, 0)
  BY <1>7, <1>10, <1>12, FedIs, FeedNone
<1>17. Within(k, s)'
  <2>1. 1 \in 1..(Len(Ready(s)) + 1)
    BY <1>10
  <2> QED BY <1>3, <1>6, <1>11, <1>13, <1>15, <1>16, <2>1 DEF Within, s
<1>18. NamesFrom(k)'
  BY <1>3, <1>5, Zenon DEF At, NamesFrom
<1>19. At(k)'
  BY <1>6, <1>14, <1>17, <1>18, Zenon DEF At
<1> QED
  BY <1>3, <1>4, <1>13, <1>19, Zenon DEF Fetching

\* A source without data points adds nothing.
LEMMA NothingStep ==
    ASSUME Fetching, FillNothing
    PROVE  Fetching'
<1>1. /\ idpc = "fetch" /\ names # <<>> /\ ~failed /\ chunks[Source] = <<>>
      /\ \A d \in Devices[Source] : Point[d] = 0
      /\ names' = Tail(names)
      /\ chunks' = chunks /\ index' = index /\ hash' = hash /\ count' = count
  BY Zenon DEF FillNothing
<1>2. PICK k \in 0..M : At(k)
  BY <1>1, Zenon DEF Fetching
<1> DEFINE s == Source
<1>3. /\ k < M /\ k + 1 \in 1..M /\ s = Names[k + 1] /\ s \in Sources
      /\ Tail(names) \in Seq(Nat) /\ Len(Tail(names)) = M - (k + 1)
      /\ \A i \in 1..(M - (k + 1)) : Tail(names)[i] = Names[k + 1 + i]
  BY <1>1, <1>2, NamesTail, Zenon DEF At
<1>4. Unread(k) /\ hash = Fed[k]
  BY <1>1, <1>2, <1>3, Zenon DEF At, Within
<1>5. k \in Nat /\ M \in Nat /\ (k + 1) - 1 = k
  BY SourcesWeighted
<1>6. Ready(s) = <<>>
  <2>1. Found(Devices[s]) = {}
    BY <1>1 DEF Found
  <2>2. Len(Ready(s)) = 0 /\ Ready(s) \in Seq(Nat)
    BY <1>3, <2>1, ReadyIs, FS_EmptySet
  <2> QED BY <2>2
<1>7. Fed[k + 1] = Fed[k]
  <2>1. Fed[k + 1] = Fed[k] \o Ready(Names[k + 1]) /\ Fed[k] \in Seq(Nat)
    BY <1>3, <1>5, FedIs
  <2>2. Ready(Names[k + 1]) = <<>>
    BY <1>3, <1>6, Zenon
  <2> QED BY <2>1, <2>2, ConcatEmptySeq
<1>8. NamesFrom(k + 1)'
  BY <1>1, <1>3, Zenon DEF NamesFrom
<1>9. Unread(k + 1)'
  <2>1. \A i \in (k + 1 + 1)..M : i \in (k + 1)..M
    BY <1>5
  <2> QED BY <1>1, <1>4, <2>1, Zenon DEF Unread
<1>10. At(k + 1)'
  BY <1>1, <1>4, <1>7, <1>8, <1>9, Zenon DEF At
<1>11. k + 1 \in 0..M
  BY <1>3, <1>5
<1> QED
  BY <1>1, <1>10, <1>11, Zenon DEF Fetching

\* One data point of the source is fed to the hash.
LEMMA WriteStep ==
    ASSUME Fetching, Write
    PROVE  Fetching'
<1>1. idpc = "fetch" /\ names # <<>> /\ ~failed
  BY Zenon DEF Write
<1>2. PICK k \in 0..M : At(k)
  BY <1>1, Zenon DEF Fetching
<1>3. /\ chunks \in [Sources -> Seq(Nat)] /\ index \in [Sources -> Nat]
      /\ hash \in Seq(Nat) /\ count = Cardinality(Long(hash))
  BY <1>1, Zenon DEF Fetching
<1> DEFINE s == Names[k + 1]
<1>4. k < M /\ k + 1 \in 1..M /\ Source = s /\ s \in Sources /\ NamesFrom(k)
  BY <1>1, <1>2, NamesTail, Zenon DEF At
<1>5. PICK j \in Nat : j = index[s]
  BY <1>3, <1>4
<1> DEFINE p == chunks[s][j]
<1>6. /\ j \in DOMAIN chunks[s]
      /\ hash' = Append(hash, p)
      /\ count' = IF p \in Short THEN count ELSE count + 1
      /\ index' = [index EXCEPT ![s] = j + 1]
      /\ names' = names /\ chunks' = chunks
  BY <1>4, <1>5, Zenon DEF Write
<1>7. k \in Nat /\ M \in Nat
  BY SourcesWeighted
<1> HIDE DEF s
<1>8. chunks[s] # <<>>
  BY <1>6
<1>9. ~Unread(k)
  <2>1. k + 1 \in (k + 1)..M
    BY <1>4, <1>7
  <2> QED BY <1>8, <2>1, Zenon DEF Unread, s
<1>10. Unread(k + 1) /\ Within(k, s)
  BY <1>2, <1>4, <1>9, Zenon DEF At, Within, s
<1> DEFINE r == Ready(s)
<1>11. /\ chunks[s] = r /\ r # <<>> /\ j \in 1..(Len(r) + 1)
      /\ hash = Fed[k] \o SubSeq(r, 1, j - 1)
  BY <1>5, <1>10, Zenon DEF Within
<1>12. r \in Seq(Nat) /\ Fed[k] \in Seq(Nat)
  BY <1>4, <1>7, ReadyIs, FedIs
<1> HIDE DEF r
<1>13. j \in 1..Len(r) /\ p = r[j] /\ p \in Nat
  BY <1>6, <1>11, <1>12
<1>14. hash' = Fed[k] \o SubSeq(r, 1, j) /\ hash' \in Seq(Nat)
  BY <1>3, <1>6, <1>11, <1>12, <1>13, FeedOne, AppendProperties
<1>15. index' \in [Sources -> Nat] /\ index'[s] = j + 1
       /\ \A t \in Sources : t # s => index'[t] = index[t]
  BY <1>3, <1>4, <1>6, <1>13
<1>16. j + 1 \in 1..(Len(r) + 1) /\ (j + 1) - 1 = j
  BY <1>12, <1>13
<1>17. Within(k, s)'
  BY <1>4, <1>6, <1>11, <1>14, <1>15, <1>16, Zenon DEF Within, r, s
<1>18. Unread(k + 1)'
  <2>1. SUFFICES ASSUME NEW i \in (k + 1 + 1)..M
                 PROVE  chunks'[Names[i]] = <<>> /\ index'[Names[i]] = 1
    BY DEF Unread
  <2>2. i \in 1..M /\ i # k + 1
    BY <1>7
  <2>3. Names[i] \in Sources /\ Names[i] # s
    BY <1>4, <2>2, NamesAre DEF s
  <2> QED BY <1>6, <1>10, <1>15, <2>3, Zenon DEF Unread
<1>19. count' = Cardinality(Long(hash'))
  <2> HIDE DEF p
  <2> QED BY <1>3, <1>6, <1>13, LongAppend
<1>20. NamesFrom(k)'
  BY <1>4, <1>6, Zenon DEF NamesFrom
<1>21. At(k)'
  BY <1>4, <1>17, <1>18, <1>20, Zenon DEF At
<1> QED
  BY <1>3, <1>6, <1>14, <1>15, <1>19, <1>21, Zenon DEF Fetching

\* At its end, all of the source has been fed.
LEMMA EndStep ==
    ASSUME Fetching, SourceEnd
    PROVE  Fetching'
<1> DEFINE s == Source
           r == Ready(s)
<1>1. /\ idpc = "fetch" /\ names # <<>> /\ ~failed
      /\ chunks[s] # <<>> /\ index[s] > Len(chunks[s])
      /\ names' = Tail(names)
      /\ chunks' = chunks /\ index' = index /\ hash' = hash /\ count' = count
  BY Zenon DEF SourceEnd
<1>2. PICK k \in 0..M : At(k)
  BY <1>1, Zenon DEF Fetching
<1>3. /\ k < M /\ k + 1 \in 1..M /\ s = Names[k + 1] /\ s \in Sources
      /\ Tail(names) \in Seq(Nat) /\ Len(Tail(names)) = M - (k + 1)
      /\ \A i \in 1..(M - (k + 1)) : Tail(names)[i] = Names[k + 1 + i]
  BY <1>1, <1>2, NamesTail, Zenon DEF At
<1>4. k \in Nat /\ M \in Nat /\ (k + 1) - 1 = k
  BY SourcesWeighted
<1> HIDE DEF s
<1>5. ~Unread(k)
  <2>1. k + 1 \in (k + 1)..M
    BY <1>3, <1>4
  <2> QED BY <1>1, <1>3, <2>1, Zenon DEF Unread
<1>6. Unread(k + 1) /\ Within(k, s)
  BY <1>2, <1>3, <1>5, Zenon DEF At, Within
<1>7. /\ chunks[s] = r /\ index[s] \in 1..(Len(r) + 1)
      /\ hash = Fed[k] \o SubSeq(r, 1, index[s] - 1)
  BY <1>6, Zenon DEF Within
<1>8. r \in Seq(Nat) /\ Fed[k] \in Seq(Nat)
  BY <1>3, <1>4, ReadyIs, FedIs
<1>9. Fed[k + 1] = Fed[k] \o r
  BY <1>3, <1>4, FedIs
<1> HIDE DEF r
<1>10. index[s] - 1 = Len(r)
  BY <1>1, <1>7, <1>8
<1>11. hash = Fed[k + 1]
  BY <1>7, <1>8, <1>9, <1>10, FeedAll, Zenon
<1>12. NamesFrom(k + 1)'
  BY <1>1, <1>3, Zenon DEF NamesFrom
<1>13. Unread(k + 1)'
  BY <1>1, <1>6, Zenon DEF Unread
<1>14. At(k + 1)'
  BY <1>1, <1>11, <1>12, <1>13, Zenon DEF At
<1>15. k + 1 \in 0..M
  BY <1>3, <1>4
<1> QED
  BY <1>1, <1>14, <1>15, Zenon DEF Fetching

\* Key comes after all sources, and looks at the count.
LEMMA KeyStep ==
    ASSUME Fetching, Stopped, Key
    PROVE  Keyed'
<1>1. /\ idpc = "fetch" /\ names = <<>> /\ hash' = hash
      /\ idpc' = IF count < MinCount THEN "off" ELSE "public"
  BY Zenon DEF Key, process
<1>2. ~failed
  BY <1>1, Zenon DEF Stopped
<1>3. hash \in Seq(Nat) /\ count = Cardinality(Long(hash))
  BY <1>1, <1>2, Zenon DEF Fetching
<1>4. PICK k \in 0..M : At(k)
  BY <1>1, <1>2, Zenon DEF Fetching
<1>5. k = M
  <2>1. M \in Nat /\ Len(names) = M - k
    BY <1>4, SourcesWeighted, Zenon DEF At, NamesFrom
  <2> QED BY <1>1, <2>1
<1>6. ~(k < M)
  BY <1>5, SourcesWeighted
<1>7. hash = Fingerprint
  BY <1>4, <1>5, <1>6, Zenon DEF At, Fingerprint
<1>8. CASE count < MinCount
  BY <1>1, <1>8 DEF Keyed
<1>9. CASE ~(count < MinCount)
  <2>1. Cardinality(Long(hash)) \in Nat /\ MinCount \in Nat
    BY <1>3, LongIs, IdentityAssumption
  <2>2. Enough
    BY <1>3, <1>7, <1>9, <2>1 DEF Enough
  <2> QED BY <1>1, <1>7, <2>2, Zenon DEF Keyed, Enough
<1> QED
  BY <1>8, <1>9

\* Every step keeps the invariant.
LEMMA IdentityStep ==
    ASSUME IdentityInv, [IdentityNext]_identityVars
    PROVE  IdentityInv'
<1>1. Fetching /\ Stopped /\ Keyed /\ Saved
  BY DEF IdentityInv
<1>2. CASE \E order \in Listings(Sources) : Run(order)
  <2>1. PICK order \in Listings(Sources) : Run(order)
    BY <1>2
  <2>2. Fetching'
    BY <2>1, RunStep
  <2>3. idpc' = "fetch" /\ failed' = FALSE /\ pub' = pub /\ priv' = priv
    BY <2>1, Zenon DEF Run
  <2> QED BY <1>1, <2>2, <2>3, Zenon DEF IdentityInv, Stopped, Keyed, Saved
<1>3. CASE names # <<>> /\ \E order \in Listings(Found(Devices[Source])) : Fill(order)
  <2>1. PICK order \in Listings(Found(Devices[Source])) : Fill(order)
    BY <1>3
  <2>2. Fetching'
    BY <1>1, <1>3, <2>1, FillStep
  <2>3. /\ idpc = "fetch" /\ idpc' = idpc /\ ~failed /\ failed' = failed
        /\ pub' = pub /\ priv' = priv
    BY <2>1, Zenon DEF Fill
  <2> QED BY <1>1, <2>2, <2>3, Zenon DEF IdentityInv, Stopped, Keyed, Saved
<1>4. CASE /\ names # <<>>
           /\ \E known \in SUBSET Devices[Source] :
                  /\ known = {} \/ known # Devices[Source]
                  /\ \E order \in Listings(Found(known)) : FillFail(order)
  <2>1. PICK order : FillFail(order)
    BY <1>4, Zenon
  <2>2. /\ idpc = "fetch" /\ idpc' = idpc /\ failed' = TRUE /\ names' = names
        /\ pub' = pub /\ priv' = priv
    BY <2>1, Zenon DEF FillFail
  <2> QED BY <1>1, <1>4, <2>2, Zenon DEF IdentityInv, Fetching, Stopped, Keyed, Saved
<1>5. CASE FillNothing \/ Write \/ SourceEnd
  <2>1. Fetching'
    BY <1>1, <1>5, NothingStep, WriteStep, EndStep
  <2>2. /\ idpc = "fetch" /\ idpc' = idpc /\ ~failed /\ failed' = failed
        /\ pub' = pub /\ priv' = priv
    BY <1>5, Zenon DEF FillNothing, Write, SourceEnd
  <2> QED BY <1>1, <2>1, <2>2, Zenon DEF IdentityInv, Stopped, Keyed, Saved
<1>6. CASE FetchFail \/ Die
  <2>1. idpc' = "off" /\ pub' = pub /\ priv' = priv
    BY <1>6, Zenon DEF FetchFail, Die
  <2> QED BY <1>1, <2>1, Zenon DEF IdentityInv, Fetching, Stopped, Keyed, Saved
<1>7. CASE Key
  <2>1. Keyed'
    BY <1>1, <1>7, KeyStep
  <2>2. idpc' \in {"off", "public"} /\ pub' = pub /\ priv' = priv
    BY <1>7, Zenon DEF Key
  <2> QED BY <1>1, <2>1, <2>2, Zenon DEF IdentityInv, Fetching, Stopped, Saved
<1>8. CASE TearPublic \/ TearPrivate
  <2>1. /\ idpc \in {"public", "private"} /\ idpc' \in {"publicOpen", "privateOpen"}
        /\ hash' = hash
        /\ (pub' = pub /\ priv' = Torn) \/ (pub' = Torn /\ priv' = priv)
    BY <1>8, Zenon DEF TearPublic, TearPrivate, process
  <2>2. Torn.is # "whole"
    BY DEF Torn
  <2> QED BY <1>1, <2>1, <2>2, Zenon DEF IdentityInv, Fetching, Stopped, Keyed, Saved
<1>9. CASE SavePublic \/ SavePrivate
  <2>1. /\ idpc \in {"publicOpen", "privateOpen"} /\ idpc' \in {"private", "off"}
        /\ hash' = hash
        /\ (pub' = pub /\ priv' = File(hash)) \/ (pub' = File(hash) /\ priv' = priv)
    BY <1>9, Zenon DEF SavePublic, SavePrivate, process
  <2>2. hash = Fingerprint /\ Enough
    BY <1>1, <2>1, Zenon DEF Keyed
  <2>3. File(hash).key = Fingerprint
    BY <2>2 DEF File
  <2>4. Saved'
    BY <1>1, <2>1, <2>2, <2>3, Zenon DEF Saved, Enough
  <2> QED BY <2>1, <2>2, <2>4, Zenon DEF IdentityInv, Fetching, Stopped, Keyed, Enough
<1>10. CASE UNCHANGED identityVars
  <2>1. /\ names' = names /\ chunks' = chunks /\ index' = index /\ failed' = failed
        /\ hash' = hash /\ count' = count /\ idpc' = idpc /\ pub' = pub /\ priv' = priv
    BY <1>10, Zenon DEF identityVars
  <2>2. \A k \in 0..M : At(k) => At(k)'
    BY <2>1, Zenon DEF At, NamesFrom, Unread, Within
  <2>3. Fetching'
    BY <1>1, <2>1, <2>2, Zenon DEF Fetching
  <2> QED BY <1>1, <2>1, <2>3, Zenon DEF IdentityInv, Stopped, Keyed, Saved
<1> QED
  BY <1>2, <1>3, <1>4, <1>5, <1>6, <1>7, <1>8, <1>9, <1>10, Zenon DEF IdentityNext

\* A machine has one key: whatever the order in which its devices are listed,
\* and whenever runs are killed, a key that was saved is made from all data
\* points of all sources, in one order, and the two files hold the same one.
THEOREM KeyPairAlwaysMatches == IdentitySpec => []KeyPairMatches
<1>1. IdentityInit => IdentityInv
  <2>1. NoFile.is # "whole"
    BY DEF NoFile
  <2> QED
    BY <2>1, Zenon DEF IdentityInit, IdentityInv, Fetching, Stopped, Keyed, Saved
<1>2. IdentityInv /\ [IdentityNext]_identityVars => IdentityInv'
  BY IdentityStep
<1>3. IdentityInv => KeyPairMatches
  <2>1. SUFFICES ASSUME IdentityInv PROVE KeyPairMatches
    OBVIOUS
  <2>2. \A f \in {pub, priv} : f.is = "whole" => f.key = Fingerprint /\ Enough
    BY <2>1, Zenon DEF IdentityInv, Saved
  <2>3. Len(Fingerprint) = Cardinality(AllPoints)
    <3>1. M \in 0..M
      BY SourcesWeighted
    <3> QED BY <3>1, FedLength, AllFound, Zenon DEF Fingerprint
  <2>4. ASSUME NEW f \in {pub, priv}, f.is = "whole"
        PROVE  /\ Cardinality({i \in DOMAIN f.key : f.key[i] \notin Short}) >= MinCount
               /\ Len(f.key) = Cardinality(AllPoints)
    <3>1. f.key = Fingerprint /\ Enough
      BY <2>2, <2>4
    <3>2. Cardinality(Long(f.key)) >= MinCount
      BY <3>1, Zenon DEF Enough
    <3> QED BY <2>3, <3>1, <3>2, Zenon DEF Long
  <2> QED BY <2>2, <2>4, Zenon DEF KeyPairMatches
<1> QED
  BY <1>1, <1>2, <1>3, PTL DEF IdentitySpec
=============================================================================
