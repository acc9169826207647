--------------------------- MODULE SecretsProofs ----------------------------
(***************************************************************************)
(* Proofs about the secrets store, for any repositories, requests, clients *)
(* and loads.  Each property has an invariant of its own, about the        *)
(* variables it is about; what secretd answers has one for connections, on *)
(* those for the access control list, the values and the certificates.     *)
(*                                                                         *)
(* What Search finds, leaving its loops early, is the nearest value, for   *)
(* all lists of paths.  The induction over the list goes by its least      *)
(* counterexample.                                                         *)
(***************************************************************************)
EXTENDS Secrets, WellFoundedInduction, FiniteSetTheorems, TLAPS

-----------------------------------------------------------------------------
(* Repository.Search *)

\* A set of numbers has a least element.
LEMMA Least ==
    ASSUME NEW T, T \subseteq Nat, T # {}
    PROVE  \E n \in T : \A m \in T : n <= m
<1>1. PICK n \in T : \A m \in T : ~(<<m, n>> \in OpToRel(<, Nat))
  BY NatLessThanWellFounded, WFMin, Zenon
<1>2. \A m \in T : ~(m < n)
  BY <1>1, Zenon DEF OpToRel
<1> QED BY <1>2

\* What is left of a list without its head
LEMMA TailOf ==
    ASSUME NEW S, NEW q \in Seq(S), q # <<>>
    PROVE  /\ Len(q) \in Nat /\ Len(q) > 0 /\ Head(q) = q[1] /\ Tail(q) \in Seq(S)
           /\ Len(Tail(q)) = Len(q) - 1
           /\ \A j \in 2..Len(q) : j - 1 \in 1..Len(Tail(q)) /\ q[j] = Tail(q)[j - 1]
           /\ Len(q) = 1 <=> Tail(q) = <<>>
<1>1. Len(q) \in Nat /\ Len(q) > 0 /\ Head(q) = q[1] /\ Tail(q) \in Seq(S)
  OBVIOUS
<1>2. Len(Tail(q)) = Len(q) - 1
  OBVIOUS
<1>3. \A j \in 1..Len(Tail(q)) : Tail(q)[j] = q[j + 1]
  OBVIOUS
<1>4. \A j \in 2..Len(q) : j - 1 \in 1..Len(Tail(q)) /\ q[j] = Tail(q)[j - 1]
  BY <1>1, <1>2, <1>3
<1>5. Len(q) = 1 <=> Tail(q) = <<>>
  <2>1. PICK t \in Seq(S) : t = Tail(q)
    BY <1>1, Zenon
  <2>2. Len(t) = 0 <=> t = <<>>
    OBVIOUS
  <2> QED BY <1>1, <1>2, <2>1, <2>2
<1> QED BY <1>1, <1>2, <1>4, <1>5

\* The directory of a path at level l: the path itself, and the one above it
Dir(path, l) == SubSeq(path, 1, Len(path) - (l - 1))

\* A directory of level l that has the value
Hit(path, l, name) == l - 1 <= Len(path) /\ Exists(Dir(path, l), name)

\* b is the closest directory for the first i paths, or None.
Best(b, i, name, where) ==
    \/ b = None /\ \A k \in 1..i : \A l \in 1..2 : ~Hit(where[k], l, name)
    \/ \E k \in 1..i : \E l \in 1..2 :
          /\ b = [dir |-> Dir(where[k], l), level |-> l]
          /\ Hit(where[k], l, name)
          /\ \A j \in 1..i : \A m \in 1..2 :
                Hit(where[j], m, name) => l < m \/ (l = m /\ k <= j)

\* The directories at the two levels
LEMMA DirPath ==
    ASSUME NEW path \in Seq(STRING)
    PROVE  /\ Dir(path, 1) = path /\ Dir(path, 2) = SubSeq(path, 1, Len(path) - 1)
           /\ Dir(path, 1) \in Seq(STRING) /\ Dir(path, 2) \in Seq(STRING)
<1>1. path = SubSeq(path, 1, Len(path)) /\ Len(path) - 0 = Len(path) /\ Len(path) \in Nat
  OBVIOUS
<1>2. SubSeq(path, 1, Len(path) - 1) \in Seq(STRING)
  BY <1>1
<1> QED BY <1>1, <1>2 DEF Dir

\* The levels that the inner loop visits
LEMMA LevelsOf ==
    ASSUME NEW path \in Seq(STRING), NEW name
    PROVE  /\ DOMAIN Levels(path) = {l \in 1..2 : l - 1 <= Len(path)}
           /\ \A l \in DOMAIN Levels(path) : Levels(path)[l] = Dir(path, l)
<1>1. CASE path = <<>>
  <2>1. Levels(path) = <<path>> /\ Len(path) = 0
    BY <1>1 DEF Levels
  <2>2. DOMAIN Levels(path) = 1..1 /\ Levels(path)[1] = path
    BY <2>1
  <2>3. {l \in 1..2 : l - 1 <= Len(path)} = 1..1
    BY <2>1
  <2> QED BY <2>2, <2>3, DirPath
<1>2. CASE path # <<>>
  <2>1. Levels(path) = <<path, SubSeq(path, 1, Len(path) - 1)>> /\ Len(path) \in Nat /\ Len(path) > 0
    BY <1>2 DEF Levels
  <2>2. DOMAIN Levels(path) = 1..2 /\ Levels(path)[1] = path /\ Levels(path)[2] = SubSeq(path, 1, Len(path) - 1)
    BY <2>1
  <2>3. {l \in 1..2 : l - 1 <= Len(path)} = 1..2
    BY <2>1
  <2>4. \A l \in 1..2 : l = 1 \/ l = 2
    OBVIOUS
  <2> QED BY <2>2, <2>3, <2>4, DirPath, Zenon
<1> QED BY <1>1, <1>2

\* A directory that was found is not None, and has its level.
LEMMA CloserThan ==
    ASSUME NEW path \in Seq(STRING), NEW l \in 1..2, NEW n \in 1..2
    PROVE  /\ [dir |-> Dir(path, l), level |-> l] # None
           /\ Closer([dir |-> Dir(path, l), level |-> l], n) <=> n < l
<1>1. Dir(path, l) \in Seq(STRING)
  <2>1. l = 1 \/ l = 2
    OBVIOUS
  <2> QED BY <2>1, DirPath, Zenon
<1>2. [dir |-> Dir(path, l), level |-> l] \in [dir : Seq(STRING), level : 1..2]
  BY <1>1
<1> QED BY <1>2, NoneAssumption DEF Closer

\* One path more
LEMMA ImproveBest ==
    ASSUME NEW where \in PathLists, NEW i \in 1..Len(where), NEW name, NEW b,
           Best(b, i - 1, name, where)
    PROVE  Best(Improve(b, where[i], name), i, name, where)
<1> DEFINE p == where[i]
           Found(n) == Closer(b, n) /\ Hit(p, n, name)
           result == Improve(b, p, name)
<1>a. p \in Seq(STRING) /\ i \in Nat /\ Len(where) \in Nat /\ i >= 1
  BY DEF PathLists
<1>b. \A j \in 1..(i - 1) : where[j] \in Seq(STRING) /\ j \in Nat /\ j < i
  BY <1>a DEF PathLists
<1>c. \A j \in 1..i : j = i \/ j \in 1..(i - 1)
  BY <1>a
<1>d. \A j \in 1..(i - 1) : j \in 1..i
  BY <1>a
<1>1. \A n : n \in DOMAIN Levels(p) /\ Exists(Levels(p)[n], name)
             <=> n \in 1..2 /\ Hit(p, n, name)
  BY <1>a, LevelsOf, Zenon DEF Hit
<1>e. \A n \in DOMAIN Levels(p) : Exists(Levels(p)[n], name) <=> Hit(p, n, name)
  BY <1>a, LevelsOf, Zenon DEF Hit
<1>2. \/ b = None /\ \A k \in 1..(i - 1) : \A l \in 1..2 : ~Hit(where[k], l, name)
      \/ \E k \in 1..(i - 1) : \E l \in 1..2 :
          /\ b = [dir |-> Dir(where[k], l), level |-> l]
          /\ Hit(where[k], l, name)
          /\ \A j \in 1..(i - 1) : \A m \in 1..2 :
                Hit(where[j], m, name) => l < m \/ (l = m /\ k <= j)
  BY Zenon DEF Best
<1> HIDE DEF p
<1>3. CASE \E n \in 1..2 : Found(n)
  <2>1. \E n \in 1..2 : Found(n) /\ \A m \in 1..n - 1 : ~Hit(p, m, name)
    <3>1. Closer(b, 2) => Closer(b, 1)
      BY <1>2, <1>b, CloserThan DEF Closer
    <3>2. CASE Found(1)
      BY <3>2
    <3>3. CASE Found(2) /\ ~Found(1)
      BY <3>1, <3>3
    <3>4. \A n \in 1..2 : n = 1 \/ n = 2
      OBVIOUS
    <3> QED BY <1>3, <3>2, <3>3, <3>4
  <2> DEFINE Chosen(n) == /\ Closer(b, n) /\ Exists(Levels(p)[n], name)
                         /\ \A m \in 1..n - 1 : ~Exists(Levels(p)[m], name)
             n0 == CHOOSE n \in DOMAIN Levels(p) : Chosen(n)
  <2>2. \A n \in DOMAIN Levels(p) :
           Chosen(n) <=> Found(n) /\ \A m \in 1..n - 1 : ~Hit(p, m, name)
    <3>1. \A n \in DOMAIN Levels(p) : \A m \in 1..n - 1 : m \in DOMAIN Levels(p) /\ m \in 1..2
      <4>1. DOMAIN Levels(p) = {l \in 1..2 : l - 1 <= Len(p)}
        BY <1>a, LevelsOf, Zenon DEF p
      <4>2. Len(p) \in Nat
        BY <1>a DEF p
      <4> QED BY <4>1, <4>2
    <3>2. \A n \in DOMAIN Levels(p) : \A m \in 1..n - 1 :
             Exists(Levels(p)[m], name) <=> Hit(p, m, name)
      BY <1>e, <3>1, Zenon
    <3> QED BY <1>e, <3>2, Zenon
  <2>3. n0 \in DOMAIN Levels(p) /\ Chosen(n0)
    <3>1. \E n \in DOMAIN Levels(p) : Chosen(n)
      BY <1>1, <2>1, <2>2, Zenon
    <3> QED BY <3>1, Zenon
  <2>4. result = [dir |-> Levels(p)[n0], level |-> n0]
    BY <2>3, Zenon DEF Improve
  <2> HIDE DEF n0, Chosen
  <2>5. /\ n0 \in 1..2 /\ Found(n0) /\ result = [dir |-> Dir(p, n0), level |-> n0]
        /\ \A m \in 1..n0 - 1 : ~Hit(p, m, name)
    BY <1>1, <1>a, <2>2, <2>3, <2>4, LevelsOf, Zenon DEF p
  <2>6. \A m \in 1..2 : Hit(p, m, name) => n0 < m \/ n0 = m
    BY <2>5
  <2>7. \A j \in 1..(i - 1) : \A m \in 1..2 : Hit(where[j], m, name) => n0 < m
    <3>1. CASE b = None
      BY <1>2, <1>b, <3>1, CloserThan, Zenon
    <3>2. CASE b # None
      <4>1. PICK k \in 1..(i - 1), l \in 1..2 :
                /\ b = [dir |-> Dir(where[k], l), level |-> l]
                /\ \A j \in 1..(i - 1) : \A m \in 1..2 :
                      Hit(where[j], m, name) => l < m \/ (l = m /\ k <= j)
        BY <1>2, <3>2, Zenon
      <4>2. n0 < l
        BY <1>b, <2>5, <4>1, CloserThan, Zenon
      <4>3. n0 \in Nat /\ l \in Nat /\ \A m \in 1..2 : m \in Nat
        BY <2>5
      <4> QED BY <4>1, <4>2, <4>3
    <3> QED BY <3>1, <3>2
  <2>8. \A j \in 1..i : \A m \in 1..2 :
            Hit(where[j], m, name) => n0 < m \/ (n0 = m /\ i <= j)
    BY <1>a, <1>c, <2>6, <2>7 DEF p
  <2>9. i \in 1..i
    BY <1>a
  <2> QED BY <2>5, <2>8, <2>9, Zenon DEF Best, p
<1>4. CASE ~\E n \in 1..2 : Found(n)
  <2>1. result = b
    BY <1>1, <1>4, Zenon DEF Improve
  <2>2. CASE b = None
    <3>1. \A m \in 1..2 : ~Hit(p, m, name)
      BY <1>4, <2>2 DEF Closer
    <3>2. \A k \in 1..(i - 1) : \A l \in 1..2 : ~Hit(where[k], l, name)
      BY <1>2, <1>b, <2>2, CloserThan, Zenon
    <3> QED BY <1>c, <2>1, <2>2, <3>1, <3>2, Zenon DEF Best, p
  <2>3. CASE b # None
    <3>1. PICK k \in 1..(i - 1), l \in 1..2 :
              /\ b = [dir |-> Dir(where[k], l), level |-> l]
              /\ Hit(where[k], l, name)
              /\ \A j \in 1..(i - 1) : \A m \in 1..2 :
                    Hit(where[j], m, name) => l < m \/ (l = m /\ k <= j)
      BY <1>2, <2>3, Zenon
    <3>2. \A m \in 1..2 : Hit(p, m, name) => l < m \/ (l = m /\ k <= i)
      <4>1. \A m \in 1..2 : Closer(b, m) <=> m < l
        BY <1>b, <3>1, CloserThan, Zenon
      <4>2. k \in Nat /\ i \in Nat /\ l \in Nat /\ k < i
        BY <1>a, <1>b
      <4> QED BY <1>4, <4>1, <4>2
    <3>3. \A j \in 1..i : \A m \in 1..2 :
              Hit(where[j], m, name) => l < m \/ (l = m /\ k <= j)
      BY <1>c, <3>1, <3>2, Zenon DEF p
    <3> QED BY <1>d, <2>1, <3>1, <3>3, Zenon DEF Best, p
  <2> QED BY <2>2, <2>3
<1> QED BY <1>3, <1>4 DEF p

\* The recursion of Search is well defined.
LEMMA SearchDefined ==
    ASSUME NEW where \in PathLists, NEW name
    PROVE  \E best :
             /\ best[0] = None
             /\ \A i \in 1..Len(where) : best[i] = Improve(best[i - 1], where[i], name)
             /\ Search(name, where) = IF best[Len(where)] = None THEN None
                                     ELSE Join(best[Len(where)].dir, name)
<1> DEFINE Rec(h, n) == h = [i \in 0..n |-> IF i = 0 THEN None
                                            ELSE Improve(h[i - 1], where[i], name)]
           Bad == {n \in Nat : ~\E h : Rec(h, n)}
<1>1. Len(where) \in Nat
  BY DEF PathLists
<1>2. Bad = {}
  <2> SUFFICES ASSUME Bad # {} PROVE FALSE
    OBVIOUS
  <2>1. PICK n \in Bad : \A m \in Bad : n <= m
    BY Least, Zenon
  <2>2. n # 0
    <3> DEFINE h == [i \in 0..0 |-> None]
    <3>1. Rec(h, 0)
      OBVIOUS
    <3> QED BY <2>1, <3>1, Zenon
  <2>3. n \in Nat /\ n - 1 \in Nat /\ n - 1 \notin Bad
    BY <2>1, <2>2
  <2>4. PICK g : Rec(g, n - 1)
    BY <2>3
  <2> DEFINE h == [i \in 0..n |-> IF i = n THEN Improve(g[n - 1], where[n], name) ELSE g[i]]
  <2>5. Rec(h, n)
    <3>1. \A i \in 0..n - 1 : g[i] = IF i = 0 THEN None ELSE Improve(g[i - 1], where[i], name)
      BY <2>4, Zenon
    <3>2. \A i \in 0..n : i = n \/ (i \in 0..n - 1 /\ i # n)
      BY <2>3
    <3>3. \A i \in 1..n : i - 1 \in 0..n /\ i - 1 # n /\ h[i - 1] = g[i - 1]
      BY <2>3
    <3>4. \A i \in 0..n : i = 0 \/ i \in 1..n
      BY <2>3
    <3>5. \A i \in 0..n : h[i] = IF i = 0 THEN None ELSE Improve(h[i - 1], where[i], name)
      <4>1. SUFFICES ASSUME NEW i \in 0..n
                     PROVE  h[i] = IF i = 0 THEN None ELSE Improve(h[i - 1], where[i], name)
        OBVIOUS
      <4>2. CASE i = n
        BY <2>2, <3>3, <3>4, <4>2
      <4>3. CASE i # n
        <5>1. h[i] = g[i] /\ i \in 0..n - 1
          BY <3>2, <4>3
        <5> QED BY <3>1, <3>3, <3>4, <5>1
      <4> QED BY <4>2, <4>3
    <3> QED BY <3>5
  <2> QED BY <2>1, <2>5, Zenon
<1> DEFINE best == CHOOSE h : Rec(h, Len(where))
<1>3. Rec(best, Len(where))
  BY <1>1, <1>2, Zenon
<1>4. Search(name, where) = IF best[Len(where)] = None THEN None
                            ELSE Join(best[Len(where)].dir, name)
  BY Zenon DEF Search
<1> HIDE DEF best
<1>5. \A i \in 0..Len(where) : best[i] = IF i = 0 THEN None
                                         ELSE Improve(best[i - 1], where[i], name)
  BY <1>3, Zenon
<1>6. 0 \in 0..Len(where) /\ \A i \in 1..Len(where) : i \in 0..Len(where) /\ i # 0
  BY <1>1
<1>7. best[0] = None /\ \A i \in 1..Len(where) : best[i] = Improve(best[i - 1], where[i], name)
  BY <1>5, <1>6, Zenon
<1> QED BY <1>4, <1>7, Zenon

\* Search ends with the closest directory.
LEMMA SearchBest ==
    ASSUME NEW where \in PathLists, NEW name
    PROVE  \E b : /\ Best(b, Len(where), name, where)
                 /\ Search(name, where) = IF b = None THEN None
                                         ELSE Join(b.dir, name)
<1> DEFINE N == Len(where)
<1>1. N \in Nat
  BY DEF PathLists
<1>2. PICK best :
        /\ best[0] = None
        /\ \A i \in 1..N : best[i] = Improve(best[i - 1], where[i], name)
        /\ Search(name, where) = IF best[N] = None THEN None
                                ELSE Join(best[N].dir, name)
  BY SearchDefined
<1>3. Best(best[N], N, name, where)
  <2> DEFINE Bad == {i \in 0..N : ~Best(best[i], i, name, where)}
  <2> SUFFICES ASSUME Bad # {} PROVE FALSE
    BY <1>1
  <2>1. PICK i \in Bad : \A j \in Bad : i <= j
    <3>1. Bad \subseteq Nat
      BY <1>1
    <3> HIDE DEF Bad
    <3> QED BY <3>1, Least, Zenon
  <2>2. i # 0
    <3>1. Best(best[0], 0, name, where)
      BY <1>2 DEF Best
    <3> QED BY <2>1, <3>1
  <2>3. i \in 1..N /\ i - 1 \in 0..N /\ i - 1 \notin Bad
    BY <1>1, <2>1, <2>2
  <2>4. Best(best[i - 1], i - 1, name, where)
    BY <2>3
  <2>5. Best(best[i], i, name, where)
    <3>1. best[i] = Improve(best[i - 1], where[i], name)
      BY <1>2, <2>3, Zenon
    <3> QED BY <2>3, <2>4, <3>1, ImproveBest
  <2> QED BY <2>1, <2>5
<1> QED BY <1>2, <1>3, Zenon

\* Search finds what Nearest says, in any list of paths.
THEOREM SearchIsNearest ==
    ASSUME NEW where \in PathLists, NEW name
    PROVE  Search(name, where) = Nearest(name, where)
<1> DEFINE N == Len(where)
           Above(h) == SubSeq(where[h[2]], 1, Len(where[h[2]]) - h[1])
           hits == {h \in (0..1) \X DOMAIN where :
                        h[1] <= Len(where[h[2]]) /\ Exists(Above(h), name)}
           least(h) == \A g \in hits : h[1] < g[1] \/ (h[1] = g[1] /\ h[2] <= g[2])
           first == CHOOSE h \in hits : least(h)
<1>1. N \in Nat /\ DOMAIN where = 1..N /\ \A k \in 1..N : where[k] \in Seq(STRING)
  BY DEF PathLists
<1>2. PICK b : /\ Best(b, N, name, where)
               /\ Search(name, where) = IF b = None THEN None ELSE Join(b.dir, name)
  BY SearchBest
<1>4. Nearest(name, where) = IF hits = {} THEN None ELSE Join(Above(first), name)
  BY Zenon DEF Nearest
<1>5. \A h \in hits : /\ h[1] \in 0..1 /\ h[2] \in 1..N /\ h = <<h[1], h[2]>>
                     /\ h[1] + 1 \in 1..2 /\ Hit(where[h[2]], h[1] + 1, name)
  <2>1. SUFFICES ASSUME NEW h \in hits
                 PROVE  /\ h[1] \in 0..1 /\ h[2] \in 1..N /\ h = <<h[1], h[2]>>
                        /\ h[1] + 1 \in 1..2 /\ Hit(where[h[2]], h[1] + 1, name)
    OBVIOUS
  <2>2. h[1] \in 0..1 /\ h[2] \in 1..N /\ h = <<h[1], h[2]>>
    BY <1>1
  <2>3. h[1] + 1 \in 1..2 /\ (h[1] + 1) - 1 = h[1]
    BY <2>2
  <2> QED BY <2>2, <2>3 DEF Hit, Dir
<1>6. ASSUME NEW k \in 1..N, NEW l \in 1..2, Hit(where[k], l, name)
      PROVE  <<l - 1, k>> \in hits /\ Above(<<l - 1, k>>) = Dir(where[k], l)
  BY <1>1, <1>6 DEF Hit, Dir
<1>7. CASE hits = {}
  <2>1. b = None
    BY <1>2, <1>6, <1>7, Zenon DEF Best
  <2> QED BY <1>2, <1>4, <1>7, <2>1, Zenon
<1>8. CASE hits # {}
  <2> HIDE DEF hits, Above
  <2>1. PICK k \in 1..N, l \in 1..2 :
           /\ b = [dir |-> Dir(where[k], l), level |-> l]
           /\ Hit(where[k], l, name)
           /\ \A j \in 1..N : \A m \in 1..2 :
                 Hit(where[j], m, name) => l < m \/ (l = m /\ k <= j)
    <3>1. ~\A j \in 1..N : \A m \in 1..2 : ~Hit(where[j], m, name)
      BY <1>5, <1>8, Zenon
    <3> QED BY <1>2, <3>1, Zenon DEF Best
  <2> DEFINE h0 == <<l - 1, k>>
  <2>2. h0 \in hits /\ Above(h0) = Dir(where[k], l) /\ h0[1] = l - 1 /\ h0[2] = k
    BY <1>6, <2>1, Zenon
  <2>3. least(h0)
    <3>1. \A g \in hits : l < g[1] + 1 \/ (l = g[1] + 1 /\ k <= g[2])
      BY <1>5, <2>1, Zenon
    <3>2. \A g \in hits : g[1] \in Nat
      BY <1>5
    <3> QED BY <2>2, <3>1, <3>2
  <2>4. \A h \in hits : least(h) => h = h0
    <3>1. SUFFICES ASSUME NEW h \in hits, least(h) PROVE h = h0
      OBVIOUS
    <3>2. /\ h[1] < h0[1] \/ (h[1] = h0[1] /\ h[2] <= h0[2])
          /\ h0[1] < h[1] \/ (h0[1] = h[1] /\ h0[2] <= h[2])
      BY <2>2, <2>3, <3>1, Zenon
    <3>3. h[1] \in Nat /\ h[2] \in Nat /\ h0[1] \in Nat /\ h0[2] \in Nat
      BY <1>1, <1>5, <2>2
    <3>4. h[1] = h0[1] /\ h[2] = h0[2]
      BY <3>2, <3>3
    <3> QED BY <1>5, <2>2, <3>4
  <2> HIDE DEF h0, least
  <2>5. first = h0
    BY <2>2, <2>3, <2>4, Zenon
  <2>6. b # None /\ b.dir = Dir(where[k], l)
    <3>1. where[k] \in Seq(STRING) /\ 1 \in 1..2
      BY <1>1
    <3>2. [dir |-> Dir(where[k], l), level |-> l] # None
      BY <3>1, CloserThan, Zenon
    <3> QED BY <2>1, <3>2
  <2> QED BY <1>2, <1>4, <1>8, <2>2, <2>5, <2>6, Zenon
<1> QED BY <1>7, <1>8

\* What Search finds is the location of a value that the name leads to from
\* one of the directories of the list, or from the one above.
LEMMA SearchFound ==
    ASSUME NEW where \in PathLists, NEW name, Search(name, where) # None
    PROVE  /\ Search(name, where) \in Locations
           /\ FoundFrom(Search(name, where), name, where)
<1>1. PICK b : /\ Best(b, Len(where), name, where)
               /\ Search(name, where) = IF b = None THEN None ELSE Join(b.dir, name)
  BY SearchBest
<1>2. PICK k \in 1..Len(where), l \in 1..2 :
         b = [dir |-> Dir(where[k], l), level |-> l] /\ Hit(where[k], l, name)
  BY <1>1, Zenon DEF Best
<1>3. b.dir = Dir(where[k], l)
  BY <1>2
<1>4. Search(name, where) = Join(Dir(where[k], l), name)
  BY <1>1, <1>3
<1>5. Join(Dir(where[k], l), name) \in Locations
  BY <1>2, Zenon DEF Hit, Exists
<1>6. PICK n : /\ k \in DOMAIN where /\ n \in 0..Len(where[k]) /\ n >= Len(where[k]) - 1
               /\ Dir(where[k], l) = SubSeq(where[k], 1, n)
  <2>1. where[k] \in Seq(STRING) /\ DOMAIN where = 1..Len(where)
    BY DEF PathLists
  <2>2. /\ Len(where[k]) - (l - 1) \in 0..Len(where[k])
        /\ Len(where[k]) - (l - 1) >= Len(where[k]) - 1
    BY <1>2, <2>1 DEF Hit
  <2> QED BY <2>1, <2>2, Zenon DEF Dir
<1> QED BY <1>4, <1>5, <1>6, Zenon DEF FoundFrom

-----------------------------------------------------------------------------
(* Who changes what *)

\* Only commands change the repository.
LEMMA RepoPart ==
    ASSUME [SecretsNext]_vars
    PROVE  Command \/ CliStep \/ UNCHANGED repoVars
BY Zenon DEF SecretsNext, vars, Tick, AgentFails, AgentHeals, Signing,
    Starting, Start, Stopping, Signal, Main, Loop, AcceptTimeout, Accepting, Accept,
    Exit, Renewing, RenewStep, HostCertSigned, AddHostKey, RenewAgain, RenewerStops,
    Handling, ConnStep, Handshake, Authenticate, OpenSession, BadRequest, Request,
    SearchName, LoadValue, Decrypt, Reply, Hangup, Become, Goto

-----------------------------------------------------------------------------
(* Certificates *)

\* An empty list allows nothing, so whether an administrator certificate is
\* accepted does not depend on the time.
LEMMA EmptyList ==
    ASSUME NEW cert, NEW s, NEW t, ValidIn({}, cert, s)
    PROVE  ValidIn({}, cert, t)
BY DEF ValidIn, CheckAll, Check, ValidACL

\* A row that the certificates of administrators gave at one time is there at
\* another, if the certificates are still there and valid.
LEMMA RowsStay ==
    ASSUME NEW A, NEW B, A \subseteq B, NEW s, NEW t,
           \A a \in A : ValidCert(a, t),
           NEW r \in ValidACL(LoadCerts({}, A, Admin, s), s)
    PROVE  r \in ValidACL(LoadCerts({}, B, Admin, t), t)
<1>1. PICK a \in A : ValidCert(a, s) /\ ValidIn({}, a, s) /\ r \in Rows(a)
  BY DEF ValidACL, LoadCerts
<1>2. ValidIn({}, a, t) BY <1>1, EmptyList
<1>3. r \in LoadCerts({}, B, Admin, t) BY <1>1, <1>2 DEF LoadCerts
<1>4. r.after = a.after /\ r.before = a.before BY <1>1 DEF Rows
<1> QED BY <1>3, <1>4 DEF ValidACL, ValidCert

\* A certificate that was issued on good grounds is accepted while they last.
LEMMA GroundsSuffice ==
    ASSUME NEW g, Grounded(g), NEW A, NEW U, g[1] \in U, NEW t,
           ValidCert(g[1], t),
           g[2] \subseteq A, \A a \in g[2] : ValidCert(a, t)
    PROVE  Rows(g[1]) \subseteq Load(A, U, t)
<1> DEFINE cert == g[1]
           rows == LoadCerts({}, A, Admin, t)
<1>1. CheckAll(rows, cert.signer, cert.caps, cert.paths, t)
  <2>1. SUFFICES ASSUME NEW c \in cert.caps, NEW i \in DOMAIN cert.paths
                 PROVE  Check(rows, cert.signer, Required[c], cert.paths[i], t)
    BY DEF CheckAll
  <2>2. PICK r \in ValidACL(LoadCerts({}, g[2], Admin, cert.after), cert.after) :
            /\ r.key = cert.signer /\ r.cap = Required[c]
            /\ AtOrAbove(cert.paths[i], r.path)
    BY DEF Grounded, CheckAll, Check
  <2>3. r \in ValidACL(rows, t) BY <2>2, RowsStay
  <2> QED BY <2>2, <2>3 DEF Check
<1>2. ~IsAdmin(cert) BY DEF Grounded, IsAdmin, User, Admin
<1>3. ValidIn(rows, cert, t) BY <1>1, <1>2 DEF ValidIn
<1> QED BY <1>3, Zenon DEF Load, LoadCerts

\* The ghost variable grounds records what it should.
GroundsInv == \A g \in grounds : Grounded(g)

LEMMA GroundsStep == GroundsInv /\ [SecretsNext]_vars => GroundsInv'
<1> SUFFICES ASSUME GroundsInv, [SecretsNext]_vars PROVE GroundsInv' OBVIOUS
<1>1. CASE \E r \in Requests : CertUserCmd(r)
  <2>1. PICK request \in Requests : CertUserCmd(request) BY <1>1
  <2> DEFINE now1 == {c \in Certs("admin") : ValidCert(c, now)}
             admins == LoadCerts({}, Certs("admin"), Admin, now)
  <2>2. PICK id \in FindAgent(admins, request.caps, request.paths) :
            grounds' = grounds \union {<<Signed(request, id, now), now1>>}
    BY <2>1 DEF CertUserCmd
  <2>3. LoadCerts({}, now1, Admin, now) = admins BY DEF LoadCerts
  <2>4. CheckAll(admins, id, request.caps, request.paths, now)
    BY <2>2 DEF FindAgent
  <2>5. request.caps \subseteq User BY <2>1 DEF CertUserCmd
  <2>6. Grounded(<<Signed(request, id, now), now1>>)
    BY <2>3, <2>4, <2>5 DEF Grounded, Signed
  <2> QED BY <2>2, <2>6, Zenon DEF GroundsInv
<1>2. CASE ~\E r \in Requests : CertUserCmd(r)
  <2>1. UNCHANGED grounds
    BY <1>2, Zenon DEF SecretsNext, vars, repoVars, Command, InitCmd, CertAdminCmd, SetCmd, Revoke,
        CliStep, CreateStep, FillFile, CliDies, Tick, AgentFails, AgentHeals,
        Signing, Starting, Start, Stopping, Signal, Main, Loop, AcceptTimeout,
        Accepting, Accept, Exit, Renewing, RenewStep, HostCertSigned, AddHostKey,
        RenewAgain, RenewerStops, Handling, ConnStep, Handshake, Authenticate,
        OpenSession, BadRequest, Request, SearchName, LoadValue, Decrypt, Reply,
        Hangup, Become, Goto
  <2> QED BY <2>1 DEF GroundsInv
<1> QED BY <1>1, <1>2

\* What secretctl issues, ACL.Load accepts (FindAgent and ACL.Validate agree),
\* for as long as it and the certificates it rests on are there and valid.
THEOREM IssuedStaysAccepted == SecretsSpec => []IssuedIsAccepted
<1>1. SecretsInit => GroundsInv
  BY ReposAssumption DEF SecretsInit, GroundsInv
<1>2. GroundsInv => IssuedIsAccepted
  <2> SUFFICES ASSUME GroundsInv, NEW f \in certs, NEW g \in grounds,
                      f.kind = "user", f.whole, g[1] = f.cert,
                      ValidCert(f.cert, now), g[2] \subseteq Certs("admin"),
                      \A a \in g[2] : ValidCert(a, now)
               PROVE  Rows(f.cert) \subseteq Load(Certs("admin"), Certs("user"), now)
    BY DEF IssuedIsAccepted
  <2>1. f.cert \in Certs("user") BY DEF Certs
  <2>2. Grounded(g) BY DEF GroundsInv
  <2> QED BY <2>1, <2>2, GroundsSuffice
<1> QED BY <1>1, <1>2, GroundsStep, PTL DEF SecretsSpec

-----------------------------------------------------------------------------
(* saveCert *)

\* Min and Max are of their sets.
LEMMA MinIn ==
    ASSUME NEW T, T \subseteq Nat, T # {}
    PROVE  Min(T) \in T
BY Least, Zenon DEF Min

LEMMA MaxIn ==
    ASSUME NEW S, S \subseteq Nat, S # {}, IsFiniteSet(S)
    PROVE  Max(S) \in S
<1> DEFINE HasMax(R) == \E n \in R : \A m \in R : n >= m
           Bad == {n \in Nat : \E R \in SUBSET S :
                       R # {} /\ IsFiniteSet(R) /\ Cardinality(R) = n /\ ~HasMax(R)}
<1>1. HasMax(S)
  <2> SUFFICES ASSUME ~HasMax(S) PROVE FALSE
    OBVIOUS
  <2>1. Cardinality(S) \in Bad
    BY FS_CardinalityType
  <2>2. PICK n \in Bad : \A m \in Bad : n <= m
    BY <2>1, Least, Zenon
  <2>3. PICK R \in SUBSET S : R # {} /\ IsFiniteSet(R) /\ Cardinality(R) = n /\ ~HasMax(R)
    BY <2>2, Zenon
  <2>4. PICK x : x \in R
    BY <2>3
  <2>5. IsFiniteSet(R \ {x}) /\ Cardinality(R \ {x}) = n - 1 /\ n - 1 \in Nat
    <3>1. IsFiniteSet(R \ {x}) /\ Cardinality(R \ {x}) = Cardinality(R) - 1
      BY <2>3, <2>4, FS_RemoveElement
    <3>2. Cardinality(R \ {x}) \in Nat
      BY <3>1, FS_CardinalityType
    <3> QED BY <2>3, <3>1, <3>2
  <2>6. CASE R \ {x} = {}
    BY <2>3, <2>4, <2>6
  <2>7. CASE R \ {x} # {}
    <3>1. HasMax(R \ {x})
      <4>1. n - 1 \notin Bad
        BY <2>2, <2>5
      <4> QED BY <2>3, <2>5, <2>7, <4>1, Zenon
    <3>2. PICK y \in R \ {x} : \A m \in R \ {x} : y >= m
      BY <3>1
    <3>3. x \in Nat /\ y \in Nat
      BY <2>3, <2>4, <3>2
    <3>4. CASE y >= x
      BY <2>3, <3>2, <3>4
    <3>5. CASE x >= y
      <4>1. \A m \in R : x >= m
        BY <2>3, <3>2, <3>3, <3>5
      <4> QED BY <2>3, <2>4, <4>1
    <3> QED BY <3>3, <3>4, <3>5
  <2> QED BY <2>6, <2>7
<1> QED BY <1>1, Zenon DEF Max

\* One of n + 1 numbers in a row is not among n numbers.
LEMMA FreeNumber ==
    ASSUME NEW S, IsFiniteSet(S), NEW a \in Nat
    PROVE  (a .. a + Cardinality(S)) \ S # {}
<1> DEFINE row == a .. a + Cardinality(S)
<1>1. Cardinality(S) \in Nat
  BY FS_CardinalityType
<1>2. IsFiniteSet(row) /\ Cardinality(row) = Cardinality(S) + 1
  <2>1. PICK k \in Nat : k = Cardinality(S)
    BY <1>1, Zenon
  <2>2. /\ IsFiniteSet(a..(a + k))
        /\ Cardinality(a..(a + k)) = IF a > a + k THEN 0 ELSE (a + k) - a + 1
    <3>1. a \in Int /\ a + k \in Int
      OBVIOUS
    <3> QED BY <3>1, FS_Interval, Zenon
  <2>3. ~(a > a + k) /\ (a + k) - a + 1 = k + 1
    OBVIOUS
  <2> QED BY <2>1, <2>2, <2>3, Zenon
<1>3. ~(row \subseteq S)
  <2> HIDE DEF row
  <2>1. row \in SUBSET S => Cardinality(row) <= Cardinality(S)
    BY FS_Subset
  <2> QED BY <1>1, <1>2, <2>1
<1> QED BY <1>3

\* The number that saveCert finds is a number, and no certificate file of this
\* kind and name has it, whatever files of longer names there are.
LEMMA SuffixFree ==
    ASSUME NEW kind, NEW name, IsFiniteSet(certs), \A f \in certs : f.number \in Nat
    PROVE  /\ FreeSuffix(kind, name) \in Nat
           /\ Named(kind, name, FreeSuffix(kind, name)) = {}
<1> DEFINE same == {f \in certs : f.kind = kind /\ f.name = name}
           longer == {f \in certs : f.kind = kind /\ <<f.name, name>> \in Begins}
           numbers == {f.number : f \in same}
           last == IF same = {} \/ longer # {} THEN 0 ELSE Max(numbers)
           free == (last + 1 .. last + 1 + Cardinality(numbers)) \ numbers
<1>1. IsFiniteSet(same) /\ numbers \subseteq Nat
  BY FS_Subset
<1>2. IsFiniteSet(numbers)
  <2> HIDE DEF same
  <2>1. [f \in same |-> f.number] \in Surjection(same, numbers)
    BY DEF Surjection
  <2> QED BY <1>1, <2>1, FS_Surjection
<1>3. last \in Nat
  <2>1. same # {} => numbers # {}
    OBVIOUS
  <2> HIDE DEF numbers
  <2>2. numbers # {} => Max(numbers) \in Nat
    BY <1>1, <1>2, MaxIn, Zenon
  <2> QED BY <2>1, <2>2
<1>4. FreeSuffix(kind, name) = Min(free)
  BY Zenon DEF FreeSuffix
<1>5. FreeSuffix(kind, name) \in Nat \ numbers
  <2> HIDE DEF numbers, last
  <2>1. last + 1 \in Nat /\ Cardinality(numbers) \in Nat
    BY <1>2, <1>3, FS_CardinalityType
  <2>2. free # {}
    BY <1>2, <2>1, FreeNumber
  <2>3. free \subseteq Nat /\ free \subseteq Nat \ numbers
    BY <2>1
  <2> HIDE DEF free
  <2> QED BY <1>4, <2>2, <2>3, MinIn, Zenon
<1> QED BY <1>5 DEF Named

\* Certificate files have numbers and paths, and the one that a command has to
\* fill is not whole.
FileOk(f) == f.number \in Nat /\ f.cert.paths \in PathLists

CertsInv ==
    /\ IsFiniteSet(certs) /\ \A f \in certs : FileOk(f)
    /\ cli # None /\ cli.file = "cert" =>
           /\ FileOk(cli.cert)
           /\ \E kind, name, cert, number :
                  cli.cert = [kind |-> kind, name |-> name, number |-> number,
                              cert |-> cert, whole |-> FALSE]

\* What CertNeverOverwritten says of one step
Kept == \A f \in certs : f.whole => f \in certs' \/ certs' = certs \ {f}

\* saveCert adds a file and takes none away.
LEMMA SaveCertKeeps ==
    ASSUME CertsInv, NEW kind, NEW cert, cert.paths \in PathLists, SaveCert(kind, cert)
    PROVE  CertsInv' /\ Kept
<1> DEFINE number == FreeSuffix(kind, cert.name)
           file == [kind |-> kind, name |-> cert.name, number |-> number,
                    cert |-> cert, whole |-> FALSE]
<1>1. number \in Nat /\ Named(kind, cert.name, number) = {}
  BY SuffixFree DEF CertsInv, FileOk
<1>2. certs' = (certs \ Named(kind, cert.name, number)) \union {file}
      /\ cli' = [file |-> "cert", cert |-> file]
  BY Zenon DEF SaveCert
<1>3. certs' = certs \union {file} /\ FileOk(file)
  BY <1>1, <1>2 DEF FileOk
<1>4. cli'.cert = file /\ \E k, n, c, m :
          file = [kind |-> k, name |-> n, number |-> m, cert |-> c, whole |-> FALSE]
  BY <1>1, <1>2, Zenon
<1> HIDE DEF number, file
<1>5. IsFiniteSet(certs')
  BY <1>3, FS_AddElement DEF CertsInv
<1>6. \A f \in certs' : FileOk(f)
  BY <1>3, Zenon DEF CertsInv
<1>7. Kept
  BY <1>3 DEF Kept
<1> QED BY <1>3, <1>4, <1>5, <1>6, <1>7, Zenon DEF CertsInv

\* FillFile replaces the file that SaveCert left empty.
LEMMA FillFileKeeps ==
    ASSUME CertsInv, FillFile
    PROVE  CertsInv' /\ Kept
<1>1. CASE cli.file = "cert" /\ certs' = (certs \ {cli.cert}) \union {[cli.cert EXCEPT !.whole = TRUE]}
  <2>1. cli # None
    BY DEF FillFile, Idle
  <2>2. FileOk(cli.cert)
    BY <1>1, <2>1, Zenon DEF CertsInv
  <2>3. PICK kind, name, cert, number :
            cli.cert = [kind |-> kind, name |-> name, number |-> number,
                        cert |-> cert, whole |-> FALSE]
    BY <1>1, <2>1, Zenon DEF CertsInv
  <2> DEFINE file == [cli.cert EXCEPT !.whole = TRUE]
  <2>4. ~cli.cert.whole /\ FileOk(file)
    BY <2>2, <2>3 DEF FileOk
  <2>5. certs' = (certs \ {cli.cert}) \union {file}
    BY <1>1
  <2> HIDE DEF file
  <2>6. IsFiniteSet(certs')
    BY <2>5, FS_RemoveElement, FS_AddElement, Zenon DEF CertsInv
  <2>7. \A f \in certs' : FileOk(f)
    BY <2>4, <2>5, Zenon DEF CertsInv
  <2>8. Kept
    BY <2>4, <2>5, Zenon DEF Kept
  <2>9. cli' = None
    BY DEF FillFile
  <2> QED BY <2>6, <2>7, <2>8, <2>9, Zenon DEF CertsInv
<1>2. CASE UNCHANGED certs
  <2>1. cli' = None
    BY DEF FillFile
  <2> QED BY <1>2, <2>1, Zenon DEF CertsInv, Kept
<1> QED BY <1>1, <1>2, Zenon DEF FillFile

\* Every step keeps the certificates, and CertsInv.
LEMMA CertsStep ==
    ASSUME CertsInv, [SecretsNext]_vars
    PROVE  CertsInv' /\ Kept
<1>1. ASSUME NEW r \in Requests, CertAdminCmd(r) \/ CertUserCmd(r) PROVE CertsInv' /\ Kept
  <2>1. \A signer : Signed(r, signer, now).paths \in PathLists
    BY RequestsAssumption DEF Signed
  <2> QED BY <1>1, <2>1, SaveCertKeeps, Zenon DEF CertAdminCmd, CertUserCmd
<1>2. ASSUME NEW f \in certs, Revoke(f) PROVE CertsInv' /\ Kept
  <2>1. certs' = certs \ {f} /\ cli' = cli
    BY <1>2 DEF Revoke
  <2>2. IsFiniteSet(certs')
    BY <2>1, FS_RemoveElement DEF CertsInv
  <2> QED BY <2>1, <2>2, Zenon DEF CertsInv, Kept
<1>3. ASSUME UNCHANGED certs, \/ cli' = cli \/ cli' = None
                             \/ cli'.file \in {"create", "value"}
      PROVE  CertsInv' /\ Kept
  BY <1>3, Zenon DEF CertsInv, Kept
<1>4. CASE Command
  <2>1. ASSUME InitCmd PROVE UNCHANGED certs /\ cli'.file \in {"create", "value"}
    BY <2>1 DEF InitCmd
  <2>2. ASSUME NEW at, NEW d, SetCmd(at, d)
        PROVE  UNCHANGED certs /\ cli'.file \in {"create", "value"}
    <3>1. UNCHANGED certs /\ cli' = [file |-> "value", at |-> at, data |-> d]
      BY <2>2, Zenon DEF SetCmd
    <3> QED BY <3>1
  <2> QED BY <1>1, <1>2, <1>3, <1>4, <2>1, <2>2, Zenon DEF Command
<1>5. CASE CliStep
  <2>1. CreateStep => UNCHANGED certs /\ (cli' = None \/ cli'.file = "create")
    BY DEF CreateStep
  <2>2. CliDies => UNCHANGED certs /\ cli' = None
    BY DEF CliDies, repo
  <2> QED BY <1>3, <1>5, <2>1, <2>2, FillFileKeeps, Zenon DEF CliStep
<1>6. CASE UNCHANGED repoVars
  BY <1>3, <1>6 DEF repoVars, repo
<1> QED BY <1>4, <1>5, <1>6, RepoPart

\* saveCert never writes over a certificate, for any certificates, names that
\* begin alike and removals.
THEOREM CertsAreKept == SecretsSpec => CertNeverOverwritten
<1>1. SecretsInit => CertsInv
  BY ReposAssumption, Zenon DEF SecretsInit, CertsInv, FileOk
<1>2. CertsInv /\ [SecretsNext]_vars => CertsInv'
  BY CertsStep
<1>3. CertsInv /\ [SecretsNext]_vars => [Kept]_vars
  BY CertsStep
<1> QED BY <1>1, <1>2, <1>3, PTL DEF SecretsSpec, CertNeverOverwritten, Kept

-----------------------------------------------------------------------------
(* secretctl init *)

\* While Create runs the repository has what it made so far; otherwise it is
\* complete if it opens.
CreateInv ==
    /\ MarkerLast
    /\ cli # None /\ cli.file = "create" =>
           /\ cli.step \in 2..7
           /\ made = {CreateOrder[i] : i \in 1..cli.step - 1}

\* What Create has made after n steps: everything after the last one, and no
\* master certificate before it.
LEMMA CreateSteps ==
    ASSUME NEW n \in 1..7
    PROVE  /\ Len(CreateOrder) = 7
           /\ n = 7 => {CreateOrder[i] : i \in 1..n} = Files
           /\ n # 7 => "master.cert filled" \notin {CreateOrder[i] : i \in 1..n}
           /\ {CreateOrder[i] : i \in 1..n - 1} \union {CreateOrder[n]}
              = {CreateOrder[i] : i \in 1..n}
<1>1. Len(CreateOrder) = 7 BY DEF CreateOrder
<1>a. /\ CreateOrder[1] = "access" /\ CreateOrder[2] = "secrets"
      /\ CreateOrder[3] = "access/user" /\ CreateOrder[4] = "access/admin"
      /\ CreateOrder[5] = "master.pub" /\ CreateOrder[6] = "master.cert"
      /\ CreateOrder[7] = "master.cert filled"
  BY DEF CreateOrder
<1>b. \A i \in 1..7 : i = 1 \/ i = 2 \/ i = 3 \/ i = 4 \/ i = 5 \/ i = 6 \/ i = 7 OBVIOUS
<1>2. {CreateOrder[i] : i \in 1..7} = Files
  <2>1. \A i \in 1..7 : CreateOrder[i] \in Files BY <1>a, <1>b, Zenon DEF Files
  <2>2. \A f \in Files : \E i \in 1..7 : f = CreateOrder[i]
    <3>1. 1 \in 1..7 /\ 2 \in 1..7 /\ 3 \in 1..7 /\ 4 \in 1..7
          /\ 5 \in 1..7 /\ 6 \in 1..7 /\ 7 \in 1..7 OBVIOUS
    <3> QED BY <1>a, <3>1, Zenon DEF Files
  <2> QED BY <2>1, <2>2, Zenon
<1>3. ASSUME n # 7 PROVE "master.cert filled" \notin {CreateOrder[i] : i \in 1..n}
  <2>1. \A i \in 1..n : i \in 1..7 /\ i # 7 BY <1>3
  <2>2. \A i \in 1..n : CreateOrder[i] # "master.cert filled" BY Zenon, <1>a, <1>b, <2>1
  <2> QED BY <2>2, Zenon
<1>4. {CreateOrder[i] : i \in 1..n - 1} \union {CreateOrder[n]}
      = {CreateOrder[i] : i \in 1..n}
  BY Z3
<1> QED BY Zenon, <1>1, <1>2, <1>3, <1>4

\* A command that saves a certificate is not Create.
LEMMA SavingCert ==
    ASSUME NEW kind, NEW cert, SaveCert(kind, cert) PROVE cli'.file = "cert"
<1>1. PICK x : cli' = [file |-> "cert", cert |-> x] BY Zenon DEF SaveCert
<1>2. [file |-> "cert", cert |-> x].file = "cert" OBVIOUS
<1> QED BY <1>1, <1>2, Zenon

\* Every step keeps CreateInv.
LEMMA CreateStepInv == CreateInv /\ [SecretsNext]_vars => CreateInv'
<1> SUFFICES ASSUME CreateInv, [SecretsNext]_vars PROVE CreateInv' OBVIOUS
<1> USE DEF MarkerLast, Opens, Marks, Idle
<1>1. CASE InitCmd
  <2>1. made' = {CreateOrder[1]} /\ cli' = [file |-> "create", step |-> 2]
    BY <1>1 DEF InitCmd
  <2>2. {CreateOrder[1]} = {CreateOrder[i] : i \in 1..2 - 1} OBVIOUS
  <2>3. MarkerLast' BY <2>1 DEF CreateOrder
  <2>4. cli'.step = 2 BY <2>1
  <2>5. cli'.step \in 2..7 BY <2>4
  <2>6. made' = {CreateOrder[i] : i \in 1..cli'.step - 1} BY <2>1, <2>2, <2>4, Zenon
  <2> QED BY <2>3, <2>5, <2>6, Zenon DEF CreateInv
<1>2. CASE CreateStep
  <2>1. PICK n : n = cli.step OBVIOUS
  <2>2. n \in 2..7 /\ made = {CreateOrder[i] : i \in 1..n - 1}
    BY <1>2, <2>1, Zenon DEF CreateStep, CreateInv
  <2>3. n \in 1..7 BY <2>2
  <2>4. /\ Len(CreateOrder) = 7
        /\ n = 7 => {CreateOrder[i] : i \in 1..n} = Files
        /\ n # 7 => "master.cert filled" \notin {CreateOrder[i] : i \in 1..n}
        /\ {CreateOrder[i] : i \in 1..n - 1} \union {CreateOrder[n]}
           = {CreateOrder[i] : i \in 1..n}
    BY <2>3, CreateSteps, Zenon
  <2>5. made' = made \union {CreateOrder[n]} BY <1>2, <2>1, Zenon DEF CreateStep
  <2>6. made' = {CreateOrder[i] : i \in 1..n} BY <2>2, <2>4, <2>5, Zenon
  <2>7. CASE n = 7
    <3>1. cli' = None BY <1>2, <2>1, <2>4, <2>7, Zenon DEF CreateStep
    <3>2. made' = Files BY <2>4, <2>6, <2>7, Zenon
    <3> QED BY <3>1, <3>2, Zenon DEF CreateInv
  <2>8. CASE n # 7
    <3>1. MarkerLast' BY <2>4, <2>6, <2>8, Zenon
    <3>2. cli' = [file |-> "create", step |-> n + 1]
      BY <1>2, <2>1, <2>4, <2>8, Zenon DEF CreateStep
    <3>3. n + 1 \in 2..7 /\ (n + 1) - 1 = n BY <2>2, <2>8
    <3>4. cli'.step = n + 1 BY <3>2
    <3> QED BY <2>6, <3>1, <3>3, <3>4, Zenon DEF CreateInv
  <2> QED BY <2>7, <2>8
<1>3. CASE \/ \E r \in Requests : CertAdminCmd(r) \/ CertUserCmd(r)
           \/ \E at \in Locations, d \in Data : SetCmd(at, d)
           \/ \E f \in certs : Revoke(f)
  <2>2. ASSUME NEW r, CertAdminCmd(r) \/ CertUserCmd(r)
        PROVE  made' = made /\ cli'.file = "cert"
    BY SavingCert, <2>2, Zenon DEF CertAdminCmd, CertUserCmd
  <2>3. ASSUME NEW at, NEW d, SetCmd(at, d)
        PROVE  made' = made /\ cli'.file = "value"
    BY <2>3, Zenon DEF SetCmd
  <2>4. ASSUME NEW f, Revoke(f) PROVE made' = made /\ cli' = cli
    BY <2>4 DEF Revoke
  <2>5. made' = made /\ (cli'.file = "cert" \/ cli'.file = "value" \/ cli' = cli)
    BY <1>3, <2>2, <2>3, <2>4
  <2> QED BY <2>5, Zenon DEF CreateInv
<1>4. CASE FillFile \/ CliDies
  <2>1. made' = made BY <1>4, Zenon DEF FillFile, CliDies, repo
  <2>2. cli' = None BY <1>4, Zenon DEF FillFile, CliDies
  <2> QED BY <2>1, <2>2, Zenon DEF CreateInv
<1>5. CASE UNCHANGED repoVars BY <1>5, Zenon DEF repoVars, repo, CreateInv
<1> QED
  <2>1. Command => \/ InitCmd
                   \/ \E r \in Requests : CertAdminCmd(r) \/ CertUserCmd(r)
                   \/ \E at \in Locations, d \in Data : SetCmd(at, d)
                   \/ \E f \in certs : Revoke(f)
    BY Zenon DEF Command
  <2>2. CliStep => CreateStep \/ FillFile \/ CliDies BY DEF CliStep
  <2> QED BY <1>1, <1>2, <1>3, <1>4, <1>5, <2>1, <2>2, RepoPart

\* A repository that opens has all its parts, wherever "secretctl init" was
\* interrupted.
THEOREM RepositoryComplete == SecretsSpec => []MarkerLast
<1>1. SecretsInit => CreateInv
  BY ReposAssumption DEF SecretsInit, CreateInv, MarkerLast, Opens
<1>2. CreateInv => MarkerLast BY DEF CreateInv
<1> QED BY <1>1, <1>2, CreateStepInv, PTL DEF SecretsSpec

-----------------------------------------------------------------------------
(* renewHostCert *)

\* The host certificate outlives the sleep of renewHostCert, and one that is
\* not looked after belongs to a daemon that stops.
HostInv ==
    /\ now \in Nat
    /\ renewer \in {"off", "sign", "retry", "lock", "sleep"}
    /\ renewer = "sleep" => hostExpires \in Nat /\ now <= hostExpires - RenewBefore
    /\ hostExpires # None /\ ~failing => hostExpires \in Nat /\ now < hostExpires
    /\ renewer = "retry" => failing
    /\ renewer = "off" => stopping \/ hostExpires = None

hostVars == <<now, renewer, stopping, hostExpires, failing>>

\* Every step keeps HostInv.
LEMMA HostStep == HostInv /\ [SecretsNext]_vars => HostInv'
<1> SUFFICES ASSUME HostInv, [SecretsNext]_vars PROVE HostInv' OBVIOUS
<1> USE HostAssumption DEF HostInv
<1>1. CASE Tick BY <1>1 DEF Tick, RenewTime, daemonVars, serverVars
<1>2. CASE Start BY <1>2 DEF Start
<1>3. CASE Signal BY <1>3 DEF Signal
<1>4. CASE Exit BY <1>4 DEF Exit
<1>5. CASE HostCertSigned BY <1>5 DEF HostCertSigned
<1>6. CASE AddHostKey BY <1>6 DEF AddHostKey
<1>7. CASE RenewAgain BY <1>7 DEF RenewAgain
<1>8. CASE RenewerStops BY <1>8 DEF RenewerStops
<1>9. CASE UNCHANGED hostVars BY <1>9 DEF hostVars
<1> QED
  <2> HIDE DEF HostInv
  <2>1. CASE Command \/ CliStep
    <3>1. now' = now
      BY <2>1, Zenon DEF Command, CliStep, InitCmd, CertAdminCmd, CertUserCmd, SetCmd,
          Revoke, CreateStep, FillFile, CliDies
    <3>2. UNCHANGED serverVars BY <2>1 DEF Command, CliStep, daemonVars
    <3> QED BY <1>9, <3>1, <3>2 DEF serverVars, hostVars
  <2>2. CASE AgentFails \/ AgentHeals \/ (\E p \in Signers : Signing(p)) \/ UNCHANGED vars
    BY <1>9, <2>2 DEF AgentFails, AgentHeals, Signing, vars, daemonVars, serverVars, hostVars
  <2>3. CASE Main
    BY <1>4, <1>9, <2>3 DEF Main, Loop, AcceptTimeout, Accepting, Accept, hostVars
  <2>4. CASE \E c \in Conns : Handling(c)
    BY <1>9, <2>4, Zenon DEF Handling, ConnStep, Handshake, Authenticate, OpenSession,
        BadRequest, Request, SearchName, LoadValue, Decrypt, Reply, Hangup, Become,
        Goto, serverVars, hostVars
  <2>5. CASE Tick \/ Starting \/ Stopping \/ Renewing
    BY <1>1, <1>2, <1>3, <1>5, <1>6, <1>7, <1>8, <2>5
    DEF Starting, Stopping, Renewing, RenewStep
  <2> QED BY <2>1, <2>2, <2>3, <2>4, <2>5 DEF SecretsNext

\* Clients meet an expired host certificate only after renewHostCert failed,
\* for all lifetimes that are longer than the threshold for renewal.
THEOREM HostCertStaysFresh == SecretsSpec => []HostCertFresh
<1>1. SecretsInit => HostInv BY DEF SecretsInit, HostInv
<1>2. HostInv => HostCertFresh BY DEF HostInv, HostCertFresh
<1> QED BY <1>1, <1>2, HostStep, PTL DEF SecretsSpec

-----------------------------------------------------------------------------
(* Client.Sign *)

\* Who signs again does so over a connection that is up, unless ssh-agent
\* went away since, or the connection was given up.
SignInv ==
    /\ call \in [Signers -> {"idle", "first", "lock", "check", "again", "ok", "error"}]
    /\ SignFailsWithCause
    /\ \A p \in Signers : call[p] \in {"check", "again"} =>
           link = "up" \/ link = "closed" \/ p \in excused

\* Every step keeps SignInv.
LEMMA SignInvStep == SignInv /\ [SecretsNext]_vars => SignInv'
<1> SUFFICES ASSUME SignInv, [SecretsNext]_vars PROVE SignInv' OBVIOUS
<1> USE DEF SignInv, SignFailsWithCause
<1>1. ASSUME NEW p, Sign(p) PROVE SignInv' BY <1>1, Zenon DEF Sign
<1>2. ASSUME NEW p \in Signers, SignStep(p) PROVE SignInv'
  <2>1. CASE First(p) BY <2>1 DEF First
  <2>2. CASE Connect(p) BY <2>2 DEF Connect
  <2>3. CASE CheckLink(p) BY <2>3 DEF CheckLink
  <2>4. CASE Again(p) BY <2>4 DEF Again
  <2> QED BY <1>2, <2>1, <2>2, <2>3, <2>4 DEF SignStep
<1>3. CASE AgentDies BY <1>3 DEF AgentDies, Calling
<1>4. CASE AgentReturns BY <1>4 DEF AgentReturns
<1>5. CASE Start BY <1>5 DEF Start
<1>6. CASE Exit BY <1>6 DEF Exit
<1>7. CASE UNCHANGED agentVars BY <1>7 DEF agentVars
<1> QED
  <2> HIDE DEF SignInv
  <2>1. CASE Command \/ CliStep \/ Tick \/ Stopping \/ UNCHANGED vars
    BY <1>7, <2>1 DEF Command, CliStep, Tick, Stopping, Signal, vars
  <2>2. CASE AgentFails \/ AgentHeals \/ (\E p \in Signers : Signing(p)) \/ Starting
    BY <1>2, <1>3, <1>4, <1>5, <2>2 DEF AgentFails, AgentHeals, Signing, Starting
  <2>3. CASE Main
    BY <1>6, <1>7, <2>3 DEF Main, Loop, AcceptTimeout, Accepting, Accept
  <2>4. CASE Renewing
    BY <1>1, <1>7, <2>4 DEF Renewing, RenewStep, HostCertSigned, AddHostKey,
        RenewAgain, RenewerStops
  <2>5. CASE \E c \in Conns : Handling(c)
    BY <1>1, <1>7, <2>5, Zenon DEF Handling, ConnStep, Handshake, Authenticate, OpenSession,
        BadRequest, Request, SearchName, LoadValue, Decrypt, Reply, Hangup, Goto
  <2> QED BY <2>1, <2>2, <2>3, <2>4, <2>5 DEF SecretsNext

\* Client.Sign fails only for want of an ssh-agent, whatever the number of
\* goroutines that sign and the times at which ssh-agent restarts.
THEOREM SignOnlyFailsWithCause == SecretsSpec => []SignFailsWithCause
<1>1. SecretsInit => SignInv BY DEF SecretsInit, SignInv, SignFailsWithCause
<1>2. SignInv => SignFailsWithCause BY DEF SignInv
<1> QED BY <1>1, <1>2, SignInvStep, PTL DEF SecretsSpec

-----------------------------------------------------------------------------
(* The access control list, and the values *)

\* The list has finitely many rows, and each has a path.
AclInv == IsFiniteSet(acl) /\ \A r \in acl : r.path \in Seq(STRING)

\* A location holds a value, is empty or torn, and so it stays when the command
\* is done.
ValuesInv ==
    /\ values \in [Locations -> Data \union {None, Torn}]
    /\ cli # None /\ cli.file = "value" => cli.data \in Data

\* The image of a finite set is finite.
LEMMA FiniteImage ==
    ASSUME NEW S, IsFiniteSet(S), NEW T, NEW f \in [S -> T], \A t \in T : \E x \in S : f[x] = t
    PROVE  IsFiniteSet(T)
<1>1. f \in Surjection(S, T)
  BY DEF Surjection
<1> QED BY <1>1, FS_Surjection

\* A certificate has finitely many rows.
LEMMA RowsFinite ==
    ASSUME NEW cert, cert.paths \in PathLists, IsFiniteSet(cert.caps)
    PROVE  IsFiniteSet(Rows(cert)) /\ \A r \in Rows(cert) : r.path \in Seq(STRING)
<1> DEFINE row(c, i) == [key |-> cert.key, cap |-> c, path |-> cert.paths[i], priority |-> i,
                         after |-> cert.after, before |-> cert.before]
           D == DOMAIN cert.paths
           f == [x \in cert.caps \X D |-> row(x[1], x[2])]
<1>1. \A r : r \in Rows(cert) <=> \E c \in cert.caps : \E i \in D : r = row(c, i)
  BY DEF Rows
<1>2. IsFiniteSet(D) /\ \A i \in D : cert.paths[i] \in Seq(STRING)
  <2>1. D = 1..Len(cert.paths) /\ 1 \in Int /\ Len(cert.paths) \in Int
    BY DEF PathLists
  <2>2. IsFiniteSet(1..Len(cert.paths))
    BY <2>1, FS_Interval
  <2> QED BY <2>1, <2>2 DEF PathLists
<1>3. \A c, i : row(c, i).path = cert.paths[i]
  OBVIOUS
<1> HIDE DEF row, D
<1>4. \A r \in Rows(cert) : r.path \in Seq(STRING)
  BY <1>1, <1>2, <1>3
<1>5. IsFiniteSet(cert.caps \X D)
  BY <1>2, FS_Product
<1>6. f \in [cert.caps \X D -> Rows(cert)]
  BY <1>1
<1>7. \A r \in Rows(cert) : \E x \in cert.caps \X D : f[x] = r
  <2>1. \A c \in cert.caps : \A i \in D :
           <<c, i>> \in cert.caps \X D /\ f[<<c, i>>] = row(c, i)
    OBVIOUS
  <2> HIDE DEF f
  <2>2. SUFFICES ASSUME NEW r \in Rows(cert) PROVE \E x \in cert.caps \X D : f[x] = r
    OBVIOUS
  <2>3. PICK c \in cert.caps, i \in D : r = row(c, i)
    BY <1>1
  <2>4. <<c, i>> \in cert.caps \X D /\ f[<<c, i>>] = r
    BY <2>1, <2>3
  <2> QED BY <2>4
<1> HIDE DEF f
<1>8. IsFiniteSet(Rows(cert))
  BY <1>5, <1>6, <1>7, FiniteImage
<1> QED BY <1>4, <1>8

\* The capabilities of a valid certificate are finitely many.
LEMMA CapsFinite ==
    ASSUME NEW cert, NEW t, ValidCert(cert, t)
    PROVE  IsFiniteSet(cert.caps)
<1>1. IsFiniteSet(Admin) /\ IsFiniteSet(User)
  <2>1. IsFiniteSet({}) /\ IsFiniteSet({"rA"}) /\ IsFiniteSet({"r"})
    BY FS_EmptySet, FS_Singleton, Zenon
  <2>2. Admin = {"rA"} \union {"wA"} /\ User = {"r"} \union {"w"}
    BY DEF Admin, User
  <2> QED BY <2>1, <2>2, FS_AddElement, Zenon
<1>2. cert.caps \subseteq Admin \/ cert.caps \subseteq User
  BY DEF ValidCert
<1> QED BY <1>1, <1>2, FS_Subset

\* loadCerts leaves finitely many rows with paths.
LEMMA LoadFinite ==
    ASSUME NEW rows, IsFiniteSet(rows), \A r \in rows : r.path \in Seq(STRING),
           NEW given, IsFiniteSet(given), \A c \in given : c.paths \in PathLists,
           NEW kind, NEW t
    PROVE  /\ IsFiniteSet(LoadCerts(rows, given, kind, t))
           /\ \A r \in LoadCerts(rows, given, kind, t) : r.path \in Seq(STRING)
<1> DEFINE held == {c \in given : ValidCert(c, t) /\ ValidIn(rows, c, t)}
           kept == {r \in rows : r.cap \notin kind}
           all == {Rows(c) : c \in held}
<1>1. LoadCerts(rows, given, kind, t) = kept \union UNION all
  BY Zenon DEF LoadCerts
<1>2. IsFiniteSet(kept) /\ IsFiniteSet(held)
  BY FS_Subset
<1>3. \A c \in held : IsFiniteSet(Rows(c)) /\ \A r \in Rows(c) : r.path \in Seq(STRING)
  BY CapsFinite, RowsFinite, Zenon
<1> HIDE DEF held
<1>4. IsFiniteSet(all)
  <2> DEFINE f == [c \in held |-> Rows(c)]
  <2>1. f \in [held -> all] /\ \A x \in all : \E c \in held : f[c] = x
    BY Zenon
  <2> QED BY <1>2, <2>1, FiniteImage, Zenon
<1>5. IsFiniteSet(UNION all)
  BY <1>3, <1>4, FS_UNION, Zenon
<1>6. IsFiniteSet(kept \union UNION all)
  BY <1>2, <1>5, FS_Union, Zenon
<1>7. \A r \in kept \union UNION all : r.path \in Seq(STRING)
  BY <1>3, Zenon
<1> QED BY <1>1, <1>6, <1>7, Zenon

\* So does ACL.Load.
LEMMA AclLoaded ==
    ASSUME CertsInv, NEW t
    PROVE  LET rows == Load(Certs("admin"), Certs("user"), t)
           IN IsFiniteSet(rows) /\ \A r \in rows : r.path \in Seq(STRING)
<1>1. ASSUME NEW kind
      PROVE  IsFiniteSet(Certs(kind)) /\ \A c \in Certs(kind) : c.paths \in PathLists
  <2> DEFINE given == {g \in certs : g.kind = kind /\ g.whole}
             f == [g \in given |-> g.cert]
  <2>1. IsFiniteSet(given) /\ Certs(kind) = {g.cert : g \in given}
    BY FS_Subset DEF CertsInv, Certs
  <2>2. \A g \in given : g.cert.paths \in PathLists
    BY Zenon DEF CertsInv, FileOk
  <2> HIDE DEF given
  <2>3. f \in [given -> Certs(kind)] /\ \A c \in Certs(kind) : \E g \in given : f[g] = c
    BY <2>1, Zenon
  <2>4. \A c \in Certs(kind) : c.paths \in PathLists
    BY <2>1, <2>2, Zenon
  <2> HIDE DEF f
  <2>5. IsFiniteSet(Certs(kind))
    BY <2>1, <2>3, FiniteImage, Zenon
  <2> QED BY <2>4, <2>5
<1>2. IsFiniteSet({})
  BY FS_EmptySet
<1>3. /\ IsFiniteSet(LoadCerts({}, Certs("admin"), Admin, t))
      /\ \A r \in LoadCerts({}, Certs("admin"), Admin, t) : r.path \in Seq(STRING)
  BY <1>1, <1>2, LoadFinite, Zenon
<1> QED BY <1>1, <1>3, LoadFinite, Zenon DEF Load

\* ACL.AllowedRead returns a list of paths.
LEMMA AllowedTyped ==
    ASSUME AclInv, NEW key, NEW t, NEW allowed \in AllowedRead(acl, key, t)
    PROVE  allowed \in PathLists
<1> DEFINE rows == {r \in ValidACL(acl, t) : r.key = key /\ r.cap = "r"}
           paths == {r.path : r \in rows}
           f == [r \in rows |-> r.path]
<1>1. allowed \in Bijection(1..Cardinality(paths), paths)
  BY Zenon DEF AllowedRead
<1>2. rows \subseteq acl
  BY DEF ValidACL
<1> HIDE DEF rows
<1>3. IsFiniteSet(rows) /\ \A p \in paths : p \in Seq(STRING)
  BY <1>2, FS_Subset DEF AclInv
<1>4. IsFiniteSet(paths)
  <2>1. f \in [rows -> paths] /\ \A p \in paths : \E r \in rows : f[r] = p
    BY Zenon
  <2> HIDE DEF f, paths
  <2> QED BY <1>3, <2>1, FiniteImage, Zenon
<1> HIDE DEF paths
<1>5. Cardinality(paths) \in Nat
  BY <1>4, FS_CardinalityType
<1>6. allowed \in [1..Cardinality(paths) -> paths]
  BY <1>1, Zenon DEF Bijection, Injection
<1> QED BY <1>3, <1>5, <1>6 DEF PathLists

-----------------------------------------------------------------------------
(* The answers of secretd *)

\* A record with the fields of a connection
Shape(r) == DOMAIN r = {"pc", "key", "todo", "query", "allowed", "found", "secrets", "errors"}

\* Every name of the query is still to do, or has an error or a secret.
Answered(r) ==
    \A i \in DOMAIN r.query :
        \/ \E j \in 1..Len(r.todo) : r.query[i] = r.todo[j]
        \/ r.query[i] \in r.errors
        \/ \E s \in r.secrets : s.name = r.query[i]

Before == {"closed", "accepted", "handshake", "session", "request"}
During == {"search", "load", "decrypt"}

\* What is true of a connection: of the secrets it has, and of the value that
\* is on its way
SecretOk(s, allowed) == s.data \in Data /\ FoundFrom(s.at, s.name, allowed)

FoundOk(r) ==
    /\ r.pc = "load" => r.found \in Locations /\ FoundFrom(r.found, Head(r.todo), r.allowed)
    /\ r.pc = "decrypt" => r.found.name = Head(r.todo) /\ SecretOk(r.found, r.allowed)

ConnOk(r) ==
    /\ Shape(r)
    /\ r.pc \in Before \union During \union {"reply", "closing"}
    /\ r.allowed \in PathLists
    /\ r.pc \in Before => r.secrets = {}
    /\ \A s \in r.secrets : SecretOk(s, r.allowed)
    /\ r.pc \in During => r.todo \in Seq(Names) /\ r.todo # <<>> /\ Answered(r)
    /\ FoundOk(r)
    /\ r.pc = "reply" => None \in r.errors \/ (r.todo = <<>> /\ Answered(r))

ConnsInv == DOMAIN conn = Conns /\ \A c \in Conns : ConnOk(conn[c])

\* What Answered depends on
LEMMA AnsweredSame ==
    ASSUME NEW r, NEW s, Answered(r), s.query = r.query, s.todo = r.todo,
           s.errors = r.errors, s.secrets = r.secrets
    PROVE  Answered(s)
BY Zenon DEF Answered

\* A step before the query, or after the reply
LEMMA MoveOk ==
    ASSUME NEW r, ConnOk(r), NEW s, Shape(s), s.allowed = r.allowed, s.secrets = r.secrets,
           (r.pc \in Before /\ s.pc \in Before) \/ s.pc = "closing"
    PROVE  ConnOk(s)
<1>1. /\ s.pc \in Before \union {"closing"} /\ s.pc \notin During
      /\ s.pc # "load" /\ s.pc # "decrypt" /\ s.pc # "reply"
  BY DEF Before, During
<1>2. s.pc \in Before => s.secrets = {}
  <2>1. "closing" \notin Before
    BY DEF Before
  <2> QED BY <2>1 DEF ConnOk
<1> QED BY <1>1, <1>2, Zenon DEF ConnOk, FoundOk

\* The next name, or the reply
LEMMA DoneOk ==
    ASSUME NEW r, ConnOk(r), r.pc \in During, NEW s, Shape(s),
           s.pc = IF Len(r.todo) = 1 THEN "reply" ELSE "search",
           s.todo = Tail(r.todo), s.query = r.query, s.allowed = r.allowed,
           \A x \in s.secrets : SecretOk(x, r.allowed),
           r.errors \subseteq s.errors,
           \A x \in r.secrets : \E y \in s.secrets : y.name = x.name,
           Head(r.todo) \in s.errors \/ \E y \in s.secrets : y.name = Head(r.todo)
    PROVE  ConnOk(s)
<1>1. r.todo \in Seq(Names) /\ r.todo # <<>> /\ Answered(r) /\ r.allowed \in PathLists
  BY Zenon DEF ConnOk
<1>2. /\ Len(r.todo) > 0 /\ Head(r.todo) = r.todo[1] /\ s.todo \in Seq(Names)
      /\ \A j \in 2..Len(r.todo) : j - 1 \in 1..Len(s.todo) /\ r.todo[j] = s.todo[j - 1]
      /\ Len(r.todo) = 1 <=> s.todo = <<>>
  BY <1>1, TailOf, Zenon
<1>3. Answered(s)
  <2>1. SUFFICES ASSUME NEW i \in DOMAIN r.query
                 PROVE  \/ \E j \in 1..Len(s.todo) : r.query[i] = s.todo[j]
                        \/ r.query[i] \in s.errors
                        \/ \E x \in s.secrets : x.name = r.query[i]
    BY Zenon DEF Answered
  <2>2. CASE \E j \in 1..Len(r.todo) : r.query[i] = r.todo[j]
    <3>1. PICK j \in 1..Len(r.todo) : r.query[i] = r.todo[j]
      BY <2>2
    <3>2. CASE j = 1
      BY <1>2, <3>1, <3>2, Zenon
    <3>3. CASE j # 1
      <4>1. j \in 2..Len(r.todo)
        BY <1>2, <3>3
      <4> QED BY <1>2, <3>1, <4>1, Zenon
    <3> QED BY <3>2, <3>3, Zenon
  <2>3. CASE r.query[i] \in r.errors
    BY <2>3, Zenon
  <2>4. CASE \E x \in r.secrets : x.name = r.query[i]
    BY <2>4, Zenon
  <2> QED BY <1>1, <2>2, <2>3, <2>4, Zenon DEF Answered
<1>4. CASE Len(r.todo) = 1
  <2>1. s.pc = "reply" /\ s.todo = <<>>
    BY <1>2, <1>4
  <2>2. s.pc \notin Before /\ s.pc \notin During
    BY <2>1 DEF Before, During
  <2> QED BY <1>1, <1>3, <2>1, <2>2, Zenon DEF ConnOk, FoundOk
<1>5. CASE Len(r.todo) # 1
  <2>1. s.pc = "search" /\ s.todo # <<>>
    BY <1>2, <1>5
  <2>2. s.pc \notin Before /\ s.pc \in During
    BY <2>1 DEF Before, During
  <2> QED BY <1>1, <1>2, <1>3, <2>1, <2>2, Zenon DEF ConnOk, FoundOk
<1> QED BY <1>4, <1>5

\* A name that fails
LEMMA FailOk ==
    ASSUME NEW r, ConnOk(r), r.pc \in During
    PROVE  ConnOk(Fail(r))
<1>1. PICK s : s = Fail(r)
  OBVIOUS
<1>2. Shape(r) /\ \A x \in r.secrets : SecretOk(x, r.allowed)
  BY Zenon DEF ConnOk
<1>3. /\ Shape(s) /\ s.pc = IF Len(r.todo) = 1 THEN "reply" ELSE "search"
      /\ s.todo = Tail(r.todo) /\ s.query = r.query /\ s.allowed = r.allowed
      /\ s.secrets = r.secrets /\ s.errors = r.errors \union {Head(r.todo)}
  BY <1>1, <1>2, Zenon DEF Shape, Fail, Advance
<1>4. Head(r.todo) \in s.errors /\ r.errors \subseteq s.errors
  BY <1>3
<1> QED BY <1>1, <1>2, <1>3, <1>4, DoneOk, Zenon

\* A query arrives.
LEMMA RequestOk ==
    ASSUME NEW r, ConnOk(r), r.pc = "request", NEW query \in Queries, NEW allowed \in PathLists
    PROVE  ConnOk([r EXCEPT !.pc = "search", !.todo = query, !.query = query, !.allowed = allowed])
<1>1. PICK s : s = [r EXCEPT !.pc = "search", !.todo = query, !.query = query, !.allowed = allowed]
  OBVIOUS
<1>2. Shape(r) /\ r.secrets = {}
  <2>1. r.pc \in Before
    BY DEF Before
  <2> QED BY <2>1, Zenon DEF ConnOk
<1>3. /\ Shape(s) /\ s.pc = "search" /\ s.todo = query /\ s.query = query
      /\ s.allowed = allowed /\ s.secrets = {}
  BY <1>1, <1>2, Zenon DEF Shape
<1>4. query \in Seq(Names) /\ query # <<>> /\ DOMAIN query = 1..Len(query)
  BY QueriesAssumption
<1>5. Answered(s)
  BY <1>3, <1>4, Zenon DEF Answered
<1>6. s.pc \notin Before /\ s.pc \in During
  BY <1>3 DEF Before, During
<1>7. ConnOk(s)
  BY <1>3, <1>4, <1>5, <1>6, Zenon DEF ConnOk, FoundOk
<1> QED BY <1>1, <1>7

\* Search found a value.
LEMMA SearchOk ==
    ASSUME NEW r, ConnOk(r), r.pc = "search", Search(Head(r.todo), r.allowed) # None
    PROVE  ConnOk([r EXCEPT !.pc = "load", !.found = Search(Head(r.todo), r.allowed)])
<1>1. PICK found : found = Search(Head(r.todo), r.allowed)
  OBVIOUS
<1>2. PICK s : s = [r EXCEPT !.pc = "load", !.found = found]
  OBVIOUS
<1>3. /\ Shape(r) /\ r.allowed \in PathLists /\ r.todo \in Seq(Names) /\ r.todo # <<>>
      /\ Answered(r) /\ \A x \in r.secrets : SecretOk(x, r.allowed)
  <2>1. r.pc \in During
    BY DEF During
  <2> QED BY <2>1, Zenon DEF ConnOk
<1>4. /\ Shape(s) /\ s.pc = "load" /\ s.todo = r.todo /\ s.query = r.query
      /\ s.allowed = r.allowed /\ s.secrets = r.secrets /\ s.found = found
      /\ s.errors = r.errors
  BY <1>2, <1>3, Zenon DEF Shape
<1>5. found \in Locations /\ FoundFrom(found, Head(r.todo), r.allowed)
  BY <1>1, <1>3, SearchFound, Zenon
<1>9. Answered(s)
  BY <1>3, <1>4, AnsweredSame, Zenon
<1>7. s.pc \notin Before /\ s.pc \in During /\ s.pc # "decrypt" /\ s.pc # "reply"
  BY <1>4 DEF Before, During
<1>8. ConnOk(s)
  BY <1>3, <1>4, <1>5, <1>7, <1>9, Zenon DEF ConnOk, FoundOk
<1> QED BY <1>1, <1>2, <1>8, Zenon

\* The value is whole.
LEMMA LoadOk ==
    ASSUME NEW r, ConnOk(r), r.pc = "load", NEW data \in Data
    PROVE  ConnOk([r EXCEPT !.pc = "decrypt", !.found = [name |-> Head(r.todo), at |-> @, data |-> data]])
<1>1. PICK s : s = [r EXCEPT !.pc = "decrypt", !.found = [name |-> Head(r.todo), at |-> @, data |-> data]]
  OBVIOUS
<1>2. /\ Shape(r) /\ r.allowed \in PathLists /\ r.todo \in Seq(Names) /\ r.todo # <<>>
      /\ Answered(r) /\ \A x \in r.secrets : SecretOk(x, r.allowed)
      /\ FoundFrom(r.found, Head(r.todo), r.allowed)
  <2>1. r.pc \in During
    BY DEF During
  <2> QED BY <2>1, Zenon DEF ConnOk, FoundOk
<1>3. /\ Shape(s) /\ s.pc = "decrypt" /\ s.todo = r.todo /\ s.query = r.query
      /\ s.allowed = r.allowed /\ s.secrets = r.secrets /\ s.errors = r.errors
      /\ s.found = [name |-> Head(r.todo), at |-> r.found, data |-> data]
  BY <1>1, <1>2, Zenon DEF Shape
<1>4. s.found.at = r.found /\ s.found.data = data /\ s.found.name = Head(r.todo)
  BY <1>3
<1>9. Answered(s)
  BY <1>2, <1>3, AnsweredSame, Zenon
<1>5. s.pc \notin Before /\ s.pc \in During /\ s.pc # "load" /\ s.pc # "reply"
  BY <1>3 DEF Before, During
<1>6. ConnOk(s)
  BY <1>2, <1>3, <1>4, <1>5, <1>9, Zenon DEF ConnOk, FoundOk, SecretOk
<1> QED BY <1>1, <1>6

\* The value is decrypted.
LEMMA DecryptOk ==
    ASSUME NEW r, ConnOk(r), r.pc = "decrypt"
    PROVE  ConnOk([Advance(r) EXCEPT !.secrets = {x \in @ : x.name # r.found.name}
                                                    \union {r.found}])
<1>1. PICK s : s = [Advance(r) EXCEPT !.secrets = {x \in @ : x.name # r.found.name}
                                                     \union {r.found}]
  BY Zenon
<1>2. /\ r.pc \in During /\ Shape(r) /\ \A x \in r.secrets : SecretOk(x, r.allowed)
      /\ r.found.name = Head(r.todo) /\ SecretOk(r.found, r.allowed)
  <2>1. r.pc \in During
    BY DEF During
  <2> QED BY <2>1, Zenon DEF ConnOk, FoundOk
<1>3. PICK q : q = Advance(r)
  OBVIOUS
<1>4. /\ Shape(q) /\ q.pc = IF Len(r.todo) = 1 THEN "reply" ELSE "search"
      /\ q.todo = Tail(r.todo) /\ q.query = r.query /\ q.allowed = r.allowed
      /\ q.secrets = r.secrets /\ q.errors = r.errors
  BY <1>2, <1>3, Zenon DEF Shape, Advance
<1>5. /\ Shape(s) /\ s.pc = q.pc /\ s.todo = q.todo /\ s.query = q.query
      /\ s.allowed = q.allowed /\ s.errors = q.errors
      /\ s.secrets = {x \in q.secrets : x.name # r.found.name} \union {r.found}
  BY <1>1, <1>3, <1>4, Zenon DEF Shape
<1>6. \A x \in r.secrets : \E y \in s.secrets : y.name = x.name
  BY <1>4, <1>5, Zenon
<1>7. (\A x \in s.secrets : SecretOk(x, r.allowed)) /\ \E y \in s.secrets : y.name = Head(r.todo)
  BY <1>2, <1>4, <1>5, Zenon
<1>9. /\ Shape(s) /\ s.pc = IF Len(r.todo) = 1 THEN "reply" ELSE "search"
      /\ s.todo = Tail(r.todo) /\ s.query = r.query /\ s.allowed = r.allowed
      /\ r.errors \subseteq s.errors
  BY <1>4, <1>5, Zenon
<1>8. ConnOk(s)
  BY <1>2, <1>6, <1>7, <1>9, DoneOk, Zenon
<1> QED BY <1>1, <1>8

\* A connection that starts anew
LEMMA ClosedOk == ConnOk(Closed)
<1>1. /\ Shape(Closed) /\ Closed.pc = "closed" /\ Closed.secrets = {} /\ Closed.allowed = <<>>
  BY Zenon DEF Shape, Closed
<1>2. /\ Closed.pc \in Before /\ Closed.pc \notin During /\ Closed.pc # "load"
      /\ Closed.pc # "decrypt" /\ Closed.pc # "reply"
  BY <1>1 DEF Before, During
<1>3. <<>> \in PathLists
  BY DEF PathLists
<1> QED BY <1>1, <1>2, <1>3, Zenon DEF ConnOk, FoundOk

\* One connection changes.
LEMMA BecomeOk ==
    ASSUME ConnsInv, NEW c \in Conns, NEW s, ConnOk(s), conn' = [conn EXCEPT ![c] = s]
    PROVE  ConnsInv'
<1>1. DOMAIN conn' = Conns /\ \A d \in Conns : conn'[d] = IF d = c THEN s ELSE conn[d]
  BY Zenon DEF ConnsInv
<1> QED BY <1>1, Zenon DEF ConnsInv

\* Another place in the handler
LEMMA GotoOk ==
    ASSUME ConnsInv, NEW c \in Conns, NEW pc,
           (conn[c].pc \in Before /\ pc \in Before) \/ pc = "closing",
           conn' = [conn EXCEPT ![c] = [conn[c] EXCEPT !.pc = pc]]
    PROVE  ConnsInv'
<1>1. PICK r : r = conn[c] /\ ConnOk(r)
  BY Zenon DEF ConnsInv
<1>2. PICK s : s = [r EXCEPT !.pc = pc]
  BY Zenon
<1>3. Shape(r)
  BY <1>1, Zenon DEF ConnOk
<1>4. Shape(s) /\ s.pc = pc /\ s.allowed = r.allowed /\ s.secrets = r.secrets
  BY <1>2, <1>3, Zenon DEF Shape
<1>5. ConnOk(s)
  BY <1>1, <1>4, MoveOk, Zenon
<1> QED BY <1>1, <1>2, <1>5, BecomeOk, Zenon

\* The steps of a handler
LEMMA HandlerOk ==
    ASSUME ConnsInv, AclInv, ValuesInv, NEW c \in Conns, NEW clients, ConnStep(c, clients)
    PROVE  ConnsInv'
<1>1. PICK r : r = conn[c] /\ ConnOk(r)
  BY Zenon DEF ConnsInv
<1>2. ASSUME NEW s, ConnOk(s), Become(c, s) PROVE ConnsInv'
  BY <1>2, BecomeOk, Zenon DEF Become
<1>3. CASE Handshake(c)
  <2>1. "accepted" \in Before /\ "handshake" \in Before
    BY DEF Before
  <2> QED BY <1>3, <2>1, GotoOk, Zenon DEF Handshake, Goto, Become
<1>4. ASSUME NEW key, Authenticate(c, key) PROVE ConnsInv'
  <2>1. PICK s : s = [r EXCEPT !.pc = "session", !.key = key]
    BY Zenon
  <2>2. Shape(r) /\ r.pc = "handshake"
    BY <1>1, <1>4, Zenon DEF ConnOk, Authenticate
  <2>3. Shape(s) /\ s.pc = "session" /\ s.allowed = r.allowed /\ s.secrets = r.secrets
    BY <2>1, <2>2, Zenon DEF Shape
  <2>4. r.pc \in Before /\ s.pc \in Before
    BY <2>2, <2>3 DEF Before
  <2>5. ConnOk(s)
    BY <1>1, <2>3, <2>4, MoveOk, Zenon
  <2> QED BY <1>1, <1>2, <1>4, <2>1, <2>5, Zenon DEF Authenticate
<1>5. CASE OpenSession(c)
  <2>1. "session" \in Before /\ "request" \in Before
    BY DEF Before
  <2> QED BY <1>5, <2>1, GotoOk, Zenon DEF OpenSession, Goto, Become
<1>6. CASE BadRequest(c)
  <2>1. PICK s : s = [r EXCEPT !.pc = "reply", !.errors = {None}]
    BY Zenon
  <2>2. Shape(r) /\ r.allowed \in PathLists /\ \A x \in r.secrets : SecretOk(x, r.allowed)
    BY <1>1, Zenon DEF ConnOk
  <2>3. /\ Shape(s) /\ s.pc = "reply" /\ s.allowed = r.allowed /\ s.secrets = r.secrets
        /\ s.errors = {None}
    BY <2>1, <2>2, Zenon DEF Shape
  <2>4. s.pc \notin Before /\ s.pc \notin During /\ s.pc # "load" /\ s.pc # "decrypt"
    BY <2>3 DEF Before, During
  <2>5. ConnOk(s)
    BY <2>2, <2>3, <2>4, Zenon DEF ConnOk, FoundOk
  <2> QED BY <1>1, <1>2, <1>6, <2>1, <2>5, Zenon DEF BadRequest
<1>7. ASSUME NEW query \in Queries, Request(c, query) PROVE ConnsInv'
  <2>1. PICK allowed \in AllowedRead(acl, r.key, now) :
           Become(c, [r EXCEPT !.pc = "search", !.todo = query, !.query = query, !.allowed = allowed])
    BY <1>1, <1>7, Zenon DEF Request
  <2>2. allowed \in PathLists /\ r.pc = "request"
    BY <1>1, <1>7, AllowedTyped, Zenon DEF Request
  <2> QED BY <1>1, <1>2, <2>1, <2>2, RequestOk, Zenon
<1>8. CASE SearchName(c)
  <2>1. r.pc = "search" /\ r.pc \in During
    BY <1>1, <1>8 DEF SearchName, During
  <2>2. CASE Search(Head(r.todo), r.allowed) = None
    BY <1>1, <1>2, <1>8, <2>1, <2>2, FailOk, Zenon DEF SearchName
  <2>3. CASE Search(Head(r.todo), r.allowed) # None
    BY <1>1, <1>2, <1>8, <2>1, <2>3, SearchOk, Zenon DEF SearchName
  <2> QED BY <2>2, <2>3
<1>9. CASE LoadValue(c)
  <2>1. r.pc = "load" /\ r.pc \in During
    BY <1>1, <1>9 DEF LoadValue, During
  <2>2. CASE values[r.found] \in {None, Torn}
    BY <1>1, <1>2, <1>9, <2>1, <2>2, FailOk, Zenon DEF LoadValue
  <2>3. CASE values[r.found] \notin {None, Torn}
    <3>1. r.found \in Locations
      BY <1>1, <2>1, Zenon DEF ConnOk, FoundOk
    <3>2. values[r.found] \in Data
      BY <2>3, <3>1 DEF ValuesInv
    <3> QED BY <1>1, <1>2, <1>9, <2>1, <2>3, <3>2, LoadOk, Zenon DEF LoadValue
  <2> QED BY <2>2, <2>3
<1>10. CASE Decrypt(c)
  <2>1. r.pc = "decrypt" /\ r.pc \in During
    BY <1>1, <1>10 DEF Decrypt, During
  <2> QED BY <1>1, <1>2, <1>10, <2>1, FailOk, DecryptOk, Zenon DEF Decrypt
<1>11. CASE Reply(c)
  BY <1>11, GotoOk, Zenon DEF Reply, Goto, Become
<1>12. CASE Hangup(c)
  BY <1>2, <1>12, ClosedOk, Zenon DEF Hangup
<1> QED BY <1>3, <1>4, <1>5, <1>6, <1>7, <1>8, <1>9, <1>10, <1>11, <1>12, Zenon DEF ConnStep

\* The access control list changes when secretd starts and stops.
LEMMA AclStep ==
    ASSUME CertsInv, AclInv, [SecretsNext]_vars
    PROVE  AclInv'
<1>1. Start => AclInv'
  BY AclLoaded, Zenon DEF Start, AclInv
<1>2. ASSUME acl' = {} PROVE AclInv'
  BY <1>2, FS_EmptySet, Zenon DEF AclInv
<1>3. Loop => acl' = {} \/ UNCHANGED acl
  BY Zenon DEF Loop
<1>4. Start \/ Loop \/ UNCHANGED acl
  BY Zenon DEF SecretsNext, vars, daemonVars, serverVars, Command, CliStep, Tick,
    AgentFails, AgentHeals, Signing, Starting, Stopping, Signal, Main, AcceptTimeout,
    Accepting, Accept, Exit, Renewing, RenewStep, HostCertSigned, AddHostKey, RenewAgain,
    RenewerStops, Handling, ConnStep, Handshake, Authenticate, OpenSession, BadRequest,
    Request, SearchName, LoadValue, Decrypt, Reply, Hangup, Become, Goto
<1>5. ASSUME UNCHANGED acl PROVE AclInv'
  BY <1>5, Zenon DEF AclInv
<1> QED BY <1>1, <1>2, <1>3, <1>4, <1>5, Zenon

\* "secretctl set" changes a value.
LEMMA ValuesStep ==
    ASSUME ValuesInv, [SecretsNext]_vars
    PROVE  ValuesInv'
<1>1. ASSUME UNCHANGED values, cli' = cli \/ cli' = None \/ cli'.file \in {"create", "cert"}
      PROVE  ValuesInv'
  BY <1>1 DEF ValuesInv
<1>2. ASSUME NEW at, NEW d \in Data, SetCmd(at, d) PROVE ValuesInv'
  <2>1. values' = [values EXCEPT ![at] = Torn] /\ cli' = [file |-> "value", at |-> at, data |-> d]
    BY <1>2, Zenon DEF SetCmd
  <2>2. values' \in [Locations -> Data \union {None, Torn}]
    BY <2>1, Zenon DEF ValuesInv
  <2>3. cli'.data = d
    BY <2>1
  <2> QED BY <2>2, <2>3, Zenon DEF ValuesInv
<1>3. CASE Command
  <2>1. InitCmd => UNCHANGED values /\ cli'.file \in {"create", "cert"}
    BY DEF InitCmd
  <2>2. ASSUME NEW kind, NEW cert, SaveCert(kind, cert) PROVE cli'.file \in {"create", "cert"}
    BY <2>2 DEF SaveCert
  <2>3. ASSUME NEW q, CertAdminCmd(q) \/ CertUserCmd(q)
        PROVE  UNCHANGED values /\ cli'.file \in {"create", "cert"}
    BY <2>2, <2>3, Zenon DEF CertAdminCmd, CertUserCmd
  <2>4. ASSUME NEW f, Revoke(f) PROVE UNCHANGED values /\ cli' = cli
    BY <2>4, Zenon DEF Revoke
  <2> QED BY <1>1, <1>2, <1>3, <2>1, <2>3, <2>4, Zenon DEF Command
<1>4. CASE CliStep
  <2>1. CreateStep => UNCHANGED values /\ (cli' = None \/ cli'.file \in {"create", "cert"})
    BY DEF CreateStep
  <2>2. CliDies => UNCHANGED values /\ cli' = None
    BY DEF CliDies, repo
  <2>3. CASE FillFile
    <3>1. cli' = None
      BY <2>3, Zenon DEF FillFile
    <3>2. values' \in [Locations -> Data \union {None, Torn}]
      BY <2>3 DEF FillFile, ValuesInv, Idle
    <3> QED BY <3>1, <3>2, Zenon DEF ValuesInv
  <2> QED BY <1>1, <1>4, <2>1, <2>2, <2>3, Zenon DEF CliStep
<1>5. CASE UNCHANGED repoVars
  BY <1>1, <1>5, Zenon DEF repoVars, repo
<1> QED BY <1>3, <1>4, <1>5, RepoPart, Zenon

\* Connections change when they are accepted, in their handlers, and when
\* secretd ends.
LEMMA ConnsStep ==
    ASSUME AclInv, ValuesInv, ConnsInv, [SecretsNext]_vars
    PROVE  ConnsInv'
<1>1. ASSUME NEW c \in Conns, Accept(c) PROVE ConnsInv'
  <2>1. conn' = [conn EXCEPT ![c] = [conn[c] EXCEPT !.pc = "accepted"]] /\ conn[c].pc = "closed"
    BY <1>1, Zenon DEF Accept
  <2>2. "closed" \in Before /\ "accepted" \in Before
    BY DEF Before
  <2> QED BY <2>1, <2>2, GotoOk, Zenon
<1>2. CASE Exit
  <2>1. DOMAIN conn' = Conns /\ \A c \in Conns : conn'[c] = Closed
    BY <1>2, Zenon DEF Exit
  <2> QED BY <2>1, ClosedOk, Zenon DEF ConnsInv
<1>3. ASSUME NEW c \in Conns, Handling(c) PROVE ConnsInv'
  BY <1>3, HandlerOk, Zenon DEF Handling
<1>4. ASSUME UNCHANGED conn PROVE ConnsInv'
  BY <1>4, Zenon DEF ConnsInv
<1>5. \/ \E c \in Conns : Accept(c) \/ Handling(c)
      \/ Exit \/ UNCHANGED conn
  BY Zenon DEF SecretsNext, vars, daemonVars, Command, CliStep, Tick,
    AgentFails, AgentHeals, Signing, Starting, Start, Stopping, Signal, Main, Loop,
    AcceptTimeout, Accepting, Renewing, RenewStep, HostCertSigned, AddHostKey, RenewAgain,
    RenewerStops
<1> QED BY <1>1, <1>2, <1>3, <1>4, <1>5, Zenon

AnswersInv == CertsInv /\ AclInv /\ ValuesInv /\ ConnsInv

LEMMA AnswersHold == SecretsSpec => []AnswersInv
<1>1. SecretsInit => AnswersInv
  <2>1. SUFFICES ASSUME SecretsInit PROVE AnswersInv
    BY Zenon
  <2>2. CertsInv
    BY <2>1, ReposAssumption, Zenon DEF SecretsInit, CertsInv, FileOk
  <2>3. AclInv
    BY <2>1, FS_EmptySet, Zenon DEF SecretsInit, AclInv
  <2>4. ValuesInv
    BY <2>1, ReposAssumption, Zenon DEF SecretsInit, ValuesInv
  <2>5. ConnsInv
    BY <2>1, ClosedOk, Zenon DEF SecretsInit, ConnsInv
  <2> QED BY <2>2, <2>3, <2>4, <2>5 DEF AnswersInv
<1>2. AnswersInv /\ [SecretsNext]_vars => AnswersInv'
  BY CertsStep, AclStep, ValuesStep, ConnsStep, Zenon DEF AnswersInv
<1> QED BY <1>1, <1>2, PTL DEF SecretsSpec

\* A secret in a response was saved completely, in the file that its name
\* leads to from a directory the client may read or from its parent, and every
\* name of the query has a secret or an error: for any repositories, queries,
\* whose names may have several components, and times.
THEOREM AnswersAreGenuine == SecretsSpec => []AnswersGenuine
<1>1. AnswersInv => AnswersGenuine
  <2>1. SUFFICES ASSUME AnswersInv, NEW c \in Conns
                 PROVE  /\ \A s \in conn[c].secrets : SecretOk(s, conn[c].allowed)
                        /\ conn[c].pc = "reply" /\ None \notin conn[c].errors =>
                              \A i \in DOMAIN conn[c].query :
                                  \/ conn[c].query[i] \in conn[c].errors
                                  \/ \E s \in conn[c].secrets : s.name = conn[c].query[i]
    BY Zenon DEF AnswersGenuine, SecretOk
  <2>2. PICK r : r = conn[c] /\ ConnOk(r)
    BY <2>1, Zenon DEF AnswersInv, ConnsInv
  <2>3. \A s \in r.secrets : SecretOk(s, r.allowed)
    BY <2>2, Zenon DEF ConnOk
  <2>4. ASSUME r.pc = "reply", None \notin r.errors, NEW i \in DOMAIN r.query
        PROVE  r.query[i] \in r.errors \/ \E s \in r.secrets : s.name = r.query[i]
    <3>1. r.todo = <<>> /\ Answered(r)
      BY <2>2, <2>4, Zenon DEF ConnOk
    <3>2. 1..Len(r.todo) = {}
      BY <3>1
    <3> QED BY <2>4, <3>1, <3>2, Zenon DEF Answered
  <2> QED BY <2>2, <2>3, <2>4, Zenon
<1> QED BY <1>1, AnswersHold, PTL

\* Repository.Search finds the nearest value for every query of a client, for
\* any list of paths that the access control list allows.
THEOREM SearchFindsNearest == SecretsSpec => []SearchNearest
<1>1. AnswersInv => SearchNearest
  <2>1. SUFFICES ASSUME AnswersInv, NEW c \in Conns
                 PROVE  Search(Head(conn[c].todo), conn[c].allowed)
                        = Nearest(Head(conn[c].todo), conn[c].allowed)
    BY Zenon DEF SearchNearest
  <2>2. conn[c].allowed \in PathLists
    BY <2>1, Zenon DEF AnswersInv, ConnsInv, ConnOk
  <2> QED BY <2>2, SearchIsNearest, Zenon
<1> QED BY <1>1, AnswersHold, PTL
=============================================================================
