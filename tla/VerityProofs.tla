---------------------------- MODULE VerityProofs ----------------------------
(***************************************************************************)
(* Proofs about the verification of a region, for images of any length,    *)
(* any damage and any number of hashes in a block.                         *)
(*                                                                         *)
(* The arithmetic comes first.  The loop of findFirstLeafHash divides the  *)
(* number of blocks by the hashes in a block and rounds up, again and      *)
(* again; the levels of the tree in the image are what one division by a   *)
(* power gives, rounded up once.  The two agree (CeilOfCeil,               *)
(* RoundsAreLevels), so the sum that the reader makes of the layers above  *)
(* the leaves is the place where the tree has its leaves (LeavesFound).    *)
(*                                                                         *)
(* VerifyExact rests on that: Verify, which compares the blocks one by     *)
(* one, has found no damage in those it went through (Covered), and the    *)
(* hashes it compares them with are the leaves (Located).                  *)
(***************************************************************************)
EXTENDS Verity, SequenceTheorems, WellFoundedInduction, TLAPS

-----------------------------------------------------------------------------
(* Numbers, and functions that go on from one number to the next *)

\* A set of numbers has a least element.
LEMMA LeastOf ==
    ASSUME NEW T, T \subseteq Nat, T # {}
    PROVE  \E n \in T : \A m \in T : n <= m
<1>1. PICK n \in T : \A m \in T : ~(<<m, n>> \in OpToRel(<, Nat))
  BY NatLessThanWellFounded, WFMin, Zenon
<1>2. \A m \in T : ~(m < n)
  BY <1>1 DEF OpToRel
<1> QED
  BY <1>2, SMT

\* A sequence of n steps from a
Iterates(g, n, S, a, step) ==
    /\ g \in [0..n -> S]
    /\ g[0] = a
    /\ \A i \in 1..n : g[i] = step[i][g[i - 1]]

\* Steps can be taken any number of times.
LEMMA IteratesExist ==
    ASSUME NEW S, NEW a \in S, NEW step \in [Nat -> [S -> S]], NEW n \in Nat
    PROVE  \E g : Iterates(g, n, S, a, step)
<1> DEFINE Bad == {i \in Nat : ~\E g : Iterates(g, i, S, a, step)}
<1>1. SUFFICES ASSUME Bad # {} PROVE FALSE
  BY <1>1
<1>2. PICK k \in Bad : \A m \in Bad : k <= m
  BY <1>1, LeastOf, Zenon
<1>3. k # 0
  <2>1. Iterates([i \in 0..0 |-> a], 0, S, a, step)
    BY DEF Iterates
  <2> QED BY <2>1, <1>2
<1>4. k \in Nat /\ k - 1 \in Nat /\ ~(k <= k - 1)
  BY <1>2, <1>3
<1>5. PICK g : Iterates(g, k - 1, S, a, step)
  BY <1>2, <1>4
<1> DEFINE h == [i \in 0..k |-> IF i = k THEN step[k][g[k - 1]] ELSE g[i]]
<1>6. g[k - 1] \in S /\ step[k][g[k - 1]] \in S
  BY <1>4, <1>5 DEF Iterates
<1>7. h \in [0..k -> S]
  BY <1>4, <1>5, <1>6 DEF Iterates
<1>8. h[0] = a
  BY <1>3, <1>4, <1>5 DEF Iterates
<1>9. ASSUME NEW i \in 1..k PROVE h[i] = step[i][h[i - 1]]
  <2>1. i \in 0..k /\ i - 1 \in 0..k /\ i - 1 # k
    BY <1>4
  <2>2. h[i - 1] = g[i - 1]
    BY <2>1
  <2>3. CASE i = k
    BY <2>1, <2>2, <2>3
  <2>4. CASE i # k
    <3>1. i \in 1..(k - 1)
      BY <1>4, <2>4
    <3>2. g[i] = step[i][g[i - 1]]
      BY <3>1, <1>5 DEF Iterates
    <3> QED BY <2>1, <2>2, <2>4, <3>2
  <2> QED BY <2>3, <2>4
<1>10. Iterates(h, k, S, a, step)
  BY <1>7, <1>8, <1>9 DEF Iterates
<1> QED
  BY <1>2, <1>10

AgreeAt(g, h, i) == g[i] = h[i]

\* Two such sequences agree as far as both go.
LEMMA IteratesAgree ==
    ASSUME NEW S, NEW a \in S, NEW step \in [Nat -> [S -> S]], NEW n \in Nat, NEW m \in Nat,
           NEW g, NEW h, Iterates(g, n, S, a, step), Iterates(h, m, S, a, step),
           NEW i \in Nat, i <= n, i <= m
    PROVE  AgreeAt(g, h, i)
<1> DEFINE Bad == {j \in Nat : j <= n /\ j <= m /\ g[j] # h[j]}
<1>1. SUFFICES ASSUME Bad # {} PROVE FALSE
  BY <1>1 DEF AgreeAt
<1>2. PICK k \in Bad : \A j \in Bad : k <= j
  BY <1>1, LeastOf, Zenon
<1>3. k # 0
  BY <1>2 DEF Iterates
<1>4. k - 1 \in Nat /\ k - 1 <= n /\ k - 1 <= m /\ ~(k <= k - 1)
  BY <1>2, <1>3
<1>5. g[k - 1] = h[k - 1]
  BY <1>2, <1>4
<1>6. k \in 1..n /\ k \in 1..m
  BY <1>2, <1>3
<1>7. g[k] = step[k][g[k - 1]] /\ h[k] = step[k][h[k - 1]]
  BY <1>6 DEF Iterates
<1> QED
  BY <1>2, <1>5, <1>7

GoesOn(f, S, a, step) ==
    /\ f \in [Nat -> S]
    /\ f[0] = a
    /\ \A i \in Nat \ {0} : f[i] = step[i][f[i - 1]]

\* So there is a function of all numbers that goes on in these steps.
LEMMA Iteration ==
    ASSUME NEW S, NEW a \in S, NEW step \in [Nat -> [S -> S]]
    PROVE  \E f : GoesOn(f, S, a, step)
<1> DEFINE G(n) == CHOOSE g : Iterates(g, n, S, a, step)
<1> DEFINE f == [n \in Nat |-> G(n)[n]]
<1>1. \A n \in Nat : Iterates(G(n), n, S, a, step)
  BY IteratesExist, Zenon
<1> HIDE DEF G
<1>2. f \in [Nat -> S]
  <2>1. ASSUME NEW n \in Nat PROVE G(n)[n] \in S
    BY <1>1 DEF Iterates
  <2> QED BY <2>1
<1>3. f[0] = a
  BY <1>1 DEF Iterates
<1>4. ASSUME NEW i \in Nat \ {0} PROVE f[i] = step[i][f[i - 1]]
  <2>1. i - 1 \in Nat /\ i - 1 <= i /\ i - 1 <= i - 1 /\ i \in 1..i /\ i \in Nat
    OBVIOUS
  <2>2. G(i)[i] = step[i][G(i)[i - 1]]
    BY <1>1, <2>1 DEF Iterates
  <2>3. Iterates(G(i), i, S, a, step) /\ Iterates(G(i - 1), i - 1, S, a, step)
    BY <1>1, <2>1
  <2>4. AgreeAt(G(i), G(i - 1), i - 1)
    BY <2>1, <2>3, IteratesAgree, Zenon
  <2> QED BY <2>1, <2>2, <2>4 DEF AgreeAt
<1>5. GoesOn(f, S, a, step)
  BY <1>2, <1>3, <1>4 DEF GoesOn
<1> QED
  BY <1>5

-----------------------------------------------------------------------------
(* Arithmetic *)

\* Products grow with a factor.
LEMMA MulMono ==
    ASSUME NEW x \in Int, NEW y \in Int, NEW b \in Nat, x <= y
    PROVE  x * b <= y * b
BY SMT

\* One factor more, or one less
LEMMA MulNext ==
    ASSUME NEW x \in Int, NEW b \in Int
    PROVE  x * b \in Int /\ (x + 1) * b = x * b + b /\ (x - 1) * b = x * b - b
BY SMT

\* A product of numbers is a number.
LEMMA MulNat ==
    ASSUME NEW x \in Nat, NEW y \in Nat
    PROVE  x * y \in Nat
BY SMT

\* A division that is rounded up
IsCeil(q, a, b) == q \in Nat /\ a <= q * b /\ q * b < a + b

\* CeilDiv is a division that is rounded up.
LEMMA CeilIs ==
    ASSUME NEW a \in Nat, NEW b \in Nat \ {0}
    PROVE  IsCeil(CeilDiv(a, b), a, b)
<1> DEFINE x == a + b - 1
<1> DEFINE q == x \div b
<1>1. x \in Nat
  OBVIOUS
<1>2. q \in Nat /\ q * b <= x /\ x < q * b + b
  BY <1>1
<1>3. q * b \in Int
  BY <1>2
<1> QED
  BY <1>2, <1>3 DEF IsCeil, CeilDiv

\* The way in which findFirstLeafHash rounds up
LEMMA CeilByRest ==
    ASSUME NEW a \in Nat, NEW b \in Nat \ {0}
    PROVE  IsCeil(a \div b + IF a % b # 0 THEN 1 ELSE 0, a, b)
<1> DEFINE q == a \div b
<1>1. q \in Nat /\ a % b \in Nat /\ a % b < b
  OBVIOUS
<1>2. a % b = a - q * b
  BY SMT
<1>3. (q + 1) * b = q * b + b /\ q * b \in Int
  BY <1>1, MulNext
<1> HIDE DEF q
<1>4. CASE a % b # 0
  BY <1>1, <1>2, <1>3, <1>4 DEF IsCeil
<1>5. CASE a % b = 0
  <2>1. IsCeil(q, a, b)
    BY <1>1, <1>2, <1>3, <1>5 DEF IsCeil
  <2>2. q + (IF a % b # 0 THEN 1 ELSE 0) = q
    BY <1>1, <1>5
  <2> QED BY <2>1, <2>2 DEF q
<1> QED
  BY <1>4, <1>5 DEF q

\* There is one such quotient.
LEMMA CeilOnly ==
    ASSUME NEW a \in Nat, NEW b \in Nat \ {0}, NEW p, NEW q, IsCeil(p, a, b), IsCeil(q, a, b)
    PROVE  p = q
<1>1. ASSUME NEW x \in Nat, NEW y \in Nat, x < y, a <= x * b, y * b < a + b
      PROVE  FALSE
  <2>1. (x + 1) * b <= y * b
    BY <1>1, MulMono, SMT
  <2>2. (x + 1) * b = x * b + b /\ x * b \in Int
    BY MulNext
  <2>3. y * b \in Int
    BY MulNext
  <2> QED BY <1>1, <2>1, <2>2, <2>3
<1>2. p \in Nat /\ q \in Nat
  BY DEF IsCeil
<1>3. ~(p < q) /\ ~(q < p)
  BY <1>1, <1>2 DEF IsCeil
<1> QED
  BY <1>2, <1>3

\* Rounding up twice is rounding up once.
LEMMA CeilOfCeil ==
    ASSUME NEW a \in Nat, NEW b \in Nat \ {0}, NEW c \in Nat \ {0},
           NEW p, NEW q, IsCeil(p, a, b), IsCeil(q, p, c)
    PROVE  IsCeil(q, a, c * b)
<1>1. p \in Nat /\ q \in Nat /\ a <= p * b /\ p * b < a + b /\ p <= q * c /\ q * c < p + c
  BY DEF IsCeil
<1>2. PICK s \in Nat : s = q * c
  BY <1>1, MulNat
<1>3. PICK t \in Int : t = (s - c + 1) * b
  BY <1>2
<1>4. q * (c * b) = s * b
  BY <1>1, <1>2
<1>5. p * b <= s * b /\ p * b \in Int /\ s * b \in Int
  BY <1>1, <1>2, MulMono, SMT
<1>6. (s - c + 1) * b <= p * b
  BY <1>1, <1>2, MulMono, SMT
<1>7. (s - c + 1) * b = s * b - c * b + b /\ c * b \in Int
  BY <1>2
<1> QED
  BY <1>1, <1>4, <1>5, <1>6, <1>7 DEF IsCeil

\* A number greater than one becomes less, but not zero.
LEMMA CeilLess ==
    ASSUME NEW a \in Nat \ {0}, NEW b \in Nat, b > 1, NEW q, IsCeil(q, a, b)
    PROVE  q \in Nat \ {0} /\ q <= a /\ (a > 1 => q < a)
<1>1. q \in Nat /\ a <= q * b /\ q * b < a + b
  BY DEF IsCeil
<1>2. q # 0
  BY <1>1
<1>3. ASSUME a > 1, q >= a PROVE FALSE
  <2>1. a * b <= q * b /\ a * b \in Int /\ q * b \in Int
    BY <1>1, <1>3, MulMono, SMT
  <2>2. a * 2 <= a * b
    BY SMT
  <2>3. (a - 1) * b = a * b - b
    BY SMT
  <2>4. b <= (a - 1) * b
    BY <1>3, SMT
  <2>5. a <= (a - 1) * 2 /\ (a - 1) * 2 <= (a - 1) * b
    BY <1>3, SMT
  <2> QED BY <1>1, <2>1, <2>3, <2>4, <2>5
<1>4. a = 1 => q <= 1
  <2>1. ASSUME a = 1, q > 1 PROVE FALSE
    <3>1. 2 * b <= q * b /\ q * b \in Int
      BY <1>1, <2>1, MulMono, SMT
    <3> QED BY <1>1, <2>1, <3>1
  <2> QED BY <1>1, <2>1
<1> QED
  BY <1>1, <1>2, <1>3, <1>4

-----------------------------------------------------------------------------
(* The levels of the tree, and the layers that the reader counts *)

\* The number of hashes in a block, for the arithmetic
LEMMA HashesIsNat == HashesPerBlock \in Nat \ {0} /\ HashesPerBlock \in Nat /\ HashesPerBlock > 1
BY VerityAssumption

\* What the recursive definition of Power says
LEMMA PowerIs ==
    /\ Power \in [Nat -> Nat \ {0}]
    /\ Power[0] = 1
    /\ \A k \in Nat \ {0} : Power[k] = HashesPerBlock * Power[k - 1]
<1> DEFINE S == Nat \ {0}
           step == [i \in Nat |-> [x \in S |-> HashesPerBlock * x]]
           Rec(f) == f = [k \in Nat |-> IF k = 0 THEN 1 ELSE HashesPerBlock * f[k - 1]]
           g == CHOOSE f : Rec(f)
<1>1. \A x \in S : HashesPerBlock * x \in S
  BY HashesIsNat
<1>2. step \in [Nat -> [S -> S]] /\ 1 \in S
  BY <1>1
<1>3. \A k \in Nat \ {0} : k - 1 \in Nat
  OBVIOUS
<1>4. PICK f : GoesOn(f, S, 1, step)
  <2> HIDE DEF S, step
  <2> QED BY <1>2, Iteration, Zenon
<1>5. \A i \in Nat \ {0} : f[i] = HashesPerBlock * f[i - 1]
  BY <1>3, <1>4 DEF GoesOn
<1>6. Rec(f)
  BY <1>4, <1>5 DEF GoesOn
<1>7. Rec(g)
  BY <1>6, Zenon
<1>8. Power = g
  BY Zenon DEF Power
<1> HIDE DEF g
<1>9. Power[0] = 1 /\ \A k \in Nat \ {0} : Power[k] = HashesPerBlock * Power[k - 1]
  BY <1>7, <1>8, Zenon
<1>10. \A k \in Nat : Power[k] \in S
  <2> DEFINE Bad == {k \in Nat : Power[k] \notin S}
  <2>1. SUFFICES ASSUME Bad # {} PROVE FALSE
    BY <2>1
  <2>2. PICK k \in Bad : \A j \in Bad : k <= j
    BY <2>1, LeastOf, Zenon
  <2>3. k # 0
    BY <1>9, <2>2
  <2>4. k \in Nat \ {0} /\ k - 1 \in Nat /\ ~(k <= k - 1)
    BY <2>2, <2>3
  <2>5. Power[k - 1] \in S
    BY <2>2, <2>4
  <2> QED BY <1>1, <1>9, <2>2, <2>4, <2>5
<1>11. Power = [k \in Nat |-> Power[k]]
  BY <1>7, <1>8
<1> QED
  BY <1>9, <1>10, <1>11

\* What findFirstLeafHash rounds a number of blocks up to
RoundUp(x) == x \div HashesPerBlock + IF x % HashesPerBlock # 0 THEN 1 ELSE 0

\* Its variable blocks after each round
Rounds(count) == CHOOSE f : f = [i \in Nat |-> IF i = 0 THEN count ELSE RoundUp(f[i - 1])]

\* Such a function exists, and its values are never zero.
LEMMA RoundsAre ==
    ASSUME NEW count \in Nat \ {0}
    PROVE  /\ Rounds(count) \in [Nat -> Nat \ {0}]
           /\ Rounds(count)[0] = count
           /\ \A i \in Nat \ {0} : IsCeil(Rounds(count)[i], Rounds(count)[i - 1], HashesPerBlock)
<1> DEFINE S == Nat \ {0}
           step == [i \in Nat |-> [x \in S |-> RoundUp(x)]]
           Rec(f) == f = [i \in Nat |-> IF i = 0 THEN count ELSE RoundUp(f[i - 1])]
           g == CHOOSE f : Rec(f)
<1>1. \A x \in S : IsCeil(RoundUp(x), x, HashesPerBlock)
  BY HashesIsNat, CeilByRest DEF RoundUp
<1>2. \A x \in S : RoundUp(x) \in S
  BY <1>1, HashesIsNat, CeilLess, Zenon
<1>3. step \in [Nat -> [S -> S]] /\ count \in S
  BY <1>2
<1>4. \A k \in Nat \ {0} : k - 1 \in Nat
  OBVIOUS
<1>5. PICK f : GoesOn(f, S, count, step)
  <2> HIDE DEF S, step
  <2> QED BY <1>3, Iteration, Zenon
<1>6. \A i \in Nat \ {0} : f[i] = RoundUp(f[i - 1])
  BY <1>4, <1>5 DEF GoesOn
<1>7. Rec(f)
  BY <1>5, <1>6 DEF GoesOn
<1>8. Rec(g)
  BY <1>7, Zenon
<1>9. Rounds(count) = g
  BY Zenon DEF Rounds
<1> HIDE DEF g
<1>10. /\ Rounds(count)[0] = count
       /\ \A k \in Nat \ {0} : Rounds(count)[k] = RoundUp(Rounds(count)[k - 1])
  BY <1>8, <1>9, Zenon
<1> DEFINE R == Rounds(count)
<1>11. \A k \in Nat : R[k] \in S
  <2> DEFINE Bad == {k \in Nat : R[k] \notin S}
  <2>1. SUFFICES ASSUME Bad # {} PROVE FALSE
    BY <2>1
  <2>2. PICK k \in Bad : \A j \in Bad : k <= j
    BY <2>1, LeastOf, Zenon
  <2>3. k # 0
    BY <1>10, <2>2
  <2>4. k \in Nat \ {0} /\ k - 1 \in Nat /\ ~(k <= k - 1)
    BY <2>2, <2>3
  <2>5. R[k - 1] \in S
    BY <2>2, <2>4
  <2> QED BY <1>2, <1>10, <2>2, <2>4, <2>5
<1>12. Rounds(count) = [k \in Nat |-> R[k]]
  BY <1>8, <1>9
<1>13. ASSUME NEW i \in Nat \ {0} PROVE IsCeil(R[i], R[i - 1], HashesPerBlock)
  BY <1>1, <1>4, <1>10, <1>11
<1> QED
  BY <1>10, <1>11, <1>12, <1>13

\* After k rounds, there are as many blocks as level k has hashes.
LEMMA RoundsAreLevels ==
    ASSUME NEW count \in Nat \ {0}, NEW k \in Nat
    PROVE  Rounds(count)[k] = LevelHashes(count, k)
<1> DEFINE R == Rounds(count)
           Bad == {j \in Nat : ~IsCeil(R[j], count, Power[j])}
<1>1. \A j \in Nat : R[j] \in Nat \ {0} /\ Power[j] \in Nat \ {0}
  BY RoundsAre, PowerIs
<1>2. \A j \in Nat : IsCeil(R[j], count, Power[j])
  <2>1. SUFFICES ASSUME Bad # {} PROVE FALSE
    BY <2>1
  <2>2. PICK j \in Bad : \A i \in Bad : j <= i
    <3> HIDE DEF R
    <3> QED BY <2>1, LeastOf, Zenon
  <2>3. j # 0
    <3>1. R[0] = count /\ Power[0] = 1
      BY RoundsAre, PowerIs
    <3>2. IsCeil(count, count, 1)
      BY DEF IsCeil
    <3> QED BY <2>2, <3>1, <3>2
  <2>4. j \in Nat \ {0} /\ j - 1 \in Nat /\ ~(j <= j - 1)
    BY <2>2, <2>3
  <2>5. IsCeil(R[j - 1], count, Power[j - 1])
    BY <2>2, <2>4
  <2>6. IsCeil(R[j], R[j - 1], HashesPerBlock)
    BY <2>4, RoundsAre
  <2>7. IsCeil(R[j], count, HashesPerBlock * Power[j - 1])
    BY <1>1, <2>4, <2>5, <2>6, HashesIsNat, CeilOfCeil, Zenon
  <2>8. Power[j] = HashesPerBlock * Power[j - 1]
    BY <2>4, PowerIs
  <2> QED BY <2>2, <2>7, <2>8
<1>3. IsCeil(CeilDiv(count, Power[k]), count, Power[k])
  BY <1>1, CeilIs
<1> QED
  BY <1>1, <1>2, <1>3, CeilOnly DEF LevelHashes

\* The rounds end with one block.
LEMMA RoundsEnd ==
    ASSUME NEW count \in Nat \ {0}
    PROVE  \E l \in 0..count :
              Rounds(count)[l] = 1 /\ \A k \in 0..l-1 : Rounds(count)[k] > 1
<1> DEFINE R == Rounds(count)
           Bad == {j \in Nat : ~(R[j] = 1 \/ R[j] + j <= count)}
           One == {j \in Nat : R[j] = 1}
<1>1. R[0] = count /\ \A j \in Nat : R[j] \in Nat \ {0}
  BY RoundsAre
<1>2. \A j \in Nat \ {0} : IsCeil(R[j], R[j - 1], HashesPerBlock)
  BY RoundsAre
<1> HIDE DEF R
<1>3. Bad = {}
  <2>1. SUFFICES ASSUME Bad # {} PROVE FALSE
    BY <2>1
  <2>2. PICK j \in Bad : \A i \in Bad : j <= i
    BY <2>1, LeastOf, Zenon
  <2>3. j # 0
    BY <1>1, <2>2
  <2>4. j \in Nat \ {0} /\ j - 1 \in Nat /\ ~(j <= j - 1)
    BY <2>2, <2>3
  <2>5. R[j - 1] = 1 \/ R[j - 1] + (j - 1) <= count
    BY <2>2, <2>4
  <2>6. R[j] <= R[j - 1] /\ (R[j - 1] > 1 => R[j] < R[j - 1])
    BY <1>1, <1>2, <2>4, HashesIsNat, CeilLess, Zenon
  <2>7. R[j] \in Nat \ {0} /\ R[j - 1] \in Nat \ {0}
    BY <1>1, <2>4
  <2> QED BY <2>2, <2>4, <2>5, <2>6, <2>7
<1>4. count \in One
  BY <1>1, <1>3
<1>5. PICK l \in One : \A j \in One : l <= j
  BY <1>4, LeastOf, Zenon
<1>6. l \in 0..count
  BY <1>4, <1>5
<1>7. ASSUME NEW k \in 0..l-1 PROVE R[k] > 1
  <2>1. k \in Nat /\ ~(l <= k)
    BY <1>5
  <2> QED BY <1>1, <1>5, <2>1
<1> QED
  BY <1>5, <1>6, <1>7 DEF R

\* The tree of an image of more than one block has levels, and the reader
\* counts as many layers.
LEMMA LayerIs ==
    ASSUME NEW count \in Nat, count > 1
    PROVE  /\ Levels(count) \in Nat \ {0}
           /\ Layer(count) = [i \in 1..Levels(count) |-> Rounds(count)[i]]
<1> DEFINE R == Rounds(count)
           IsEnd(l) == R[l] = 1 /\ \A k \in 0..l-1 : R[k] > 1
           IsLast(n) == R[n] <= 1 /\ \A i \in 0..n-1 : R[i] > 1
           len == CHOOSE n \in 0..count : IsLast(n)
           L == Levels(count)
<1>1. count \in Nat \ {0}
  OBVIOUS
<1>2. R[0] = count /\ \A j \in Nat : R[j] \in Nat \ {0}
  BY <1>1, RoundsAre
<1>3. \E l \in 0..count : IsEnd(l)
  BY <1>1, RoundsEnd
<1>4. L \in 0..count /\ IsEnd(L)
  <2>1. \A k \in Nat : R[k] = LevelHashes(count, k)
    BY <1>1, RoundsAreLevels
  <2> HIDE DEF R
  <2>2. \A l \in 0..count :
            IsEnd(l) <=> LevelHashes(count, l) = 1 /\ \A k \in 0..l-1 : LevelHashes(count, k) > 1
    BY <2>1
  <2>3. PICK l \in 0..count :
            LevelHashes(count, l) = 1 /\ \A k \in 0..l-1 : LevelHashes(count, k) > 1
    BY <1>3, <2>2, Zenon
  <2>4. /\ L \in 0..count
        /\ LevelHashes(count, L) = 1 /\ \A k \in 0..L-1 : LevelHashes(count, k) > 1
    BY <2>3, Zenon DEF Levels
  <2> QED BY <2>2, <2>4
<1>5. len \in 0..count /\ IsLast(len)
  <2>1. PICK l \in 0..count : IsEnd(l)
    BY <1>3
  <2>2. IsLast(l)
    BY <2>1
  <2> HIDE DEF IsLast
  <2> QED BY <2>2, Zenon
<1>6. Layer(count) = [i \in 1..len |-> R[i]]
  BY Zenon DEF Layer, Rounds, RoundUp
<1> HIDE DEF R, len, L
<1>7. len = L
  <2>1. len \in Nat /\ L \in Nat
    BY <1>4, <1>5
  <2>2. ~(len < L)
    BY <1>2, <1>4, <1>5, <2>1
  <2>3. ~(L < len)
    BY <1>2, <1>4, <1>5, <2>1
  <2> QED BY <2>1, <2>2, <2>3
<1>8. L # 0
  BY <1>2, <1>4
<1> QED
  BY <1>4, <1>6, <1>7, <1>8 DEF R, L

\* The offset after each of the layers: the first one is not counted.
LEMMA AboveIs ==
    ASSUME NEW L \in Nat \ {0}, NEW layer \in [1..L -> Nat]
    PROVE  \E A : /\ \A i \in 0..L : A[i] \in Nat
                  /\ A[1] = 0
                  /\ \A i \in 2..L : A[i] = A[i - 1] + layer[i] * HashesPerBlock
                  /\ Above(layer) = A[L]
<1> DEFINE step == [i \in Nat |-> [x \in Nat |->
                       IF i \in 2..L THEN x + layer[i] * HashesPerBlock ELSE 0]]
           Rec(h) == h = [i \in 0..L |-> IF i <= 1 THEN 0
                                         ELSE h[i - 1] + layer[i] * HashesPerBlock]
           A == CHOOSE h : Rec(h)
<1>1. \A i \in 2..L : layer[i] * HashesPerBlock \in Nat
  BY HashesIsNat
<1>2. step \in [Nat -> [Nat -> Nat]] /\ 0 \in Nat
  BY <1>1
<1>3. PICK g : Iterates(g, L, Nat, 0, step)
  <2> HIDE DEF step
  <2> QED BY <1>2, IteratesExist, Zenon
<1>4. \A i \in 0..L : g[i] = IF i <= 1 THEN 0 ELSE g[i - 1] + layer[i] * HashesPerBlock
  <2>1. g \in [0..L -> Nat] /\ g[0] = 0 /\ \A i \in 1..L : g[i] = step[i][g[i - 1]]
    BY <1>3 DEF Iterates
  <2>2. \A i \in 1..L : i \in Nat /\ g[i - 1] \in Nat
    BY <2>1
  <2>3. \A i \in 1..L : g[i] = IF i \in 2..L THEN g[i - 1] + layer[i] * HashesPerBlock ELSE 0
    BY <2>1, <2>2
  <2> QED BY <2>1, <2>3
<1>5. Rec(g)
  BY <1>3, <1>4 DEF Iterates
<1>6. Rec(A)
  BY <1>5, Zenon
<1>7. Len(layer) = L
  BY LenProperties
<1>8. Above(layer) = A[L]
  BY <1>7, Zenon DEF Above
<1> HIDE DEF A
<1>9. \A i \in 0..L : A[i] = IF i <= 1 THEN 0 ELSE A[i - 1] + layer[i] * HashesPerBlock
  BY <1>6, Zenon
<1>10. A[1] = 0 /\ \A i \in 2..L : A[i] = A[i - 1] + layer[i] * HashesPerBlock
  BY <1>9
<1>11. \A i \in 0..L : A[i] \in Nat
  <2> DEFINE Bad == {i \in 0..L : A[i] \notin Nat}
  <2>1. SUFFICES ASSUME Bad # {} PROVE FALSE
    BY <2>1
  <2>2. Bad \subseteq Nat
    OBVIOUS
  <2>3. PICK k \in Bad : \A j \in Bad : k <= j
    BY <2>1, <2>2, LeastOf, Zenon
  <2>4. k \in 2..L
    BY <1>9, <2>3
  <2>5. A[k - 1] \in Nat
    BY <2>3, <2>4
  <2>6. PICK x \in Nat : x = layer[k] * HashesPerBlock
    BY <1>1, <2>4
  <2>7. A[k] = A[k - 1] + x
    BY <1>10, <2>4, <2>6
  <2> QED BY <2>3, <2>5, <2>7
<1> QED
  BY <1>8, <1>10, <1>11

\* Where the levels begin, from the highest one down.
LEMMA StartIs ==
    ASSUME NEW count \in Nat, count > 1
    PROVE  \E D : /\ \A j \in 0..(Levels(count) - 1) : D[j] \in Nat
                  /\ D[0] = (count + 1) * HashesPerBlock
                  /\ \A j \in 1..(Levels(count) - 1) :
                        D[j] = D[j - 1] + Rounds(count)[Levels(count) - j + 1] * HashesPerBlock
                  /\ LeafOffset(count) = D[Levels(count) - 1]
<1> DEFINE R == Rounds(count)
           top == Levels(count) - 1
           first == (count + 1) * HashesPerBlock
           size(j) == CeilDiv(LevelHashes(count, top - (j - 1)), HashesPerBlock) * HashesPerBlock
           step == [i \in Nat |-> [x \in Nat |-> IF i \in 1..top THEN x + size(i) ELSE 0]]
           Rec(h) == h = [j \in 0..top |-> IF j = 0 THEN first ELSE h[j - 1] + size(j)]
           D == CHOOSE h : Rec(h)
<1>1. top \in Nat /\ Levels(count) = top + 1 /\ count \in Nat \ {0}
  BY LayerIs
<1>2. LeafOffset(count) = D[top]
  BY Zenon DEF LeafOffset
<1> HIDE DEF top
<1>3. ASSUME NEW j \in 1..top PROVE size(j) = R[top - j + 2] * HashesPerBlock /\ size(j) \in Nat
  <2>1. PICK k \in Nat : k = top - (j - 1)
    BY <1>1
  <2>2. k + 1 = top - j + 2 /\ k + 1 \in Nat \ {0} /\ k + 1 - 1 = k
    BY <1>1, <2>1
  <2>3. R[k] \in Nat \ {0} /\ R[k + 1] \in Nat \ {0} /\ IsCeil(R[k + 1], R[k], HashesPerBlock)
    BY <1>1, <2>2, RoundsAre
  <2>4. R[k] = LevelHashes(count, k)
    BY <1>1, RoundsAreLevels
  <2>5. IsCeil(CeilDiv(R[k], HashesPerBlock), R[k], HashesPerBlock)
    BY <2>3, HashesIsNat, CeilIs
  <2>6. CeilDiv(R[k], HashesPerBlock) = R[k + 1]
    BY <2>3, <2>5, HashesIsNat, CeilOnly
  <2>7. R[k + 1] * HashesPerBlock \in Nat
    BY <2>3, HashesIsNat, MulNat
  <2> HIDE DEF R
  <2> QED BY <2>1, <2>2, <2>4, <2>6, <2>7
<1>4. first \in Nat
  BY HashesIsNat
<1> HIDE DEF size, first
<1>5. step \in [Nat -> [Nat -> Nat]]
  BY <1>3
<1>6. PICK g : Iterates(g, top, Nat, first, step)
  <2> HIDE DEF step
  <2> QED BY <1>1, <1>4, <1>5, IteratesExist, Zenon
<1>7. \A j \in 0..top : g[j] = IF j = 0 THEN first ELSE g[j - 1] + size(j)
  <2>1. g \in [0..top -> Nat] /\ g[0] = first /\ \A i \in 1..top : g[i] = step[i][g[i - 1]]
    BY <1>6 DEF Iterates
  <2>2. \A i \in 1..top : i \in Nat /\ g[i - 1] \in Nat
    BY <1>1, <2>1
  <2>3. \A i \in 1..top : g[i] = g[i - 1] + size(i)
    BY <2>1, <2>2
  <2> QED BY <1>1, <2>1, <2>3
<1>8. Rec(g)
  BY <1>6, <1>7 DEF Iterates
<1>9. Rec(D)
  BY <1>8, Zenon
<1> HIDE DEF D
<1>10. \A j \in 0..top : D[j] = IF j = 0 THEN first ELSE D[j - 1] + size(j)
  BY <1>9, Zenon
<1>11. D[0] = first /\ \A j \in 1..top : D[j] = D[j - 1] + size(j)
  BY <1>1, <1>10
<1>12. \A i \in 0..top : D[i] \in Nat
  <2> DEFINE Bad == {i \in 0..top : D[i] \notin Nat}
  <2>1. SUFFICES ASSUME Bad # {} PROVE FALSE
    BY <2>1
  <2>2. Bad \subseteq Nat
    BY <1>1
  <2>3. PICK k \in Bad : \A j \in Bad : k <= j
    BY <2>1, <2>2, LeastOf, Zenon
  <2>4. k # 0
    BY <1>4, <1>11, <2>3
  <2>5. k \in 1..top /\ k - 1 \in 0..top /\ ~(k <= k - 1)
    BY <1>1, <2>3, <2>4
  <2>6. D[k - 1] \in Nat
    BY <2>3, <2>5
  <2> QED BY <1>3, <1>11, <2>3, <2>5, <2>6
<1>13. \A j \in 1..top : D[j] = D[j - 1] + R[Levels(count) - j + 1] * HashesPerBlock
  <2>1. \A j \in 1..top : Levels(count) - j + 1 = top - j + 2
    BY <1>1
  <2> QED BY <1>3, <1>11, <2>1
<1> QED
  BY <1>1, <1>2, <1>11, <1>12, <1>13 DEF top, first

\* The reader finds the leaves where the image has them: it adds the layers
\* up from the leaves to the root, and the image has them from the root down.
THEOREM LeavesFound ==
    ASSUME NEW count \in Nat, count > 1
    PROVE  LeafOffset(count) = count * HashesPerBlock + HashesPerBlock + Above(Layer(count))
<1> DEFINE L == Levels(count)
           R == Rounds(count)
           layer == [i \in 1..L |-> R[i]]
<1>1. L \in Nat \ {0} /\ Layer(count) = layer
  BY LayerIs
<1>2. layer \in [1..L -> Nat] /\ \A i \in 1..L : layer[i] = R[i] /\ R[i] \in Nat
  <2>1. count \in Nat \ {0}
    OBVIOUS
  <2>2. R \in [Nat -> Nat \ {0}]
    BY <2>1, RoundsAre
  <2>3. \A i \in 1..L : i \in Nat
    BY <1>1
  <2> HIDE DEF R, L
  <2> QED BY <2>2, <2>3
<1> HIDE DEF L, R, layer
<1>3. PICK A : /\ \A i \in 0..L : A[i] \in Nat
               /\ A[1] = 0
               /\ \A i \in 2..L : A[i] = A[i - 1] + layer[i] * HashesPerBlock
               /\ Above(layer) = A[L]
  BY <1>1, <1>2, AboveIs
<1>4. PICK D : /\ \A j \in 0..(L - 1) : D[j] \in Nat
               /\ D[0] = (count + 1) * HashesPerBlock
               /\ \A j \in 1..(L - 1) : D[j] = D[j - 1] + R[L - j + 1] * HashesPerBlock
               /\ LeafOffset(count) = D[L - 1]
  BY StartIs DEF L, R
<1> DEFINE Bad == {j \in 0..(L - 1) : D[j] + A[L - j] # D[0] + A[L]}
<1>5. Bad = {}
  <2>1. SUFFICES ASSUME Bad # {} PROVE FALSE
    BY <2>1
  <2>2. Bad \subseteq Nat
    BY <1>1
  <2>3. PICK j \in Bad : \A i \in Bad : j <= i
    BY <2>1, <2>2, LeastOf, Zenon
  <2>4. j # 0
    BY <1>1, <2>3
  <2>5. j \in 1..(L - 1) /\ j - 1 \in 0..(L - 1) /\ ~(j <= j - 1) /\ L - (j - 1) = L - j + 1
    BY <1>1, <2>3, <2>4
  <2>6. D[j - 1] + A[L - j + 1] = D[0] + A[L]
    BY <2>3, <2>5
  <2>7. L - j + 1 \in 2..L /\ L - j + 1 \in 1..L /\ (L - j + 1) - 1 = L - j
    BY <1>1, <2>5
  <2>8. PICK x \in Nat : x = R[L - j + 1] * HashesPerBlock
    BY <1>2, <2>7, HashesIsNat, MulNat
  <2>9. A[L - j + 1] = A[L - j] + x
    BY <1>2, <1>3, <2>7, <2>8
  <2>10. D[j] = D[j - 1] + x
    BY <1>4, <2>5, <2>8
  <2>11. L - j \in 0..L /\ L - j + 1 \in 0..L
    BY <1>1, <2>5
  <2>12. A[L - j] \in Nat /\ A[L - j + 1] \in Nat /\ D[j - 1] \in Nat /\ D[j] \in Nat
    BY <1>3, <1>4, <2>3, <2>5, <2>11
  <2>13. D[j] + A[L - j] = D[0] + A[L]
    BY <2>6, <2>9, <2>10, <2>12
  <2> QED BY <2>3, <2>13
<1>6. L - 1 \in 0..(L - 1) /\ L - (L - 1) = 1 /\ L \in 0..L
  BY <1>1
<1>7. D[L - 1] + A[1] = D[0] + A[L]
  BY <1>5, <1>6
<1>8. D[L - 1] = (count + 1) * HashesPerBlock + A[L]
  BY <1>3, <1>4, <1>6, <1>7
<1>9. (count + 1) * HashesPerBlock = count * HashesPerBlock + HashesPerBlock
  BY HashesIsNat, MulNext
<1> QED
  BY <1>1, <1>3, <1>4, <1>8, <1>9

-----------------------------------------------------------------------------
(* Verify *)

Clean(i) == <<"data", i>> \notin damaged /\ <<"leaf", i>> \notin damaged

\* Before a look at the leaves, the offset is zero; after it, it is right.
Located ==
    /\ used \in Nat /\ used > HashesPerBlock
    /\ leaf \in {0, LeafOffset(DataBlockCount)}
    /\ super = IF vpc = "open" THEN 0 ELSE DataBlockCount * HashesPerBlock
    /\ vpc \in {"verify", "returned"} => leaf = LeafOffset(DataBlockCount)

\* The blocks from first to the next one are clean, and the loop has gone
\* through so many of them.
Covered(first) ==
    /\ region.offset = first * HashesPerBlock
    /\ vblock \in first..DataBlockCount
    /\ vleft = 0 => region.offset + region.size <= vblock * HashesPerBlock
    /\ vleft > 0 => vblock * HashesPerBlock + vleft = region.offset + region.size
    /\ \A i \in first..(vblock - 1) : Clean(i)

Verifying ==
    vpc = "verify" =>
        /\ vleft \in Nat /\ region.size \in Nat /\ verr = "nil"
        /\ \E first \in Nat : Covered(first)

VerityInv ==
    /\ Located
    /\ vpc \in {"open", "idle", "verify", "returned"}
    /\ Verifying
    /\ VerifyExact

\* An image of more than one block has more than one data block.
LEMMA CountIs ==
    ASSUME used \in Nat, used > HashesPerBlock
    PROVE  DataBlockCount \in Nat /\ DataBlockCount > 1
<1>1. IsCeil(DataBlockCount, used, HashesPerBlock)
  BY HashesIsNat, CeilIs DEF DataBlockCount
<1>2. DataBlockCount \in Nat /\ used <= DataBlockCount * HashesPerBlock
  BY <1>1 DEF IsCeil
<1>3. ASSUME DataBlockCount <= 1 PROVE FALSE
  <2>1. DataBlockCount = 0 \/ DataBlockCount = 1
    BY <1>2, <1>3
  <2>2. DataBlockCount * HashesPerBlock \in {0, HashesPerBlock}
    BY <2>1, HashesIsNat
  <2> QED BY <1>2, <2>2, HashesIsNat
<1> QED
  BY <1>2, <1>3

\* The superblock comes after the last data block.
LEMMA SuperIs ==
    ASSUME Located, OpenVerity
    PROVE  super' = DataBlockCount * HashesPerBlock
<1> DEFINE H == HashesPerBlock
           q == used \div H
           r == IF used % H # 0 THEN 1 ELSE 0
<1>1. used \in Nat /\ H \in Nat \ {0}
  BY HashesIsNat DEF Located
<1>2. IsCeil(q + r, used, H) /\ IsCeil(DataBlockCount, used, H)
  BY <1>1, CeilByRest, CeilIs DEF DataBlockCount
<1>3. q + r = DataBlockCount
  BY <1>1, <1>2, CeilOnly
<1>4. q \in Nat /\ r \in {0, 1}
  BY <1>1
<1>5. super' = q * H + IF used % H # 0 THEN H ELSE 0
  BY DEF OpenVerity
<1> HIDE DEF q, H
<1>6. (q + 1) * H = q * H + H /\ q * H \in Int /\ (q + 0) * H = q * H + 0
  BY <1>1, <1>4, MulNext
<1>7. CASE used % H # 0
  BY <1>3, <1>5, <1>6, <1>7 DEF H
<1>8. CASE used % H = 0
  BY <1>3, <1>5, <1>6, <1>8 DEF H
<1> QED
  BY <1>7, <1>8

\* Open and the look at the leaves set the offsets, and nothing else does.
LEMMA LocatedStep ==
    ASSUME Located, [VerityNext]_verityVars
    PROVE  Located'
<1>1. DataBlockCount \in Nat /\ DataBlockCount > 1 /\ DataBlockCount * HashesPerBlock \in Nat
  <2>1. DataBlockCount \in Nat /\ DataBlockCount > 1
    BY CountIs DEF Located
  <2> QED BY <2>1, HashesIsNat, MulNat
<1>2. used' = used
  BY Zenon DEF VerityNext, verityVars, OpenVerity, Verify, VerifyNext, VerifyUnread, VerifyEnd,
     VerifyAgain
<1>3. DataBlockCount' = DataBlockCount
  BY <1>2, Zenon DEF DataBlockCount
<1> DEFINE O == LeafOffset(DataBlockCount)
<1>4. O' = O
  BY <1>3, Zenon
<1>5. O = DataBlockCount * HashesPerBlock + HashesPerBlock + Above(Layer(DataBlockCount))
  BY <1>1, LeavesFound
<1>6. ASSUME NEW offset, NEW size, Verify(offset, size) PROVE leaf' = O
  <2>1. vpc = "idle" /\ super = DataBlockCount * HashesPerBlock
    BY <1>6 DEF Verify, Located
  <2>2. FirstLeafHash = O
    BY <1>5, <2>1, Zenon DEF FirstLeafHash
  <2>3. leaf < super \/ leaf = O
    <3>1. leaf = 0 \/ leaf = O
      BY DEF Located
    <3>2. 0 < super
      BY <1>1, <2>1, HashesIsNat
    <3> QED BY <3>1, <3>2
  <2> QED BY <1>6, <2>2, <2>3, Zenon DEF Verify
<1>7. CASE OpenVerity
  <2>1. vpc = "open" /\ vpc' = "idle" /\ leaf' = leaf
    BY <1>7 DEF OpenVerity
  <2> QED BY <1>2, <1>3, <1>4, <1>7, <2>1, SuperIs, Zenon DEF Located
<1>8. CASE \E block \in 0..DataBlockCount, size \in 0..MaxUsed :
               Verify(block * HashesPerBlock, size)
  <2>1. PICK block, size : Verify(block * HashesPerBlock, size)
    BY <1>8, Zenon
  <2>2. vpc = "idle" /\ vpc' = "verify" /\ super' = super /\ leaf' = O
    BY <1>6, <2>1, Zenon DEF Verify
  <2> QED BY <1>2, <1>3, <1>4, <2>2, Zenon DEF Located
<1>9. CASE VerifyNext \/ VerifyUnread \/ VerifyEnd \/ VerifyAgain
  <2>1. /\ vpc \in {"verify", "returned"} /\ vpc' \in {"idle", "verify", "returned"}
        /\ super' = super /\ leaf' = leaf
    BY <1>9, Zenon DEF VerifyNext, VerifyUnread, VerifyEnd, VerifyAgain
  <2> QED BY <1>2, <1>3, <1>4, <2>1, Zenon DEF Located
<1>10. CASE UNCHANGED verityVars
  <2>1. vpc' = vpc /\ super' = super /\ leaf' = leaf
    BY <1>10, Zenon DEF verityVars
  <2> QED BY <1>2, <1>3, <1>4, <2>1, Zenon DEF Located
<1> QED
  BY <1>7, <1>8, <1>9, <1>10, Zenon DEF VerityNext

\* The block at an offset
LEMMA BlockOf ==
    ASSUME NEW b \in Nat
    PROVE  (b * HashesPerBlock) \div HashesPerBlock = b
<1> DEFINE H == HashesPerBlock
           q == (b * H) \div H
<1>1. H \in Nat /\ H > 0 /\ b * H \in Nat
  BY HashesIsNat, MulNat
<1>2. q \in Nat /\ q * H <= b * H /\ b * H < q * H + H
  BY <1>1
<1> HIDE DEF q, H
<1>3. ~(q < b)
  <2>1. SUFFICES ASSUME q < b PROVE FALSE
    BY <2>1
  <2>2. (q + 1) * H <= b * H
    BY <1>1, <1>2, <2>1, MulMono, SMT
  <2>3. (q + 1) * H = q * H + H /\ q * H \in Int
    BY <1>1, <1>2, MulNext
  <2> QED BY <1>1, <1>2, <2>2, <2>3
<1>4. ~(b < q)
  <2>1. SUFFICES ASSUME b < q PROVE FALSE
    BY <2>1
  <2>2. (b + 1) * H <= q * H
    BY <1>1, <1>2, <2>1, MulMono, SMT
  <2>3. (b + 1) * H = b * H + H /\ q * H \in Int
    BY <1>1, <1>2, MulNext
  <2> QED BY <1>1, <1>2, <2>2, <2>3
<1>5. q = b
  BY <1>2, <1>3, <1>4
<1> QED
  BY <1>5 DEF q, H

\* The loop begins with the first block of the region.
LEMMA VerifyBegins ==
    ASSUME Located, NEW block \in 0..DataBlockCount, NEW size \in 0..MaxUsed,
           Verify(block * HashesPerBlock, size)
    PROVE  Verifying'
<1>1. DataBlockCount \in Nat /\ DataBlockCount' = DataBlockCount
  BY CountIs DEF Located, Verify, DataBlockCount
<1>2. block \in Nat /\ size \in Nat /\ block * HashesPerBlock \in Nat
  BY <1>1, HashesIsNat, VerityAssumption, MulNat
<1>3. /\ region' = [offset |-> block * HashesPerBlock, size |-> size]
      /\ vblock' = block /\ vleft' = size /\ verr' = "nil"
  BY <1>2, BlockOf DEF Verify
<1>4. Covered(block)'
  BY <1>1, <1>2, <1>3 DEF Covered
<1> QED
  BY <1>2, <1>3, <1>4 DEF Verifying

\* A block that matches is clean, and the loop goes on to the next one.
LEMMA VerifyGoesOn ==
    ASSUME Located, Verifying, VerifyNext, Matches(vblock)
    PROVE  Verifying'
<1> DEFINE H == HashesPerBlock
<1>1. DataBlockCount \in Nat /\ DataBlockCount' = DataBlockCount
  BY CountIs DEF Located, VerifyNext, DataBlockCount
<1>2. /\ vpc = "verify" /\ vleft > 0 /\ vblock < DataBlockCount
      /\ vblock' = vblock + 1 /\ vleft' = (IF vleft < H THEN 0 ELSE vleft - H)
      /\ region' = region /\ damaged' = damaged /\ verr' = verr
  BY DEF VerifyNext
<1>3. vleft \in Nat /\ region.size \in Nat /\ verr = "nil"
  BY <1>2 DEF Verifying
<1>4. PICK first \in Nat : Covered(first)
  BY <1>2 DEF Verifying
<1>5. vblock \in Nat /\ first <= vblock
  BY <1>1, <1>4 DEF Covered
<1>6. PICK at \in Nat : at = vblock * H
  BY <1>5, HashesIsNat, MulNat
<1>7. (vblock + 1) * H = at + H
  BY <1>5, <1>6, HashesIsNat, MulNext
<1>8. at + vleft = region.offset + region.size
  BY <1>2, <1>4, <1>6 DEF Covered
<1>9. region.offset = first * H /\ region.offset \in Nat
  BY <1>4, HashesIsNat, MulNat DEF Covered
<1>10. ASSUME NEW i \in first..(vblock' - 1) PROVE Clean(i)'
  <2>1. i \in first..(vblock - 1) \/ i = vblock
    BY <1>2, <1>5
  <2>2. Clean(i)
    BY <1>4, <2>1, Zenon DEF Covered, Matches, Clean
  <2> QED BY <1>2, <2>2 DEF Clean
<1>11. vleft' = 0 => region'.offset + region'.size <= vblock' * H
  BY <1>2, <1>3, <1>6, <1>7, <1>8, HashesIsNat
<1>12. vleft' > 0 => vblock' * H + vleft' = region'.offset + region'.size
  BY <1>2, <1>3, <1>6, <1>7, <1>8, HashesIsNat
<1>13. vblock' \in first..DataBlockCount'
  BY <1>1, <1>2, <1>5
<1>14. region'.offset = first * H
  BY <1>2, <1>9
<1>15. Covered(first)'
  BY <1>10, <1>11, <1>12, <1>13, <1>14 DEF Covered
<1>16. vleft' \in Nat
  BY <1>2, <1>3, HashesIsNat
<1> QED
  BY <1>2, <1>3, <1>15, <1>16 DEF Verifying

\* A block that does not match is damaged, and in the region.
LEMMA ErrorIsTrue ==
    ASSUME Located, Verifying, vpc = "verify", vleft > 0, vblock < DataBlockCount,
           ~Matches(vblock)
    PROVE  vblock \in InRegion /\ ~Clean(vblock)
<1> DEFINE H == HashesPerBlock
<1>1. DataBlockCount \in Nat
  BY CountIs DEF Located
<1>2. vleft \in Nat /\ region.size \in Nat
  BY DEF Verifying
<1>3. PICK first \in Nat : Covered(first)
  BY DEF Verifying
<1>4. vblock \in Nat /\ first <= vblock
  BY <1>1, <1>3 DEF Covered
<1>5. PICK at \in Nat : at = vblock * H
  BY <1>4, HashesIsNat, MulNat
<1>6. (vblock + 1) * H = at + H
  BY <1>4, <1>5, HashesIsNat, MulNext
<1>7. at + vleft = region.offset + region.size
  BY <1>3, <1>5 DEF Covered
<1>8. region.offset = first * H /\ region.offset \in Nat
  BY <1>3, HashesIsNat, MulNat DEF Covered
<1>9. first * H <= at
  BY <1>4, <1>5, HashesIsNat, MulMono, SMT
<1>10. (vblock + 1) * H > region.offset /\ vblock * H < region.offset + region.size
  BY <1>2, <1>5, <1>6, <1>7, <1>8, <1>9, HashesIsNat
<1>11. vblock \in 0..(DataBlockCount - 1)
  BY <1>1, <1>4
<1>12. IsLeafOf(leaf + vblock, vblock)
  BY Zenon DEF Located, IsLeafOf
<1> QED
  BY <1>10, <1>11, <1>12 DEF InRegion, Matches, Clean

\* When the loop ends, all blocks of the region are clean.
LEMMA NilIsTrue ==
    ASSUME Located, Verifying, vpc = "verify", ~(vleft > 0 /\ vblock < DataBlockCount),
           NEW i \in InRegion
    PROVE  Clean(i)
<1> DEFINE H == HashesPerBlock
<1>1. DataBlockCount \in Nat /\ H \in Nat
  BY CountIs, HashesIsNat DEF Located
<1>2. vleft \in Nat /\ region.size \in Nat
  BY DEF Verifying
<1>3. PICK first \in Nat : Covered(first)
  BY DEF Verifying
<1>4. vblock \in Nat /\ first <= vblock /\ vblock <= DataBlockCount
  BY <1>1, <1>3 DEF Covered
<1>5. i \in Nat /\ i < DataBlockCount
  BY <1>1 DEF InRegion
<1>6. (i + 1) * H > region.offset /\ i * H < region.offset + region.size
  BY DEF InRegion
<1>7. region.offset = first * H
  BY <1>3 DEF Covered
<1>8. first <= i
  <2>1. SUFFICES ASSUME i + 1 <= first PROVE FALSE
    BY <1>5, <2>1
  <2>2. (i + 1) * H <= first * H /\ (i + 1) * H \in Int /\ first * H \in Int
    BY <1>1, <1>5, <2>1, MulMono, SMT
  <2> QED BY <1>6, <1>7, <2>2
<1>9. i < vblock
  <2>1. CASE vleft = 0
    <3>1. SUFFICES ASSUME vblock <= i PROVE FALSE
      BY <1>4, <1>5, <3>1
    <3>2. vblock * H <= i * H
      BY <1>1, <1>4, <1>5, <3>1, MulMono, SMT
    <3>3. region.offset + region.size <= vblock * H
      BY <1>3, <2>1 DEF Covered
    <3>4. vblock * H \in Int /\ i * H \in Int /\ region.offset \in Int
      BY <1>1, <1>4, <1>5, <1>7
    <3> QED BY <1>2, <1>6, <3>2, <3>3, <3>4
  <2>2. CASE vleft # 0
    BY <1>1, <1>2, <1>4, <1>5, <2>2
  <2> QED BY <2>1, <2>2
<1>10. i \in first..(vblock - 1)
  BY <1>4, <1>5, <1>8, <1>9
<1> QED
  BY <1>3, <1>10 DEF Covered

\* A region stays the same as long as its bounds do.
LEMMA RegionStays ==
    ASSUME used' = used, region' = region
    PROVE  InRegion' = InRegion
<1>1. DataBlockCount' = DataBlockCount
  BY Zenon DEF DataBlockCount
<1> QED
  BY <1>1, Zenon DEF InRegion

\* Every step keeps the invariant.
LEMMA VerityStep ==
    ASSUME VerityInv, [VerityNext]_verityVars
    PROVE  VerityInv'
<1>1. Located /\ Verifying
  BY DEF VerityInv
<1>2. Located'
  BY <1>1, LocatedStep
<1>3. CASE OpenVerity
  <2>1. vpc' = "idle"
    BY <1>3 DEF OpenVerity
  <2> QED BY <1>2, <2>1, Zenon DEF VerityInv, Verifying, VerifyExact
<1>4. CASE \E block \in 0..DataBlockCount, size \in 0..MaxUsed :
               Verify(block * HashesPerBlock, size)
  <2>1. Verifying'
    BY <1>1, <1>4, VerifyBegins, Zenon
  <2>2. vpc' = "verify"
    BY <1>4, Zenon DEF Verify
  <2> QED BY <1>2, <2>1, <2>2, Zenon DEF VerityInv, VerifyExact
<1>5. CASE VerifyNext /\ Matches(vblock)
  <2>1. Verifying'
    BY <1>1, <1>5, VerifyGoesOn
  <2>2. vpc' = "verify"
    BY <1>5, Zenon DEF VerifyNext
  <2> QED BY <1>2, <2>1, <2>2, Zenon DEF VerityInv, VerifyExact
<1>6. CASE VerifyNext /\ ~Matches(vblock)
  <2>1. /\ vpc = "verify" /\ vleft > 0 /\ vblock < DataBlockCount
        /\ vpc' = "returned" /\ verr' = "error"
        /\ used' = used /\ region' = region /\ damaged' = damaged
    BY <1>6, Zenon DEF VerifyNext
  <2>2. vblock \in InRegion /\ ~Clean(vblock)
    BY <1>1, <1>6, <2>1, ErrorIsTrue
  <2>3. /\ vblock \in InRegion'
        /\ ~(<<"data", vblock>> \notin damaged' /\ <<"leaf", vblock>> \notin damaged')
    BY <2>1, <2>2, RegionStays DEF Clean
  <2>4. VerifyExact'
    BY <2>1, <2>3, Zenon DEF VerifyExact
  <2> QED BY <1>2, <2>1, <2>4, Zenon DEF VerityInv, Verifying
<1>7. CASE VerifyUnread
  <2>1. vpc' = "returned" /\ verr' = "unread"
    BY <1>7 DEF VerifyUnread
  <2> QED BY <1>2, <2>1, Zenon DEF VerityInv, Verifying, VerifyExact
<1>8. CASE VerifyEnd
  <2>1. /\ vpc = "verify" /\ ~(vleft > 0 /\ vblock < DataBlockCount)
        /\ vpc' = "returned" /\ verr' = verr
        /\ used' = used /\ region' = region /\ damaged' = damaged
    BY <1>8, Zenon DEF VerifyEnd
  <2>2. \A i \in InRegion : Clean(i)
    BY <1>1, <2>1, NilIsTrue
  <2>3. verr' = "nil"
    BY <1>1, <2>1, Zenon DEF Verifying
  <2>4. \A i \in InRegion' : <<"data", i>> \notin damaged' /\ <<"leaf", i>> \notin damaged'
    BY <2>1, <2>2, RegionStays DEF Clean
  <2>5. "nil" # "error"
    OBVIOUS
  <2>6. VerifyExact'
    BY <2>3, <2>4, <2>5, Zenon DEF VerifyExact
  <2> QED BY <1>2, <2>1, <2>6, Zenon DEF VerityInv, Verifying
<1>9. CASE VerifyAgain
  <2>1. vpc' = "idle"
    BY <1>9 DEF VerifyAgain
  <2> QED BY <1>2, <2>1, Zenon DEF VerityInv, Verifying, VerifyExact
<1>10. CASE UNCHANGED verityVars
  <2>1. /\ vpc' = vpc /\ verr' = verr /\ used' = used /\ region' = region
        /\ damaged' = damaged /\ vleft' = vleft /\ vblock' = vblock
    BY <1>10, Zenon DEF verityVars
  <2>2. InRegion' = InRegion /\ DataBlockCount' = DataBlockCount
    BY <2>1, RegionStays, Zenon DEF DataBlockCount
  <2>3. VerifyExact'
    BY <2>1, <2>2, Zenon DEF VerityInv, VerifyExact
  <2>4. \A first \in Nat : Covered(first) => Covered(first)'
    BY <2>1, <2>2, Zenon DEF Covered, Clean
  <2>5. Verifying'
    BY <1>1, <2>1, <2>4, Zenon DEF Verifying
  <2> QED BY <1>2, <2>1, <2>3, <2>5, Zenon DEF VerityInv
<1> QED
  BY <1>3, <1>4, <1>5, <1>6, <1>7, <1>8, <1>9, <1>10, Zenon DEF VerityNext

\* Verify finds every damaged block of a region and nothing else, for images
\* of any length and blocks of any number of hashes.
THEOREM VerifyIsExact == VeritySpec => []VerifyExact
<1>1. VerityInit => VerityInv
  <2>1. SUFFICES ASSUME VerityInit PROVE VerityInv
    OBVIOUS
  <2>2. used \in (HashesPerBlock + 1)..MaxUsed
    BY <2>1, Zenon DEF VerityInit
  <2>3. used \in Nat /\ used > HashesPerBlock
    BY <2>2, HashesIsNat, VerityAssumption
  <2>4. vpc = "open" /\ super = 0 /\ leaf = 0
    BY <2>1, Zenon DEF VerityInit
  <2>5. Located
    BY <2>3, <2>4 DEF Located
  <2> QED BY <2>4, <2>5, Zenon DEF VerityInv, Verifying, VerifyExact
<1>2. VerityInv /\ [VerityNext]_verityVars => VerityInv'
  BY VerityStep
<1>3. VerityInv => VerifyExact
  BY DEF VerityInv
<1> QED
  BY <1>1, <1>2, <1>3, PTL DEF VeritySpec
=============================================================================
