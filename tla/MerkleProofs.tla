---------------------------- MODULE MerkleProofs ----------------------------
(***************************************************************************)
(* Proofs about Merkle, for logs of every size, tiles of every height, and *)
(* answers changed in any way and any number of times.                     *)
(***************************************************************************)
EXTENDS Merkle, SequenceLemmas

----------------------------------------------------------------------------
(* Powers of two. *)

Powers(f, m) == f = [i \in 0..m |-> IF i = 0 THEN 1 ELSE 2 * f[i - 1]]

\* Doubling can be done any number of times ...
LEMMA PowersExist ==
  ASSUME NEW m \in Nat
  PROVE  \E f : Powers(f, m) /\ f \in [0..m -> Nat]
<1> DEFINE F == [i \in 1..m |-> [x \in Nat |-> 2 * x]]
<1>1. F \in [1..m -> [Nat -> Nat]]
  OBVIOUS
<1>2. \A i \in 1..m, x \in Nat : F[i][x] = 2 * x
  OBVIOUS
<1> HIDE DEF F
<1>3. PICK f : Recursive(f, m, Nat, 1, F)
  <2>1. 1 \in Nat
    OBVIOUS
  <2> QED BY <1>1, <2>1, RecursionExists DEF Recursion
<1>4. f \in [0..m -> Nat] /\ f[0] = 1
  BY <1>3 DEF Recursive
<1>5. ASSUME NEW i \in 1..m PROVE f[i] = 2 * f[i - 1]
  <2>1. i - 1 \in 0..m
    OBVIOUS
  <2>2. f[i - 1] \in Nat
    BY <1>4, <2>1
  <2> QED BY <1>2, <1>3, <2>2 DEF Recursive
<1>6. f = [i \in 0..m |-> IF i = 0 THEN 1 ELSE 2 * f[i - 1]]
  <2>1. \A i \in 0..m : f[i] = IF i = 0 THEN 1 ELSE 2 * f[i - 1]
    BY <1>4, <1>5
  <2> QED BY <1>4, <2>1
<1> QED BY <1>4, <1>6 DEF Powers

\* ... and gives the same however far one goes.
LEMMA PowersAgree ==
  ASSUME NEW m \in Nat, NEW n \in Nat, m <= n, NEW f, NEW g, Powers(f, m), Powers(g, n)
  PROVE  f[m] = g[m]
<1> DEFINE T == {i \in Nat : i <= m => f[i] = g[i]}
<1>1. 0 \in T
  BY DEF Powers
<1>2. ASSUME NEW k \in 0..(m - 1), k \in T PROVE k + 1 \in T
  <2>1. f[k] = g[k] /\ k + 1 \in 0..m /\ k + 1 \in 0..n /\ (k + 1) - 1 = k /\ k + 1 # 0
    BY <1>2
  <2>2. f[k + 1] = 2 * f[k] /\ g[k + 1] = 2 * g[k]
    BY <2>1 DEF Powers
  <2> QED BY <2>1, <2>2
<1> HIDE DEF T
<1>3. 0..m \subseteq T
  BY <1>1, <1>2, NatUpTo
<1>4. m \in T
  BY <1>3
<1> QED BY <1>4 DEF T

\* Pow2 is what its equation says.
LEMMA Pow2Is ==
  /\ Pow2[0] = 1
  /\ \A i \in Nat : Pow2[i] \in Nat /\ Pow2[i + 1] = 2 * Pow2[i]
<1> DEFINE f(m) == CHOOSE f : Powers(f, m) /\ f \in [0..m -> Nat]
           g == [i \in Nat |-> f(i)[i]]
<1>1. ASSUME NEW m \in Nat PROVE Powers(f(m), m) /\ f(m) \in [0..m -> Nat]
  BY PowersExist
<1> HIDE DEF f
<1>2. ASSUME NEW i \in Nat, i # 0 PROVE g[i] = 2 * g[i - 1]
  <2>1. i - 1 \in Nat /\ i \in 0..i /\ i - 1 <= i
    BY <1>2
  <2>2. f(i)[i - 1] = f(i - 1)[i - 1]
    BY <1>1, <2>1, PowersAgree
  <2>3. f(i)[i] = 2 * f(i)[i - 1]
    BY <1>1, <1>2, <2>1 DEF Powers
  <2> QED BY <2>1, <2>2, <2>3
<1>3. g[0] = 1
  <2>1. 0 \in 0..0
    OBVIOUS
  <2>2. f(0)[0] = 1
    BY <1>1, <2>1 DEF Powers
  <2> QED BY <2>2
<1>4. g = [i \in Nat |-> IF i = 0 THEN 1 ELSE 2 * g[i - 1]]
  <2>1. \A i \in Nat : g[i] = IF i = 0 THEN 1 ELSE 2 * g[i - 1]
    BY <1>2, <1>3
  <2>2. g = [i \in Nat |-> g[i]]
    OBVIOUS
  <2> HIDE DEF g
  <2> QED BY <2>1, <2>2
<1> HIDE DEF g
<1>5. Pow2 = [i \in Nat |-> IF i = 0 THEN 1 ELSE 2 * Pow2[i - 1]]
  <2>1. \E h : h = [i \in Nat |-> IF i = 0 THEN 1 ELSE 2 * h[i - 1]]
    BY <1>4
  <2> QED BY <2>1 DEF Pow2
<1>6. Pow2[0] = 1 /\ \A i \in Nat : Pow2[i + 1] = 2 * Pow2[i]
  BY <1>5
<1> DEFINE T == {i \in Nat : Pow2[i] \in Nat}
<1>7. ASSUME NEW i \in Nat PROVE i \in T
  <2>1. 0 \in T
    BY <1>6
  <2>2. ASSUME NEW k \in 0..(i - 1), k \in T PROVE k + 1 \in T
    BY <1>6, <2>2
  <2> HIDE DEF T
  <2>3. 0..i \subseteq T
    BY <2>1, <2>2, NatUpTo
  <2> QED BY <2>3
<1> QED BY <1>6, <1>7

\* Powers of two are positive and larger than their exponents.
LEMMA Pow2Facts ==
  \A i \in Nat : Pow2[i] \in Nat \ {0} /\ i < Pow2[i]
<1> DEFINE T == {i \in Nat : i < Pow2[i]}
<1>1. ASSUME NEW i \in Nat PROVE i \in T
  <2>1. 0 \in T
    BY Pow2Is
  <2>2. ASSUME NEW k \in 0..(i - 1), k \in T PROVE k + 1 \in T
    BY Pow2Is, <2>2
  <2> HIDE DEF T
  <2>3. 0..i \subseteq T
    BY <2>1, <2>2, NatUpTo
  <2> QED BY <2>3
<1> QED BY <1>1, Pow2Is

\* Exponents add up.
LEMMA Pow2Add ==
  ASSUME NEW i \in Nat, NEW j \in Nat
  PROVE  Pow2[i + j] = Pow2[i] * Pow2[j]
<1> DEFINE T == {k \in Nat : Pow2[i + k] = Pow2[i] * Pow2[k]}
<1>1. 0 \in T
  BY Pow2Is
<1>2. ASSUME NEW k \in 0..(j - 1), k \in T PROVE k + 1 \in T
  <2>1. Pow2[(i + k) + 1] = 2 * Pow2[i + k] /\ Pow2[k + 1] = 2 * Pow2[k]
    BY Pow2Is
  <2>2. Pow2[i + k] = Pow2[i] * Pow2[k] /\ Pow2[i] \in Nat /\ Pow2[k] \in Nat
    BY <1>2, Pow2Is
  <2>3. 2 * (Pow2[i] * Pow2[k]) = Pow2[i] * (2 * Pow2[k])
    BY <2>2
  <2>4. (i + k) + 1 = i + (k + 1)
    OBVIOUS
  <2> QED BY <2>1, <2>2, <2>3, <2>4
<1> HIDE DEF T
<1>3. 0..j \subseteq T
  BY <1>1, <1>2, NatUpTo
<1>4. j \in T
  BY <1>3
<1> QED BY <1>4 DEF T

\* The next power of two is the double.
LEMMA Pow2Mono ==
  ASSUME NEW i \in Nat, NEW j \in Nat, i < j
  PROVE  2 * Pow2[i] <= Pow2[j] /\ Pow2[i] < Pow2[j]
<1> DEFINE d == j - i - 1
<1>1. d \in Nat /\ (i + 1) + d = j
  OBVIOUS
<1>2. Pow2[j] = Pow2[i + 1] * Pow2[d]
  BY <1>1, Pow2Add
<1>3. Pow2[i + 1] = 2 * Pow2[i] /\ Pow2[i] \in Nat \ {0} /\ Pow2[d] \in Nat \ {0}
  BY <1>1, Pow2Is, Pow2Facts
<1>4. Pow2[i + 1] * 1 <= Pow2[i + 1] * Pow2[d]
  <2>1. Pow2[i + 1] \in Nat /\ 1 <= Pow2[d]
    BY <1>3
  <2> QED BY <1>3, <2>1, TimesMono
<1> QED BY <1>2, <1>3, <1>4

\* A number lies between one power of two and the next one only.
LEMMA SplitIs ==
  ASSUME NEW n \in Nat, NEW q \in Nat, Pow2[q] < n, n <= 2 * Pow2[q]
  PROVE  Split(n) = Pow2[q]
<1> DEFINE P(i) == Pow2[i] < n /\ n <= 2 * Pow2[i]
           c == CHOOSE i \in 0..n : P(i)
<1>1. q \in 0..n
  BY Pow2Facts
<1>2. c \in 0..n /\ P(c)
  BY <1>1
<1>3. ~(c < q)
  <2>1. SUFFICES ASSUME c < q PROVE FALSE
    OBVIOUS
  <2> HIDE DEF c
  <2>2. 2 * Pow2[c] <= Pow2[q]
    BY <1>2, <2>1, Pow2Mono
  <2> QED BY <1>2, <2>2, Pow2Facts
<1>4. ~(q < c)
  <2>1. SUFFICES ASSUME q < c PROVE FALSE
    OBVIOUS
  <2> HIDE DEF c
  <2>2. 2 * Pow2[q] <= Pow2[c]
    BY <1>2, <2>1, Pow2Mono
  <2> QED BY <1>2, <2>2, Pow2Facts
<1>5. c = q
  <2> HIDE DEF c
  <2> QED BY <1>2, <1>3, <1>4
<1>6. Split(n) = Pow2[c]
  BY DEF Split
<1> QED BY <1>5, <1>6

\* Both parts of a tree of two or more are smaller than it.
LEMMA SplitFacts ==
  ASSUME NEW n \in Nat, n > 1
  PROVE  /\ \E q \in Nat : Pow2[q] < n /\ n <= 2 * Pow2[q] /\ Split(n) = Pow2[q]
         /\ Split(n) \in 1..(n - 1) /\ n - Split(n) \in 1..(n - 1)
<1> DEFINE T == {i \in Nat : n <= 2 * Pow2[i]}
<1>1. PICK q \in T : \A y \in T : q <= y
  <2>1. n \in T
    BY Pow2Facts
  <2>2. T \subseteq Nat /\ T # {}
    BY <2>1
  <2> HIDE DEF T
  <2> QED BY <2>2, NatLeast
<1>2. q \in Nat /\ n <= 2 * Pow2[q]
  BY <1>1
<1>3. Pow2[q] < n
  <2>1. CASE q = 0
    BY <2>1, Pow2Is
  <2>2. CASE q # 0
    <3>1. q - 1 \in Nat /\ q - 1 \notin T
      BY <1>1, <1>2, <2>2
    <3>2. Pow2[q] = 2 * Pow2[q - 1]
      <4>1. (q - 1) + 1 = q
        BY <1>2
      <4> QED BY <3>1, <4>1, Pow2Is
    <3>3. Pow2[q - 1] \in Nat
      BY <3>1, Pow2Facts
    <3> QED BY <3>1, <3>2, <3>3
  <2> QED BY <2>1, <2>2
<1>4. Split(n) = Pow2[q]
  BY <1>2, <1>3, SplitIs
<1> QED BY <1>2, <1>3, <1>4, Pow2Facts

\* Every positive number is a power of two times an odd number ...
LEMMA OddPart ==
  ASSUME NEW x \in Nat \ {0}
  PROVE  \E k \in Nat, y \in Nat : x = Pow2[k] * y /\ Odd(y)
<1> DEFINE P(z) == \E k \in Nat, y \in Nat : z = Pow2[k] * y /\ Odd(y)
           T == {z \in Nat \ {0} : ~P(z)}
<1>1. SUFFICES ASSUME T # {} PROVE FALSE
  OBVIOUS
<1>2. PICK z \in T : \A y \in T : z <= y
  <2>1. T \subseteq Nat
    OBVIOUS
  <2> HIDE DEF T
  <2> QED BY <1>1, <2>1, NatLeast
<1>3. z \in Nat \ {0} /\ ~P(z)
  BY <1>2
<1>4. ~Odd(z)
  <2>1. SUFFICES ASSUME Odd(z) PROVE P(z)
    BY <1>3
  <2>2. z = Pow2[0] * z
    BY <1>3, Pow2Is
  <2> QED BY <1>3, <2>1, <2>2
<1>5. z \div 2 \in Nat \ {0} /\ z = 2 * (z \div 2) /\ z \div 2 < z
  BY <1>3, <1>4 DEF Odd
<1>6. PICK k \in Nat, y \in Nat : z \div 2 = Pow2[k] * y /\ Odd(y)
  BY <1>2, <1>5
<1>7. z = Pow2[k + 1] * y
  <2>1. Pow2[k + 1] = 2 * Pow2[k] /\ Pow2[k] \in Nat
    BY Pow2Is
  <2>2. (2 * Pow2[k]) * y = 2 * (Pow2[k] * y)
    BY <2>1
  <2> QED BY <1>5, <1>6, <2>1, <2>2
<1> QED BY <1>3, <1>6, <1>7

\* ... in one way, which is what the code counts zeros for.
LEMMA TrailingZerosIs ==
  ASSUME NEW k \in Nat, NEW y \in Nat, Odd(y)
  PROVE  /\ TrailingZeros(Pow2[k] * y) = k
         /\ Pow2[k] * y \in Nat \ {0} /\ k <= Pow2[k] * y
<1> DEFINE x == Pow2[k] * y
           P(i) == x % Pow2[i] = 0 /\ Odd(x \div Pow2[i])
           c == CHOOSE i \in 0..x : P(i)
<1>1. Pow2[k] \in Nat \ {0} /\ k < Pow2[k]
  BY Pow2Facts
<1>2. y # 0
  BY DEF Odd
<1>3. Pow2[k] * 1 <= x /\ x \in Nat
  BY <1>1, <1>2, TimesMono
<1>4. P(k)
  <2>1. x = Pow2[k] * y + 0 /\ 0 \in 0..(Pow2[k] - 1)
    BY <1>1, <1>3
  <2> HIDE DEF x
  <2>2. x \div Pow2[k] = y
    BY <1>1, <1>3, <2>1, QuotientIs
  <2>3. x % Pow2[k] = 0
    <3>1. x % Pow2[k] \in Nat /\ x = Pow2[k] * (x \div Pow2[k]) + (x % Pow2[k])
      <4> HIDE DEF P
      <4>1. x % Pow2[k] \in 0..(Pow2[k] - 1) /\ x = Pow2[k] * (x \div Pow2[k]) + (x % Pow2[k])
        BY <1>1, <1>3, DivMod, Zenon
      <4> QED BY <1>1, <4>1
    <3> HIDE DEF P
    <3>2. x = Pow2[k] * y + (x % Pow2[k])
      BY <2>2, <3>1
    <3>3. PICK u \in Nat : u = Pow2[k] * y
      BY <1>1
    <3> QED BY <2>1, <3>1, <3>2, <3>3
  <2> QED BY <2>2, <2>3
<1>5. ASSUME NEW i \in Nat, P(i) PROVE i = k
  <2> DEFINE z == x \div Pow2[i]
  <2>1. Pow2[i] \in Nat \ {0}
    BY Pow2Facts
  <2>2. z \in Nat /\ x = Pow2[i] * z /\ Odd(z)
    <3> HIDE DEF x
    <3>1. z \in Nat /\ x = Pow2[i] * z + (x % Pow2[i])
      BY <1>3, <2>1, DivMod
    <3>2. x % Pow2[i] = 0 /\ Odd(z)
      BY <1>5
    <3> HIDE DEF z
    <3>3. Pow2[i] * z \in Nat
      BY <2>1, <3>1
    <3> QED BY <3>1, <3>2, <3>3
  <2> HIDE DEF z
  <2>3. ASSUME NEW a \in Nat, NEW b \in Nat, NEW u \in Nat, NEW v \in Nat,
               a < b, Odd(u), Odd(v), Pow2[a] * u = Pow2[b] * v
        PROVE  FALSE
    <3> DEFINE d == b - a - 1
    <3>1. d \in Nat /\ b = a + (d + 1)
      BY <2>3
    <3> HIDE DEF d
    <3>2. Pow2[b] = Pow2[a] * Pow2[d + 1] /\ Pow2[d + 1] = 2 * Pow2[d]
      <4>1. d + 1 \in Nat
        BY <3>1
      <4>2. Pow2[a + (d + 1)] = Pow2[a] * Pow2[d + 1]
        BY <4>1, Pow2Add
      <4> QED BY <3>1, <4>2, Pow2Is
    <3>3. Pow2[a] \in Nat \ {0} /\ Pow2[d] \in Nat
      BY <3>1, Pow2Facts
    <3>4. PICK e \in Nat : e = Pow2[d] * v
      BY <3>3
    <3>5. Pow2[a] * u = Pow2[a] * (2 * e)
      <4>1. (Pow2[a] * (2 * Pow2[d])) * v = Pow2[a] * (2 * (Pow2[d] * v))
        BY <3>3
      <4> QED BY <2>3, <3>2, <3>4, <4>1
    <3>6. u = 2 * e
      BY <3>3, <3>5
    <3> QED BY <2>3, <3>6 DEF Odd
  <2>4. Pow2[i] * z = Pow2[k] * y
    BY <2>2
  <2> HIDE DEF x
  <2>5. ~(i < k) /\ ~(k < i)
    BY <2>2, <2>3, <2>4
  <2> QED BY <2>5
<1>6. k \in 0..x
  BY <1>1, <1>3
<1>7. c \in 0..x /\ P(c)
  BY <1>4, <1>6
<1>8. c = k
  BY <1>5, <1>7
<1>9. TrailingZeros(x) = c
  BY DEF TrailingZeros
<1>10. x \in Nat \ {0} /\ k \in 0..x
  <2> HIDE DEF x
  <2> QED BY <1>1, <1>3, <1>6
<1> HIDE DEF c
<1> QED BY <1>8, <1>9, <1>10

\* The powers of two are recognised.
LEMMA IsPowerIs ==
  ASSUME NEW n \in Nat
  PROVE  IsPower(n) <=> \E k \in Nat : n = Pow2[k]
<1>1. ASSUME NEW k \in Nat, n = Pow2[k] PROVE IsPower(n) /\ TrailingZeros(n) = k
  <2>1. Odd(1) /\ Pow2[k] * 1 = n
    BY <1>1, Pow2Facts DEF Odd
  <2>2. TrailingZeros(Pow2[k] * 1) = k
    BY <2>1, TrailingZerosIs
  <2> QED BY <1>1, <2>1, <2>2, Pow2Facts DEF IsPower
<1>2. ASSUME IsPower(n) PROVE \E k \in Nat : n = Pow2[k]
  <2>1. n \in Nat \ {0} /\ n = Pow2[TrailingZeros(n)]
    BY <1>2 DEF IsPower
  <2>2. PICK k \in Nat, y \in Nat : n = Pow2[k] * y /\ Odd(y)
    BY <2>1, OddPart
  <2>3. TrailingZeros(n) = k
    BY <2>2, TrailingZerosIs
  <2> QED BY <2>1, <2>3
<1> QED BY <1>1, <1>2

----------------------------------------------------------------------------
(* Levels: the place of x, counted in subtrees of 2^j. *)

Up(x, j) == x \div Pow2[j]

\* Up one level is one halving, and j levels are j halvings at once.
LEMMA UpFacts ==
  ASSUME NEW x \in Nat, NEW j \in Nat
  PROVE  /\ Up(x, j) \in Nat /\ Up(x, 0) = x
         /\ Up(x, j + 1) = Up(x, j) \div 2
         /\ \A i \in Nat : Up(x, j + i) = Up(x, j) \div Pow2[i]
         /\ Pow2[j] * Up(x, j) <= x /\ x < Pow2[j] * (Up(x, j) + 1)
<1>1. Pow2[j] \in Nat \ {0} /\ Pow2[0] = 1
  BY Pow2Facts, Pow2Is
<1>2. Up(x, j) \in Nat
  BY <1>1, DivMod DEF Up
<1>3. Up(x, 0) = x
  BY <1>1 DEF Up
<1>4. ASSUME NEW i \in Nat PROVE Up(x, j + i) = Up(x, j) \div Pow2[i]
  <2>1. Pow2[i] \in Nat \ {0} /\ Pow2[j + i] = Pow2[i] * Pow2[j]
    <3>1. Pow2[i + j] = Pow2[i] * Pow2[j] /\ i + j = j + i
      BY Pow2Add
    <3> QED BY <3>1, Pow2Facts
  <2>2. (x \div Pow2[j]) \div Pow2[i] = x \div (Pow2[i] * Pow2[j])
    BY <1>1, <2>1, DivDiv
  <2> QED BY <2>1, <2>2 DEF Up
<1>5. Up(x, j + 1) = Up(x, j) \div 2
  <2>1. Pow2[1] = 2
    <3>1. Pow2[0 + 1] = 2 * Pow2[0]
      BY Pow2Is
    <3> QED BY <1>1, <3>1
  <2> QED BY <1>4, <2>1
<1>6. Pow2[j] * Up(x, j) <= x /\ x < Pow2[j] * (Up(x, j) + 1)
  BY <1>1, <1>2, QuotientBound DEF Up
<1> QED BY <1>2, <1>3, <1>4, <1>5, <1>6

----------------------------------------------------------------------------
(* Recursion over the parts of a tree. *)

\* A function of the parts of a tree of up to m that is given where it stops, and
\* elsewhere combines what it gives for the two parts, ...
TreeFunction(f, m, stop, base) ==
  f = [n \in 0..m |-> [a \in Nat |->
        IF <<n, a>> \in stop THEN base[n][a]
        ELSE NodeHash(f[Split(n)][a], f[n - Split(n)][a + Split(n)])]]

\* ... exists.
LEMMA TreeFunctionExists ==
  ASSUME NEW m \in Nat, NEW stop, NEW base, \A n \in {0, 1}, a \in Nat : <<n, a>> \in stop
  PROVE  \E f : TreeFunction(f, m, stop, base)
<1> DEFINE Here(f, n) == [a \in Nat |->
             IF <<n, a>> \in stop THEN base[n][a]
             ELSE NodeHash(f[Split(n)][a], f[n - Split(n)][a + Split(n)])]
           T == {k \in Nat : \E f : TreeFunction(f, k, stop, base)}
<1>1. ASSUME NEW f, NEW g, NEW n \in Nat, \A k \in 0..(n - 1) : f[k] = g[k]
      PROVE  Here(f, n) = Here(g, n)
  <2>1. CASE n > 1
    <3>1. Split(n) \in 0..(n - 1) /\ n - Split(n) \in 0..(n - 1)
      BY <2>1, SplitFacts
    <3> QED BY <1>1, <3>1
  <2>2. CASE ~(n > 1)
    <3>1. n \in {0, 1}
      BY <2>2
    <3> QED BY <3>1
  <2> QED BY <2>1, <2>2
<1>2. 0 \in T
  <2> DEFINE f == [n \in 0..0 |-> [a \in Nat |-> base[0][a]]]
  <2>1. TreeFunction(f, 0, stop, base)
    BY DEF TreeFunction
  <2> QED BY <2>1
<1>3. ASSUME NEW k \in 0..(m - 1), k \in T PROVE k + 1 \in T
  <2>1. PICK f : TreeFunction(f, k, stop, base)
    BY <1>3
  <2> DEFINE g == [n \in 0..(k + 1) |-> IF n = k + 1 THEN Here(f, n) ELSE f[n]]
  <2>2. \A n \in 0..k : g[n] = f[n] /\ f[n] = Here(f, n)
    <3>1. f = [n \in 0..k |-> Here(f, n)]
      BY <2>1 DEF TreeFunction
    <3> HIDE DEF Here
    <3>2. \A n \in 0..k : f[n] = Here(f, n)
      BY <3>1
    <3>3. \A n \in 0..k : n \in 0..(k + 1) /\ n # k + 1
      BY <1>3
    <3> QED BY <3>2, <3>3
  <2>3. g[k + 1] = Here(f, k + 1)
    OBVIOUS
  <2>4. g = [n \in 0..(k + 1) |-> g[n]]
    OBVIOUS
  <2> HIDE DEF g, Here
  <2>5. ASSUME NEW n \in 0..(k + 1) PROVE g[n] = Here(g, n)
    <3>1. \A j \in 0..(n - 1) : f[j] = g[j]
      BY <2>2
    <3>2. Here(f, n) = Here(g, n)
      BY <1>1, <3>1
    <3>3. n = k + 1 \/ n \in 0..k
      OBVIOUS
    <3> QED BY <2>2, <2>3, <3>2, <3>3
  <2>6. g = [n \in 0..(k + 1) |-> Here(g, n)]
    BY <2>4, <2>5
  <2>7. TreeFunction(g, k + 1, stop, base)
    BY <2>6 DEF TreeFunction, Here
  <2> QED BY <2>7
<1> HIDE DEF T
<1>4. 0..m \subseteq T
  BY <1>2, <1>3, NatUpTo
<1>5. m \in T
  BY <1>4
<1> QED BY <1>5 DEF T

\* A function that collects hashes on its way down to one part, in front or at
\* the end of what it has collected below, ...
Collected(side, path, hash) == IF side = "front" THEN <<hash>> \o path ELSE Append(path, hash)

WalkFunction(f, m, stop, base, left, hash, side) ==
  f = [n \in 1..m |-> [a \in Nat |->
        IF <<n, a>> \in stop THEN base[n][a]
        ELSE IF <<n, a>> \in left
             THEN Collected(side, f[Split(n)][a], hash[n - Split(n)][a + Split(n)])
             ELSE Collected(side, f[n - Split(n)][a + Split(n)], hash[Split(n)][a])]]

\* ... exists.
LEMMA WalkFunctionExists ==
  ASSUME NEW m \in Nat, NEW stop, NEW base, NEW left, NEW hash, NEW side,
         \A a \in Nat : <<1, a>> \in stop
  PROVE  \E f : WalkFunction(f, m, stop, base, left, hash, side)
<1> DEFINE Here(f, n) == [a \in Nat |->
             IF <<n, a>> \in stop THEN base[n][a]
             ELSE IF <<n, a>> \in left
                  THEN Collected(side, f[Split(n)][a], hash[n - Split(n)][a + Split(n)])
                  ELSE Collected(side, f[n - Split(n)][a + Split(n)], hash[Split(n)][a])]
           T == {k \in Nat : \E f : WalkFunction(f, k, stop, base, left, hash, side)}
<1>1. ASSUME NEW f, NEW g, NEW n \in Nat \ {0}, \A k \in 1..(n - 1) : f[k] = g[k]
      PROVE  Here(f, n) = Here(g, n)
  <2>1. CASE n > 1
    <3>1. Split(n) \in 1..(n - 1) /\ n - Split(n) \in 1..(n - 1)
      BY <2>1, SplitFacts
    <3> QED BY <1>1, <3>1
  <2>2. CASE ~(n > 1)
    <3>1. n = 1
      BY <2>2
    <3> QED BY <3>1
  <2> QED BY <2>1, <2>2
<1>2. 0 \in T
  <2> DEFINE f == [n \in 1..0 |-> 0]
  <2>1. WalkFunction(f, 0, stop, base, left, hash, side)
    BY DEF WalkFunction
  <2> QED BY <2>1
<1>3. ASSUME NEW k \in 0..(m - 1), k \in T PROVE k + 1 \in T
  <2>1. PICK f : WalkFunction(f, k, stop, base, left, hash, side)
    BY <1>3
  <2> DEFINE g == [n \in 1..(k + 1) |-> IF n = k + 1 THEN Here(f, n) ELSE f[n]]
  <2>2. \A n \in 1..k : g[n] = f[n] /\ f[n] = Here(f, n)
    <3>1. f = [n \in 1..k |-> Here(f, n)]
      BY <2>1 DEF WalkFunction
    <3> HIDE DEF Here
    <3> QED BY <3>1
  <2>3. g[k + 1] = Here(f, k + 1)
    OBVIOUS
  <2>4. g = [n \in 1..(k + 1) |-> g[n]]
    OBVIOUS
  <2> HIDE DEF g, Here
  <2>5. ASSUME NEW n \in 1..(k + 1) PROVE g[n] = Here(g, n)
    <3>1. \A j \in 1..(n - 1) : f[j] = g[j]
      BY <2>2
    <3>2. Here(f, n) = Here(g, n)
      BY <1>1, <3>1
    <3>3. n = k + 1 \/ n \in 1..k
      OBVIOUS
    <3> QED BY <2>2, <2>3, <3>2, <3>3
  <2>6. g = [n \in 1..(k + 1) |-> Here(g, n)]
    BY <2>4, <2>5
  <2>7. WalkFunction(g, k + 1, stop, base, left, hash, side)
    BY <2>6 DEF WalkFunction, Here
  <2> QED BY <2>7
<1> HIDE DEF T
<1>4. 0..m \subseteq T
  BY <1>2, <1>3, NatUpTo
<1>5. m \in T
  BY <1>4
<1> QED BY <1>5 DEF T

\* Roots is what its equation says.
LEMMA RootsIs ==
  ASSUME NEW d, Len(d) \in Nat, NEW a \in Nat
  PROVE  /\ Roots(d)[0][a] = EmptyHash
         /\ Len(d) > 0 => Roots(d)[1][a] = d[a + 1]
         /\ \A n \in 2..Len(d) :
              Roots(d)[n][a] = NodeHash(Roots(d)[Split(n)][a],
                                        Roots(d)[n - Split(n)][a + Split(n)])
<1> DEFINE m == Len(d)
           Here(f, n) == [b \in Nat |->
             CASE n = 0 -> EmptyHash
               [] n = 1 -> d[b + 1]
               [] OTHER -> NodeHash(f[Split(n)][b], f[n - Split(n)][b + Split(n)])]
           stop == {0, 1} \X Nat
           base == [n \in Nat |-> [b \in Nat |-> IF n = 0 THEN EmptyHash ELSE d[b + 1]]]
<1>1. PICK f : TreeFunction(f, m, stop, base)
  <2>1. \A n \in {0, 1}, b \in Nat : <<n, b>> \in stop
    OBVIOUS
  <2> HIDE DEF stop, base
  <2> QED BY <2>1, TreeFunctionExists
<1>2. ASSUME NEW n \in 0..m PROVE f[n] = Here(f, n)
  <2>1. f[n] = [b \in Nat |->
          IF <<n, b>> \in stop THEN base[n][b]
          ELSE NodeHash(f[Split(n)][b], f[n - Split(n)][b + Split(n)])]
    BY <1>1 DEF TreeFunction
  <2>2. \A b \in Nat : /\ <<n, b>> \in stop <=> n <= 1
                       /\ base[n][b] = IF n = 0 THEN EmptyHash ELSE d[b + 1]
    OBVIOUS
  <2> HIDE DEF stop, base
  <2>3. CASE n = 0
    BY <2>1, <2>2, <2>3
  <2>4. CASE n = 1
    BY <2>1, <2>2, <2>4
  <2>5. CASE n > 1
    BY <2>1, <2>2, <2>5
  <2> QED BY <2>3, <2>4, <2>5
<1>3. f = [n \in 0..m |-> Here(f, n)]
  <2>1. f = [n \in 0..m |-> f[n]]
    BY <1>1 DEF TreeFunction
  <2> HIDE DEF Here
  <2> QED BY <1>2, <2>1
<1>4. Roots(d) = [n \in 0..m |-> Here(Roots(d), n)]
  <2>1. \E g : g = [n \in 0..m |-> Here(g, n)]
    BY <1>3
  <2> DEFINE R == CHOOSE g : g = [n \in 0..m |-> Here(g, n)]
  <2>2. R = [n \in 0..m |-> Here(R, n)]
    BY <2>1
  <2>3. Roots(d) = R
    BY DEF Roots
  <2> HIDE DEF R, Here, m
  <2> QED BY <2>2, <2>3
<1>5. \A n \in 0..m : Roots(d)[n] = Here(Roots(d), n)
  <2> HIDE DEF Here
  <2> QED BY <1>4
<1>6. Roots(d)[0][a] = EmptyHash
  <2>1. Roots(d)[0] = Here(Roots(d), 0)
    <3> HIDE DEF Here
    <3> QED BY <1>5
  <2> QED BY <2>1
<1>7. ASSUME Len(d) > 0 PROVE Roots(d)[1][a] = d[a + 1]
  <2>1. Roots(d)[1] = Here(Roots(d), 1)
    <3> HIDE DEF Here
    <3> QED BY <1>5, <1>7
  <2> QED BY <2>1
<1>8. ASSUME NEW n \in 2..Len(d)
      PROVE  Roots(d)[n][a] = NodeHash(Roots(d)[Split(n)][a],
                                       Roots(d)[n - Split(n)][a + Split(n)])
  <2>1. Roots(d)[n] = Here(Roots(d), n) /\ n # 0 /\ n # 1
    BY <1>5, <1>8
  <2> QED BY <2>1
<1> QED BY <1>6, <1>7, <1>8

----------------------------------------------------------------------------
(* The trees of the log, node by node.  The tree of the first n entries has, at *)
(* level j, the nodes 0..Up(n - 1, j), each over 2^j entries, the last of them  *)
(* over what is left.                                                           *)

\* The entries under node p of level j ...
Under(n, j, p) ==
  IF n - Pow2[j] * p < Pow2[j] THEN n - Pow2[j] * p ELSE Pow2[j]

\* ... and its hash.
NodeAt(n, j, p) == Roots(log)[Under(n, j, p)][Pow2[j] * p]

\* The log has Size entries.
LEMMA LogFacts ==
  /\ Size \in Nat /\ log \in Seq({LeafHash(i) : i \in 1..Size}) /\ Len(log) = Size
  /\ \A i \in 1..Size : log[i] = LeafHash(i)
BY MerkleAssumption DEF log

\* The equation of Roots for the log.
LEMMA LogRoots ==
  ASSUME NEW a \in Nat
  PROVE  /\ Roots(log)[0][a] = EmptyHash
         /\ Size > 0 => Roots(log)[1][a] = log[a + 1]
         /\ \A n \in 2..Size :
              Roots(log)[n][a] = NodeHash(Roots(log)[Split(n)][a],
                                          Roots(log)[n - Split(n)][a + Split(n)])
<1>1. Len(log) \in Nat /\ Len(log) = Size
  BY LogFacts
<1> HIDE DEF log
<1> QED BY <1>1, RootsIs

\* A node has two children, or the last one of its level only one, whose hash it is.
LEMMA NodeUp ==
  ASSUME NEW n \in 1..Size, NEW j \in Nat, NEW p \in Nat, p <= Up(n - 1, j + 1)
  PROVE  NodeAt(n, j + 1, p) =
           IF 2 * p < Up(n - 1, j) THEN NodeHash(NodeAt(n, j, 2 * p), NodeAt(n, j, 2 * p + 1))
           ELSE NodeAt(n, j, 2 * p)
<1> DEFINE w == Pow2[j]
           u == Up(n - 1, j)
           lo == w * (2 * p)
<1>1. n \in Nat /\ n - 1 \in Nat /\ Size \in Nat /\ n <= Size
  BY LogFacts
<1>2. w \in Nat \ {0} /\ Pow2[j + 1] = 2 * w
  BY Pow2Is, Pow2Facts
<1>3. u \in Nat /\ Up(n - 1, j + 1) = u \div 2 /\ w * u <= n - 1 /\ n - 1 < w * (u + 1)
  BY <1>1, UpFacts
<1> HIDE DEF w, u
<1>4. 2 * p <= u
  BY <1>3
<1>5. lo \in Nat /\ (2 * w) * p = lo /\ w * (2 * p + 1) = lo + w
  BY <1>2
<1>6. lo <= n - 1
  <2>1. w * (2 * p) <= w * u /\ w * u \in Nat
    BY <1>2, <1>3, <1>4, TimesMono
  <2> QED BY <1>1, <1>3, <1>5, <2>1
<1>7. CASE 2 * p < u
  <2>1. lo + w <= n - 1
    <3>1. w * (2 * p + 1) <= w * u /\ w * u \in Nat
      <4>1. 2 * p + 1 \in Nat /\ 2 * p + 1 <= u
        BY <1>3, <1>7
      <4> QED BY <1>2, <1>3, <4>1, TimesMono
    <3> QED BY <1>1, <1>2, <1>3, <1>5, <3>1
  <2> DEFINE c == Under(n, j + 1, p)
  <2>2. c \in Nat /\ w < c /\ c <= 2 * w /\ c <= n
        /\ c = IF n - lo < 2 * w THEN n - lo ELSE 2 * w
    <3> HIDE DEF lo
    <3> QED BY <1>1, <1>2, <1>5, <1>6, <2>1 DEF Under
  <2>3. Under(n, j, 2 * p) = w /\ Under(n, j, 2 * p + 1) = c - w
    <3>1. Under(n, j, 2 * p) = IF n - lo < w THEN n - lo ELSE w
      BY DEF Under, w
    <3>2. Under(n, j, 2 * p + 1) = IF n - (lo + w) < w THEN n - (lo + w) ELSE w
      BY <1>5 DEF Under, w
    <3> HIDE DEF lo, c
    <3> QED BY <1>1, <1>2, <1>5, <2>1, <2>2, <3>1, <3>2
  <2> HIDE DEF c
  <2>4. Split(c) = w
    BY <2>2, SplitIs DEF w
  <2>5. Roots(log)[c][lo] = NodeHash(Roots(log)[w][lo], Roots(log)[c - w][lo + w])
    <3>1. c \in 2..Size
      BY <1>1, <1>2, <2>2
    <3> HIDE DEF lo
    <3> QED BY <1>5, <2>4, <3>1, LogRoots
  <2>6. NodeAt(n, j + 1, p) = Roots(log)[c][lo]
    BY <1>2, <1>5 DEF NodeAt, c
  <2>7. NodeAt(n, j, 2 * p) = Roots(log)[w][lo]
    BY <2>3 DEF NodeAt, w
  <2>8. NodeAt(n, j, 2 * p + 1) = Roots(log)[c - w][lo + w]
    BY <1>5, <2>3 DEF NodeAt, w
  <2> QED BY <1>7, <2>5, <2>6, <2>7, <2>8 DEF u
<1>8. CASE ~(2 * p < u)
  <2>1. n - 1 < lo + w
    <3>1. u = 2 * p
      BY <1>3, <1>4, <1>8
    <3> QED BY <1>3, <1>5, <3>1
  <2>2. Under(n, j + 1, p) = n - lo
    <3> HIDE DEF lo
    <3> QED BY <1>1, <1>2, <1>5, <1>6, <2>1 DEF Under
  <2>3. Under(n, j, 2 * p) = n - lo
    <3>1. Under(n, j, 2 * p) = IF n - lo < w THEN n - lo ELSE w
      BY DEF Under, w
    <3> HIDE DEF lo
    <3> QED BY <1>1, <1>2, <1>5, <1>6, <2>1, <3>1
  <2>4. NodeAt(n, j + 1, p) = Roots(log)[n - lo][lo]
    BY <1>2, <1>5, <2>2 DEF NodeAt
  <2>5. NodeAt(n, j, 2 * p) = Roots(log)[n - lo][lo]
    BY <2>3 DEF NodeAt, w
  <2> QED BY <1>8, <2>4, <2>5 DEF u
<1> QED BY <1>7, <1>8

\* The lowest level holds the entries, and a level of one node the root.
LEMMA NodeEnds ==
  ASSUME NEW n \in 1..Size
  PROVE  /\ \A p \in 0..(n - 1) : NodeAt(n, 0, p) = log[p + 1]
         /\ \A j \in Nat : Up(n - 1, j) = 0 => NodeAt(n, j, 0) = Roots(log)[n][0]
<1>1. n \in Nat /\ n - 1 \in Nat /\ Size \in Nat /\ n <= Size /\ Size > 0
  BY LogFacts
<1>2. ASSUME NEW p \in 0..(n - 1) PROVE NodeAt(n, 0, p) = log[p + 1]
  <2>1. Under(n, 0, p) = 1 /\ Pow2[0] * p = p
    BY <1>1, Pow2Is DEF Under
  <2>2. Roots(log)[1][p] = log[p + 1]
    BY <1>1, LogRoots
  <2> QED BY <2>1, <2>2 DEF NodeAt
<1>3. ASSUME NEW j \in Nat, Up(n - 1, j) = 0 PROVE NodeAt(n, j, 0) = Roots(log)[n][0]
  <2> DEFINE w == Pow2[j]
  <2>1. w \in Nat \ {0}
    BY Pow2Facts
  <2>2. n - 1 < w
    <3>1. n - 1 < Pow2[j] * (Up(n - 1, j) + 1)
      BY <1>1, UpFacts
    <3> QED BY <1>3, <2>1, <3>1
  <2> HIDE DEF w
  <2>3. w * 0 = 0 /\ (IF n - w * 0 < w THEN n - w * 0 ELSE w) = n
    BY <1>1, <2>1, <2>2
  <2> QED BY <2>3 DEF NodeAt, Under, w
<1> QED BY <1>2, <1>3

\* What the node above place m of level j is made of.
LEMMA Parent ==
  ASSUME NEW n \in 1..Size, NEW m \in 0..(n - 1), NEW j \in Nat
  PROVE  LET p == Up(m, j) IN
         /\ p \in Nat /\ p <= Up(n - 1, j)
         /\ Odd(p) => /\ p - 1 \in Nat
                      /\ NodeAt(n, j + 1, Up(m, j + 1)) = NodeHash(NodeAt(n, j, p - 1), NodeAt(n, j, p))
         /\ ~Odd(p) => NodeAt(n, j + 1, Up(m, j + 1)) =
                         IF p = Up(n - 1, j) THEN NodeAt(n, j, p)
                         ELSE NodeHash(NodeAt(n, j, p), NodeAt(n, j, p + 1))
<1> DEFINE p == Up(m, j)
           q == Up(m, j + 1)
           u == Up(n - 1, j)
<1>1. n - 1 \in Nat /\ m \in Nat /\ m <= n - 1
  BY LogFacts
<1>2. p \in Nat /\ q = p \div 2 /\ u \in Nat /\ Up(n - 1, j + 1) = u \div 2
  BY <1>1, UpFacts
<1>3. p <= u /\ q <= Up(n - 1, j + 1)
  <2>1. Pow2[j] \in Nat \ {0} /\ Pow2[j + 1] \in Nat \ {0}
    BY Pow2Facts
  <2> QED BY <1>1, <2>1, DivMono DEF Up
<1> HIDE DEF p, q, u
<1>4. NodeAt(n, j + 1, q) =
        IF 2 * q < u THEN NodeHash(NodeAt(n, j, 2 * q), NodeAt(n, j, 2 * q + 1))
        ELSE NodeAt(n, j, 2 * q)
  <2>1. q \in Nat
    BY <1>2
  <2> QED BY <1>3, <2>1, NodeUp DEF u
<1>5. CASE Odd(p)
  <2>1. p = 2 * q + 1 /\ p - 1 = 2 * q /\ 2 * q < u
    BY <1>2, <1>3, <1>5 DEF Odd
  <2>2. p - 1 \in Nat
    BY <1>2, <2>1
  <2> QED BY <1>2, <1>3, <1>4, <1>5, <2>1, <2>2 DEF p, q, u
<1>6. CASE ~Odd(p)
  <2>1. p = 2 * q /\ (2 * q < u <=> p # u)
    BY <1>2, <1>3, <1>6 DEF Odd
  <2> QED BY <1>2, <1>3, <1>4, <1>6, <2>1 DEF p, q, u
<1> QED BY <1>5, <1>6

----------------------------------------------------------------------------
(* The way up that the verifiers take. *)

\* Halving a number with k trailing zeros gives even numbers, and then an odd one.
LEMMA Halving ==
  ASSUME NEW k \in Nat, NEW y \in Nat, Odd(y)
  PROVE  /\ \A i \in 0..(k - 1) : ~Odd((Pow2[k] * y) \div Pow2[i])
         /\ \A i \in 0..k : (Pow2[k] * y) \div Pow2[i] = Pow2[k - i] * y
         /\ (Pow2[k] * y) \div Pow2[k] = y
<1> DEFINE x == Pow2[k] * y
<1>1. ASSUME NEW i \in 0..k PROVE x \div Pow2[i] = Pow2[k - i] * y
  <2>1. i \in Nat /\ k - i \in Nat /\ i + (k - i) = k
    OBVIOUS
  <2>2. Pow2[i] \in Nat \ {0} /\ Pow2[k - i] \in Nat
    BY <2>1, Pow2Facts
  <2>3. Pow2[k] = Pow2[i] * Pow2[k - i]
    BY <2>1, Pow2Add
  <2> DEFINE z == Pow2[k - i] * y
             w == Pow2[i]
  <2>4. z \in Nat
    BY <2>2
  <2>5. x = w * z
    <3>1. (Pow2[i] * Pow2[k - i]) * y = Pow2[i] * (Pow2[k - i] * y)
      BY <2>2
    <3> QED BY <2>3, <3>1
  <2>6. w \in Nat \ {0}
    BY <2>2
  <2> HIDE DEF z, w, x
  <2>7. x \in Nat /\ x = w * z + 0 /\ 0 \in 0..(w - 1)
    BY <2>4, <2>5, <2>6
  <2>8. x \div w = z
    BY <2>4, <2>6, <2>7, QuotientIs
  <2> QED BY <2>8 DEF z, w
<1>2. ASSUME NEW i \in 0..(k - 1) PROVE ~Odd(x \div Pow2[i])
  <2>1. i \in 0..k /\ (k - i - 1) \in Nat /\ (k - i - 1) + 1 = k - i
    OBVIOUS
  <2>2. Pow2[k - i] = 2 * Pow2[k - i - 1] /\ Pow2[k - i - 1] \in Nat
    BY <2>1, Pow2Is
  <2>3. PICK z \in Nat : z = Pow2[k - i - 1] * y
    BY <2>2
  <2>4. Pow2[k - i] * y = 2 * z
    <3>1. (2 * Pow2[k - i - 1]) * y = 2 * (Pow2[k - i - 1] * y)
      BY <2>2
    <3> QED BY <2>2, <2>3, <3>1
  <2>5. x \div Pow2[i] = 2 * z
    BY <1>1, <2>1, <2>4
  <2>6. ~Odd(2 * z)
    BY <2>3 DEF Odd
  <2> QED BY <2>5, <2>6
<1>3. x \div Pow2[k] = y
  <2>1. k \in 0..k /\ k - k = 0 /\ Pow2[0] * y = y
    BY Pow2Is
  <2> QED BY <1>1, <2>1
<1> QED BY <1>1, <1>2, <1>3

\* From level j on, the last node of k levels has no sibling, and m is in it.
Alone(n, m, j, k) ==
  \A i \in 0..(k - 1) : Up(m, j + i) = Up(n - 1, j + i) /\ ~Odd(Up(m, j + i))

\* The hash is then the same on all these levels.
LEMMA AloneSame ==
  ASSUME NEW n \in 1..Size, NEW m \in 0..(n - 1), NEW j \in Nat, NEW k \in Nat, Alone(n, m, j, k)
  PROVE  NodeAt(n, j + k, Up(m, j + k)) = NodeAt(n, j, Up(m, j))
<1> DEFINE N(i) == NodeAt(n, j + i, Up(m, j + i))
           T == {i \in Nat : N(i) = N(0)}
<1>1. 0 \in T
  OBVIOUS
<1>2. ASSUME NEW i \in 0..(k - 1), i \in T PROVE i + 1 \in T
  <2>1. Up(m, j + i) = Up(n - 1, j + i) /\ ~Odd(Up(m, j + i)) /\ j + i \in Nat
    BY DEF Alone
  <2>2. NodeAt(n, (j + i) + 1, Up(m, (j + i) + 1)) = NodeAt(n, j + i, Up(m, j + i))
    BY <2>1, Parent
  <2>3. (j + i) + 1 = j + (i + 1)
    OBVIOUS
  <2> HIDE DEF N
  <2>4. N(i + 1) = N(i)
    BY <2>2, <2>3 DEF N
  <2> QED BY <1>2, <2>4
<1> HIDE DEF T
<1>3. 0..k \subseteq T
  BY <1>1, <1>2, NatUpTo
<1>4. k \in T
  BY <1>3
<1>5. N(k) = N(0)
  <2> HIDE DEF N
  <2> QED BY <1>4 DEF T
<1>6. j + 0 = j
  OBVIOUS
<1> QED BY <1>5, <1>6

\* A verifier's loop goes up past such levels, to the next one with a sibling: on
\* the left, if m is at an odd place there, and otherwise on the right.
LEMMA RiseTo ==
  ASSUME NEW n \in 1..Size, NEW m \in 0..(n - 1), NEW j \in Nat, NEW s,
         s.fn = Up(m, j), s.sn = Up(n - 1, j), s.sn # 0
  PROVE  \E k \in Nat :
           /\ Rise(s) = Shift(s, k + 1) /\ Alone(n, m, j, k)
           /\ FromLeft(s) => Odd(Up(m, j + k))
           /\ ~FromLeft(s) => k = 0 /\ ~Odd(Up(m, j)) /\ Up(m, j) # Up(n - 1, j)
<1> DEFINE x == Up(m, j)
           u == Up(n - 1, j)
<1>1. n - 1 \in Nat /\ m \in Nat
  BY LogFacts
<1>2. x \in Nat /\ u \in Nat /\ u # 0
  BY <1>1, UpFacts
<1>3. s.fn = x /\ s.sn = u
  OBVIOUS
<1>4. \A i \in Nat : Up(m, j + i) = x \div Pow2[i] /\ Up(n - 1, j + i) = u \div Pow2[i]
  <2>1. \A i \in Nat : Up(m, j + i) = Up(m, j) \div Pow2[i]
    BY <1>1, UpFacts
  <2>2. \A i \in Nat : Up(n - 1, j + i) = Up(n - 1, j) \div Pow2[i]
    BY <1>1, UpFacts
  <2> QED BY <2>1, <2>2
<1> HIDE DEF x, u
<1>5. CASE x = u /\ ~Odd(x)
  <2>1. PICK k \in Nat, y \in Nat : x = Pow2[k] * y /\ Odd(y)
    BY <1>2, <1>5, OddPart
  <2>2. TrailingZeros(x) = k
    BY <2>1, TrailingZerosIs
  <2>3. FromLeft(s) /\ Rise(s) = Shift(s, k + 1)
    BY <1>2, <1>3, <1>5, <2>2 DEF FromLeft, Rise
  <2>4. /\ \A i \in 0..(k - 1) : ~Odd(x \div Pow2[i])
        /\ x \div Pow2[k] = y
    BY <2>1, Halving
  <2>5. Alone(n, m, j, k)
    <3>1. \A i \in 0..(k - 1) : i \in Nat /\ Up(m, j + i) = x \div Pow2[i] /\ Up(n - 1, j + i) = x \div Pow2[i]
      BY <1>4, <1>5
    <3> QED BY <2>4, <3>1 DEF Alone
  <2>6. Odd(Up(m, j + k))
    BY <1>4, <2>1, <2>4
  <2> QED BY <2>3, <2>5, <2>6
<1>6. CASE ~(x = u /\ ~Odd(x))
  <2>1. Rise(s) = Shift(s, 0 + 1)
    BY <1>3, <1>6 DEF FromLeft, Rise
  <2>2. Alone(n, m, j, 0) /\ j + 0 = j
    BY DEF Alone
  <2>3. FromLeft(s) <=> Odd(x)
    BY <1>3, <1>6 DEF FromLeft
  <2>4. ~Odd(x) => x # u
    BY <1>6
  <2> QED BY <2>1, <2>2, <2>3, <2>4 DEF x, u
<1> QED BY <1>5, <1>6

----------------------------------------------------------------------------
(* Loops: those of the verifiers, and the levels of stored hashes. *)

StoredAbove(below) ==
  [i \in Nat |-> Root([j \in 1..Pow2[H] |-> below[i * Pow2[H] + j - 1]])]

OneStep(kind, s, c) ==
  CASE kind = "inclusion" -> InclusionStep(s, c)
    [] kind = "consistency" -> ConsistencyStep(s, c)
    [] OTHER -> StoredAbove(s)

\* The states of a loop over the hashes from first + 1 to last ...
LoopFunction(f, kind, path, first, last, start) ==
  f = [i \in first..last |->
        IF i = first THEN start ELSE OneStep(kind, f[i - 1], path[i])]

\* ... exist, ...
LEMMA LoopExists ==
  ASSUME NEW kind, NEW path, NEW start, NEW first \in Nat, NEW last \in Nat, first <= last
  PROVE  \E f : LoopFunction(f, kind, path, first, last, start)
<1> DEFINE Here(f, i) == IF i = first THEN start ELSE OneStep(kind, f[i - 1], path[i])
           P(k) == \E f : LoopFunction(f, kind, path, first, first + k, start)
           T == {k \in Nat : P(k)}
           m == last - first
<1>1. 0 \in T
  <2> DEFINE f == [i \in first..(first + 0) |-> start]
  <2>1. LoopFunction(f, kind, path, first, first + 0, start)
    BY DEF LoopFunction
  <2> QED BY <2>1
<1>2. ASSUME NEW k \in 0..(m - 1), k \in T PROVE k + 1 \in T
  <2>1. PICK f : LoopFunction(f, kind, path, first, first + k, start)
    BY <1>2
  <2> DEFINE e == first + k + 1
             g == [i \in first..e |-> IF i = e THEN Here(f, i) ELSE f[i]]
  <2>2. \A i \in first..(first + k) : g[i] = f[i] /\ f[i] = Here(f, i)
    <3>1. f = [i \in first..(first + k) |-> Here(f, i)]
      BY <2>1 DEF LoopFunction
    <3>2. \A i \in first..(first + k) : i \in first..e /\ i # e
      OBVIOUS
    <3> HIDE DEF Here, e
    <3> QED BY <3>1, <3>2
  <2>3. g[e] = Here(f, e) /\ e \in Nat
    OBVIOUS
  <2>4. g = [i \in first..e |-> g[i]]
    OBVIOUS
  <2> HIDE DEF g
  <2>5. ASSUME NEW i \in first..e PROVE g[i] = Here(g, i)
    <3>1. CASE i = first
      <4>1. i \in first..(first + k)
        BY <3>1
      <4> QED BY <2>2, <3>1, <4>1
    <3>2. CASE i # first
      <4>1. i - 1 \in first..(first + k)
        BY <3>2
      <4>2. Here(g, i) = Here(f, i)
        BY <2>2, <3>2, <4>1
      <4>3. i = e \/ i \in first..(first + k)
        OBVIOUS
      <4> HIDE DEF Here, e
      <4> QED BY <2>2, <2>3, <4>2, <4>3
    <3> QED BY <3>1, <3>2
  <2> HIDE DEF Here
  <2>6. g = [i \in first..e |-> Here(g, i)]
    BY <2>4, <2>5
  <2>7. LoopFunction(g, kind, path, first, e, start)
    BY <2>6 DEF LoopFunction, Here
  <2>8. e = first + (k + 1)
    OBVIOUS
  <2> HIDE DEF e
  <2>9. P(k + 1)
    BY <2>7, <2>8
  <2> HIDE DEF P
  <2> QED BY <2>9
<1> HIDE DEF P
<1>3. m \in Nat
  OBVIOUS
<1> HIDE DEF T
<1>4. 0..m \subseteq T
  <2> HIDE DEF m
  <2> QED BY <1>1, <1>2, <1>3, NatUpTo
<1>5. P(m)
  BY <1>3, <1>4 DEF T
<1>6. first + m = last
  OBVIOUS
<1> QED BY <1>5, <1>6 DEF P

\* ... one after the other, ...
LEMMA LoopIs ==
  ASSUME NEW f, NEW kind, NEW path, NEW start, NEW first \in Nat, NEW last \in Nat,
         first <= last, LoopFunction(f, kind, path, first, last, start)
  PROVE  /\ f[first] = start
         /\ \A i \in first..(last - 1) : f[i + 1] = OneStep(kind, f[i], path[i + 1])
<1> DEFINE Here(i) == IF i = first THEN start ELSE OneStep(kind, f[i - 1], path[i])
<1>1. f = [i \in first..last |-> Here(i)]
  BY DEF LoopFunction
<1>2. f[first] = start
  BY <1>1
<1>3. ASSUME NEW i \in first..(last - 1) PROVE f[i + 1] = OneStep(kind, f[i], path[i + 1])
  <2>1. i + 1 \in first..last /\ i + 1 # first /\ (i + 1) - 1 = i
    OBVIOUS
  <2>2. f[i + 1] = Here(i + 1)
    <3> HIDE DEF Here
    <3> QED BY <1>1, <2>1
  <2> QED BY <2>1, <2>2
<1> QED BY <1>2, <1>3

\* ... and do not depend on what comes later in the path.
LEMMA LoopsAgree ==
  ASSUME NEW f, NEW g, NEW kind, NEW path, NEW longer, NEW start,
         NEW first \in Nat, NEW last \in Nat, NEW later \in Nat, first <= last, last <= later,
         LoopFunction(f, kind, path, first, last, start),
         LoopFunction(g, kind, longer, first, later, start),
         \A i \in (first + 1)..last : path[i] = longer[i]
  PROVE  f[last] = g[last]
<1> DEFINE T == {k \in Nat : f[first + k] = g[first + k]}
           m == last - first
<1>1. /\ f[first] = start
      /\ \A i \in first..(last - 1) : f[i + 1] = OneStep(kind, f[i], path[i + 1])
  BY LoopIs
<1>2. /\ g[first] = start
      /\ \A i \in first..(later - 1) : g[i + 1] = OneStep(kind, g[i], longer[i + 1])
  <2>1. first <= later
    OBVIOUS
  <2> HIDE DEF T, m
  <2>2. g[first] = start
    BY <2>1 DEF LoopFunction
  <2>3. ASSUME NEW i \in first..(later - 1)
        PROVE  g[i + 1] = OneStep(kind, g[i], longer[i + 1])
    BY <2>1, LoopIs
  <2> QED BY <2>2, <2>3
<1>3. 0 \in T
  <2>1. first + 0 = first
    OBVIOUS
  <2> QED BY <1>1, <1>2, <2>1
<1>4. ASSUME NEW k \in 0..(m - 1), k \in T PROVE k + 1 \in T
  <2> DEFINE i == first + k
  <2>1. i \in first..(last - 1) /\ i \in first..(later - 1) /\ i + 1 \in (first + 1)..last
        /\ i + 1 = first + (k + 1)
    OBVIOUS
  <2>2. f[i] = g[i]
    BY <1>4
  <2> HIDE DEF i
  <2>3. f[i + 1] = g[i + 1]
    BY <1>1, <1>2, <2>1, <2>2
  <2> QED BY <2>1, <2>3
<1> HIDE DEF T
<1>5. 0..m \subseteq T
  <2>1. m \in Nat
    OBVIOUS
  <2> HIDE DEF m
  <2> QED BY <1>3, <1>4, <2>1, NatUpTo
<1>6. m \in T /\ first + m = last
  BY <1>5
<1> QED BY <1>6 DEF T

----------------------------------------------------------------------------
(* Inclusion. *)

InclusionStart(leaf, index, size) == [fn |-> index, sn |-> size - 1, r |-> leaf, valid |-> TRUE]

\* The verifier at level j.
InclusionAt(s, n, m, j) ==
  s = [fn |-> Up(m, j), sn |-> Up(n - 1, j), r |-> s.r, valid |-> s.valid]

\* The verifier's end is that of a loop.
LEMMA InclusionLoop ==
  ASSUME NEW leaf, NEW index, NEW size, NEW path, Len(path) \in Nat
  PROVE  \E f : /\ LoopFunction(f, "inclusion", path, 0, Len(path), InclusionStart(leaf, index, size))
                /\ InclusionEnd(leaf, index, size, path) = f[Len(path)]
<1> DEFINE start == [fn |-> index, sn |-> size - 1, r |-> leaf, valid |-> TRUE]
           m == Len(path)
           P(f) == f = [i \in 0..m |-> IF i = 0 THEN start ELSE InclusionStep(f[i - 1], path[i])]
           R == CHOOSE f : P(f)
<1>1. \A f : LoopFunction(f, "inclusion", path, 0, m, start) <=> P(f)
  BY DEF LoopFunction, OneStep
<1>2. \E f : LoopFunction(f, "inclusion", path, 0, m, start)
  <2>1. m \in Nat /\ 0 \in Nat /\ 0 <= m
    OBVIOUS
  <2> HIDE DEF m, start
  <2> QED BY <2>1, LoopExists
<1>3. InclusionEnd(leaf, index, size, path) = R[m]
  BY DEF InclusionEnd
<1> HIDE DEF P, m
<1>4. P(R)
  BY <1>1, <1>2
<1> HIDE DEF R
<1> QED BY <1>1, <1>3, <1>4 DEF InclusionStart, m

\* A step of the verifier that goes up past k levels without a sibling to the next.
InclusionUp(s, c, t, n, m, j, k) ==
  /\ Alone(n, m, j, k)
  /\ InclusionAt(t, n, m, j + (k + 1)) /\ t.valid = s.valid
  /\ \/ Odd(Up(m, j + k)) /\ t.r = NodeHash(c, s.r)
     \/ /\ k = 0 /\ ~Odd(Up(m, j)) /\ Up(m, j) # Up(n - 1, j)
        /\ t.r = NodeHash(s.r, c)

\* What a step of the verifier does: past the end it fails; otherwise it goes up to
\* where there is a sibling, the next hash of the path, and to their parent.
LEMMA InclusionMove ==
  ASSUME NEW n \in 1..Size, NEW m \in 0..(n - 1), NEW j \in Nat, NEW s, NEW c, NEW t,
         InclusionAt(s, n, m, j), t = InclusionStep(s, c)
  PROVE  /\ Up(n - 1, j) = 0 => InclusionAt(t, n, m, j) /\ t.r = s.r /\ ~t.valid
         /\ Up(n - 1, j) # 0 =>
              \E k \in Nat : InclusionUp(s, c, t, n, m, j, k)
<1>1. s.fn = Up(m, j) /\ s.sn = Up(n - 1, j)
  BY DEF InclusionAt
<1>2. ASSUME Up(n - 1, j) = 0 PROVE InclusionAt(t, n, m, j) /\ t.r = s.r /\ ~t.valid
  <2>1. t = [s EXCEPT !.valid = FALSE]
    BY <1>1, <1>2 DEF InclusionStep
  <2> DEFINE A == Up(m, j)
             B == Up(n - 1, j)
  <2>2. s = [fn |-> A, sn |-> B, r |-> s.r, valid |-> s.valid]
    BY DEF InclusionAt
  <2> DEFINE v == FALSE
  <2>3. t = [s EXCEPT !.valid = v]
    BY <2>1
  <2> HIDE DEF A, B, v
  <2>4. t = [fn |-> A, sn |-> B, r |-> s.r, valid |-> v]
    BY <2>2, <2>3
  <2>5. t.r = s.r /\ t.valid = v
    BY <2>4
  <2>6. InclusionAt(t, n, m, j)
    BY <2>4, <2>5 DEF InclusionAt, A, B
  <2> QED BY <2>5, <2>6 DEF v
<1>3. ASSUME Up(n - 1, j) # 0
      PROVE  \E k \in Nat : InclusionUp(s, c, t, n, m, j, k)
  <2>1. PICK k \in Nat :
           /\ Rise(s) = Shift(s, k + 1) /\ Alone(n, m, j, k)
           /\ FromLeft(s) => Odd(Up(m, j + k))
           /\ ~FromLeft(s) => k = 0 /\ ~Odd(Up(m, j)) /\ Up(m, j) # Up(n - 1, j)
    BY <1>1, <1>3, RiseTo
  <2> DEFINE A == Up(m, j + (k + 1))
             B == Up(n - 1, j + (k + 1))
             h == IF FromLeft(s) THEN NodeHash(c, s.r) ELSE NodeHash(s.r, c)
  <2>2. Shift(s, k + 1) = [fn |-> A, sn |-> B, r |-> s.r, valid |-> s.valid]
    <3>1. A = Up(m, j) \div Pow2[k + 1] /\ B = Up(n - 1, j) \div Pow2[k + 1]
      <4> DEFINE i == k + 1
      <4>1. m \in Nat /\ n - 1 \in Nat /\ i \in Nat
        BY LogFacts
      <4> HIDE DEF i
      <4>2. Up(m, j + i) = Up(m, j) \div Pow2[i]
        BY <4>1, UpFacts
      <4>3. Up(n - 1, j + i) = Up(n - 1, j) \div Pow2[i]
        BY <4>1, UpFacts
      <4> QED BY <4>2, <4>3 DEF i
    <3> DEFINE w == Pow2[k + 1]
               A0 == Up(m, j)
               B0 == Up(n - 1, j)
    <3>2. s = [fn |-> A0, sn |-> B0, r |-> s.r, valid |-> s.valid]
      BY DEF InclusionAt
    <3>3. Shift(s, k + 1) = [s EXCEPT !.fn = s.fn \div w, !.sn = s.sn \div w]
      BY DEF Shift
    <3> HIDE DEF A, B, w, A0, B0
    <3>4. s.fn \div w = A /\ s.sn \div w = B
      BY <1>1, <3>1 DEF w
    <3>5. Shift(s, k + 1) = [s EXCEPT !.fn = A, !.sn = B]
      BY <3>3, <3>4
    <3> QED BY <3>2, <3>5
  <2>3. t = [Rise(s) EXCEPT !.r = IF FromLeft(s) THEN NodeHash(c, @) ELSE NodeHash(@, c)]
    BY <1>1, <1>3 DEF InclusionStep
  <2> HIDE DEF A, B, h
  <2>4. t = [fn |-> A, sn |-> B, r |-> h, valid |-> s.valid]
    BY <2>1, <2>2, <2>3 DEF h
  <2>5. t.r = h /\ t.valid = s.valid
    BY <2>4
  <2>6. InclusionAt(t, n, m, j + (k + 1))
    BY <2>4, <2>5 DEF InclusionAt, A, B
  <2>7. InclusionUp(s, c, t, n, m, j, k)
    BY <2>1, <2>5, <2>6 DEF InclusionUp, h
  <2> QED BY <2>7
<1> QED BY <1>2, <1>3

\* If the hash a step comes to is the tree's, then so is the one it starts from.
LEMMA InclusionBack ==
  ASSUME NEW n \in 1..Size, NEW m \in 0..(n - 1), NEW j \in Nat, NEW s, NEW c, NEW t,
         InclusionAt(s, n, m, j), t = InclusionStep(s, c)
  PROVE  \E i \in Nat :
           /\ InclusionAt(t, n, m, i)
           /\ t.valid /\ t.r = NodeAt(n, i, Up(m, i)) => s.valid /\ s.r = NodeAt(n, j, Up(m, j))
<1>1. CASE Up(n - 1, j) = 0
  <2>1. InclusionAt(t, n, m, j) /\ ~t.valid
    BY <1>1, InclusionMove
  <2> QED BY <2>1
<1>2. CASE Up(n - 1, j) # 0
  <2>0. PICK k \in Nat : InclusionUp(s, c, t, n, m, j, k)
    BY <1>2, InclusionMove
  <2>1. /\ Alone(n, m, j, k)
        /\ InclusionAt(t, n, m, j + (k + 1)) /\ t.valid = s.valid
        /\ \/ Odd(Up(m, j + k)) /\ t.r = NodeHash(c, s.r)
           \/ /\ k = 0 /\ ~Odd(Up(m, j)) /\ Up(m, j) # Up(n - 1, j)
              /\ t.r = NodeHash(s.r, c)
    BY <2>0 DEF InclusionUp
  <2>2. NodeAt(n, j + k, Up(m, j + k)) = NodeAt(n, j, Up(m, j))
    BY <2>1, AloneSame
  <2>3. j + k \in Nat /\ (j + k) + 1 = j + (k + 1) /\ j + (k + 1) \in Nat /\ j + 1 \in Nat
    OBVIOUS
  <2>4. CASE Odd(Up(m, j + k)) /\ t.r = NodeHash(c, s.r)
    <3>1. NodeAt(n, j + (k + 1), Up(m, j + (k + 1))) =
            NodeHash(NodeAt(n, j + k, Up(m, j + k) - 1), NodeAt(n, j + k, Up(m, j + k)))
      <4>1. NodeAt(n, (j + k) + 1, Up(m, (j + k) + 1)) =
              NodeHash(NodeAt(n, j + k, Up(m, j + k) - 1), NodeAt(n, j + k, Up(m, j + k)))
        BY <2>3, <2>4, Parent
      <4> QED BY <2>3, <4>1
    <3>2. t.r = NodeAt(n, j + (k + 1), Up(m, j + (k + 1))) => s.r = NodeAt(n, j, Up(m, j))
      BY <2>2, <2>4, <3>1 DEF NodeHash
    <3> QED BY <2>1, <2>3, <3>2
  <2>5. CASE /\ k = 0 /\ ~Odd(Up(m, j)) /\ Up(m, j) # Up(n - 1, j)
             /\ t.r = NodeHash(s.r, c)
    <3>1. NodeAt(n, j + 1, Up(m, j + 1)) =
            NodeHash(NodeAt(n, j, Up(m, j)), NodeAt(n, j, Up(m, j) + 1))
      BY <2>5, Parent
    <3>2. t.r = NodeAt(n, j + 1, Up(m, j + 1)) => s.r = NodeAt(n, j, Up(m, j))
      BY <2>5, <3>1 DEF NodeHash
    <3>3. j + (k + 1) = j + 1
      BY <2>5
    <3> QED BY <2>1, <2>3, <3>2, <3>3
  <2> QED BY <2>1, <2>4, <2>5
<1> QED BY <1>1, <1>2

\* An accepted path shows the entry of the index.
LEMMA InclusionIsSound ==
  ASSUME NEW n \in 1..Size, NEW m \in 0..(n - 1), NEW leaf, NEW path, Len(path) \in Nat,
         VerifyInclusion(leaf, m, n, path, Roots(log)[n][0])
  PROVE  leaf = log[m + 1]
<1> DEFINE last == Len(path)
<1>1. n - 1 \in Nat /\ m \in Nat /\ n \in Nat /\ last \in Nat
  BY LogFacts
<1>2. PICK f : /\ LoopFunction(f, "inclusion", path, 0, last, InclusionStart(leaf, m, n))
               /\ InclusionEnd(leaf, m, n, path) = f[last]
  BY InclusionLoop
<1> HIDE DEF last
<1>3. f[0] = InclusionStart(leaf, m, n)
  BY <1>1, <1>2 DEF LoopFunction
<1>4. \A i \in 0..(last - 1) : f[i + 1] = InclusionStep(f[i], path[i + 1])
  BY <1>1, <1>2, LoopIs DEF OneStep
<1> DEFINE Q(s) == \E j \in Nat :
             /\ InclusionAt(s, n, m, j)
             /\ s.valid /\ s.r = NodeAt(n, j, Up(m, j)) => leaf = log[m + 1]
           T == {i \in Nat : Q(f[i])}
<1>5. 0 \in T
  <2>1. f[0] = [fn |-> Up(m, 0), sn |-> Up(n - 1, 0), r |-> leaf, valid |-> TRUE]
    BY <1>1, <1>3, UpFacts DEF InclusionStart
  <2>2. NodeAt(n, 0, Up(m, 0)) = log[m + 1]
    BY <1>1, UpFacts, NodeEnds
  <2>3. InclusionAt(f[0], n, m, 0) /\ f[0].r = leaf
    BY <2>1 DEF InclusionAt
  <2>4. Q(f[0])
    BY <2>2, <2>3
  <2> HIDE DEF Q
  <2> QED BY <2>4
<1>6. ASSUME NEW i \in 0..(last - 1), i \in T PROVE i + 1 \in T
  <2>1. PICK s, t, c : s = f[i] /\ t = f[i + 1] /\ t = InclusionStep(s, c)
    BY <1>4
  <2>2. PICK j \in Nat :
             /\ InclusionAt(s, n, m, j)
             /\ s.valid /\ s.r = NodeAt(n, j, Up(m, j)) => leaf = log[m + 1]
    BY <1>6, <2>1
  <2>3. PICK k \in Nat :
           /\ InclusionAt(t, n, m, k)
           /\ t.valid /\ t.r = NodeAt(n, k, Up(m, k)) => s.valid /\ s.r = NodeAt(n, j, Up(m, j))
    <3> HIDE DEF Q, T
    <3> QED BY <2>1, <2>2, InclusionBack
  <2>4. Q(t)
    BY <2>2, <2>3
  <2> HIDE DEF Q
  <2>5. i + 1 \in Nat
    BY <1>1
  <2> QED BY <2>1, <2>4, <2>5
<1> HIDE DEF Q
<1>7. last \in T
  <2> HIDE DEF T
  <2>1. 0..last \subseteq T
    BY <1>1, <1>5, <1>6, NatUpTo
  <2> QED BY <1>1, <2>1
<1>8. PICK j \in Nat :
             /\ InclusionAt(f[last], n, m, j)
             /\ f[last].valid /\ f[last].r = NodeAt(n, j, Up(m, j)) => leaf = log[m + 1]
  BY <1>7 DEF Q
<1> HIDE DEF T
<1>9. f[last].valid /\ f[last].sn = 0 /\ f[last].r = Roots(log)[n][0]
  BY <1>2 DEF VerifyInclusion
<1>10. Up(n - 1, j) = 0
  BY <1>8, <1>9 DEF InclusionAt
<1>11. Up(m, j) = 0
  <2>1. Up(m, j) \in Nat /\ Up(m, j) <= Up(n - 1, j)
    BY Parent
  <2> QED BY <1>10, <2>1
<1>12. NodeAt(n, j, 0) = Roots(log)[n][0]
  BY <1>10, NodeEnds
<1> QED BY <1>8, <1>9, <1>11, <1>12

----------------------------------------------------------------------------
(* Consistency. *)

ConsistencyStart(first, second, x) ==
  Shift([fn |-> first - 1, sn |-> second - 1, fr |-> x, sr |-> x, valid |-> TRUE],
        TrailingZeros(first))

\* The verifier at level j.
ConsistencyAt(s, n, m, j) ==
  s = [fn |-> Up(m, j), sn |-> Up(n - 1, j), fr |-> s.fr, sr |-> s.sr, valid |-> s.valid]

\* The verifier's end is that of a loop.
LEMMA ConsistencyLoop ==
  ASSUME NEW first, NEW second, NEW path, Len(path) \in Nat \ {0}
  PROVE  \E f : /\ LoopFunction(f, "consistency", path, 1, Len(path),
                                ConsistencyStart(first, second, path[1]))
                /\ RootsFromPath(first, second, path) = f[Len(path)]
<1> DEFINE start == Shift([fn |-> first - 1, sn |-> second - 1, fr |-> path[1], sr |-> path[1],
                           valid |-> TRUE], TrailingZeros(first))
           m == Len(path)
           P(f) == f = [i \in 1..m |-> IF i = 1 THEN start ELSE ConsistencyStep(f[i - 1], path[i])]
           R == CHOOSE f : P(f)
<1>1. \A f : LoopFunction(f, "consistency", path, 1, m, start) <=> P(f)
  BY DEF LoopFunction, OneStep
<1>2. \E f : LoopFunction(f, "consistency", path, 1, m, start)
  <2>1. m \in Nat /\ 1 \in Nat /\ 1 <= m
    OBVIOUS
  <2> HIDE DEF m, start
  <2> QED BY <2>1, LoopExists
<1>3. RootsFromPath(first, second, path) = R[m]
  BY DEF RootsFromPath
<1> HIDE DEF P, m
<1>4. P(R)
  BY <1>1, <1>2
<1> HIDE DEF R
<1> QED BY <1>1, <1>3, <1>4 DEF ConsistencyStart, m

\* A step of the verifier that goes up past k levels without a sibling to the next.
ConsistencyUp(s, c, t, n, m, j, k) ==
  /\ Alone(n, m, j, k)
  /\ ConsistencyAt(t, n, m, j + (k + 1)) /\ t.valid = s.valid
  /\ \/ /\ Odd(Up(m, j + k))
        /\ t.fr = NodeHash(c, s.fr) /\ t.sr = NodeHash(c, s.sr)
     \/ /\ k = 0 /\ ~Odd(Up(m, j)) /\ Up(m, j) # Up(n - 1, j)
        /\ t.fr = s.fr /\ t.sr = NodeHash(s.sr, c)

\* What a step of the verifier does: past the end it fails; otherwise it goes up to
\* where there is a sibling in the second tree, the next hash of the path, and to
\* their parent; in the first tree there is one only on the left.
LEMMA ConsistencyMove ==
  ASSUME NEW n \in 1..Size, NEW m \in 0..(n - 1), NEW j \in Nat, NEW s, NEW c, NEW t,
         ConsistencyAt(s, n, m, j), t = ConsistencyStep(s, c)
  PROVE  /\ Up(n - 1, j) = 0 =>
              ConsistencyAt(t, n, m, j) /\ t.fr = s.fr /\ t.sr = s.sr /\ ~t.valid
         /\ Up(n - 1, j) # 0 =>
              \E k \in Nat : ConsistencyUp(s, c, t, n, m, j, k)
<1>1. s.fn = Up(m, j) /\ s.sn = Up(n - 1, j)
  BY DEF ConsistencyAt
<1>2. ASSUME Up(n - 1, j) = 0
      PROVE  ConsistencyAt(t, n, m, j) /\ t.fr = s.fr /\ t.sr = s.sr /\ ~t.valid
  <2>1. t = [s EXCEPT !.valid = FALSE]
    BY <1>1, <1>2 DEF ConsistencyStep
  <2> DEFINE A == Up(m, j)
             B == Up(n - 1, j)
             v == FALSE
  <2>2. s = [fn |-> A, sn |-> B, fr |-> s.fr, sr |-> s.sr, valid |-> s.valid]
    BY DEF ConsistencyAt
  <2>3. t = [s EXCEPT !.valid = v]
    BY <2>1
  <2> HIDE DEF A, B, v
  <2>4. t = [fn |-> A, sn |-> B, fr |-> s.fr, sr |-> s.sr, valid |-> v]
    BY <2>2, <2>3
  <2>5. t.fr = s.fr /\ t.sr = s.sr /\ t.valid = v
    BY <2>4
  <2>6. ConsistencyAt(t, n, m, j)
    BY <2>4, <2>5 DEF ConsistencyAt, A, B
  <2> QED BY <2>5, <2>6 DEF v
<1>3. ASSUME Up(n - 1, j) # 0
      PROVE  \E k \in Nat : ConsistencyUp(s, c, t, n, m, j, k)
  <2>1. PICK k \in Nat :
           /\ Rise(s) = Shift(s, k + 1) /\ Alone(n, m, j, k)
           /\ FromLeft(s) => Odd(Up(m, j + k))
           /\ ~FromLeft(s) => k = 0 /\ ~Odd(Up(m, j)) /\ Up(m, j) # Up(n - 1, j)
    BY <1>1, <1>3, RiseTo
  <2> DEFINE A == Up(m, j + (k + 1))
             B == Up(n - 1, j + (k + 1))
             hf == IF FromLeft(s) THEN NodeHash(c, s.fr) ELSE s.fr
             hs == IF FromLeft(s) THEN NodeHash(c, s.sr) ELSE NodeHash(s.sr, c)
  <2>2. Shift(s, k + 1) = [fn |-> A, sn |-> B, fr |-> s.fr, sr |-> s.sr, valid |-> s.valid]
    <3>1. A = Up(m, j) \div Pow2[k + 1] /\ B = Up(n - 1, j) \div Pow2[k + 1]
      <4> DEFINE i == k + 1
      <4>1. m \in Nat /\ n - 1 \in Nat /\ i \in Nat
        BY LogFacts
      <4> HIDE DEF i
      <4>2. Up(m, j + i) = Up(m, j) \div Pow2[i]
        BY <4>1, UpFacts
      <4>3. Up(n - 1, j + i) = Up(n - 1, j) \div Pow2[i]
        BY <4>1, UpFacts
      <4> QED BY <4>2, <4>3 DEF i
    <3> DEFINE w == Pow2[k + 1]
               A0 == Up(m, j)
               B0 == Up(n - 1, j)
    <3>2. s = [fn |-> A0, sn |-> B0, fr |-> s.fr, sr |-> s.sr, valid |-> s.valid]
      BY DEF ConsistencyAt
    <3>3. Shift(s, k + 1) = [s EXCEPT !.fn = s.fn \div w, !.sn = s.sn \div w]
      BY DEF Shift
    <3> HIDE DEF A, B, w, A0, B0
    <3>4. s.fn \div w = A /\ s.sn \div w = B
      BY <1>1, <3>1 DEF w
    <3>5. Shift(s, k + 1) = [s EXCEPT !.fn = A, !.sn = B]
      BY <3>3, <3>4
    <3> QED BY <3>2, <3>5
  <2>3. t = IF FromLeft(s)
            THEN [Rise(s) EXCEPT !.fr = NodeHash(c, @), !.sr = NodeHash(c, @)]
            ELSE [Rise(s) EXCEPT !.sr = NodeHash(@, c)]
    BY <1>1, <1>3 DEF ConsistencyStep
  <2> HIDE DEF A, B, hf, hs
  <2>4. t = [fn |-> A, sn |-> B, fr |-> hf, sr |-> hs, valid |-> s.valid]
    <3>1. PICK R : R = Rise(s)
      OBVIOUS
    <3>2. R = [fn |-> A, sn |-> B, fr |-> s.fr, sr |-> s.sr, valid |-> s.valid]
      BY <2>1, <2>2, <3>1
    <3>3. R.fr = s.fr /\ R.sr = s.sr
      BY <3>2
    <3>4. CASE FromLeft(s)
      <4>1. t = [R EXCEPT !.fr = NodeHash(c, R.fr), !.sr = NodeHash(c, R.sr)]
        BY <2>3, <3>1, <3>4
      <4>2. NodeHash(c, R.fr) = hf /\ NodeHash(c, R.sr) = hs
        BY <3>3, <3>4 DEF hf, hs
      <4>3. t = [R EXCEPT !.fr = hf, !.sr = hs]
        BY <4>1, <4>2
      <4> QED BY <3>2, <4>3
    <3>5. CASE ~FromLeft(s)
      <4>1. t = [R EXCEPT !.sr = NodeHash(R.sr, c)]
        BY <2>3, <3>1, <3>5
      <4>2. s.fr = hf /\ NodeHash(R.sr, c) = hs
        BY <3>3, <3>5 DEF hf, hs
      <4>3. t = [R EXCEPT !.sr = hs]
        BY <4>1, <4>2
      <4> QED BY <3>2, <4>2, <4>3
    <3> QED BY <3>4, <3>5
  <2>5. t.fr = hf /\ t.sr = hs /\ t.valid = s.valid
    BY <2>4
  <2>6. ConsistencyAt(t, n, m, j + (k + 1))
    BY <2>4, <2>5 DEF ConsistencyAt, A, B
  <2>7. ConsistencyUp(s, c, t, n, m, j, k)
    BY <2>1, <2>5, <2>6 DEF ConsistencyUp, hf, hs
  <2> QED BY <2>7
<1> QED BY <1>2, <1>3

\* A full node is the same in both trees.
LEMMA FullNode ==
  ASSUME NEW n \in Nat, NEW j \in Nat, NEW p \in Nat, Pow2[j] * (p + 1) <= n
  PROVE  Under(n, j, p) = Pow2[j] /\ NodeAt(n, j, p) = Roots(log)[Pow2[j]][Pow2[j] * p]
<1> DEFINE w == Pow2[j]
           q == w * p
<1>1. w \in Nat \ {0}
  BY Pow2Facts
<1> HIDE DEF w
<1>2. w * (p + 1) = q + w /\ q \in Nat
  BY <1>1
<1>3. q + w <= n
  BY <1>2 DEF w
<1> HIDE DEF q
<1>4. ~(n - q < w)
  BY <1>1, <1>2, <1>3
<1> QED BY <1>4 DEF Under, NodeAt, w, q

\* Where m has a sibling on the left, after k levels without one, their parent is of
\* the sibling in the larger tree, and of what m's node was: in the larger tree, and,
\* the sibling being full, in the tree that ends with m.
LEMMA LeftParent ==
  ASSUME NEW n \in 1..Size, NEW m \in 0..(n - 1), NEW j \in Nat, NEW k \in Nat,
         Alone(n, m, j, k), Odd(Up(m, j + k))
  PROVE  LET c == NodeAt(n, j + k, Up(m, j + k) - 1) IN
         /\ NodeAt(n, j + (k + 1), Up(m, j + (k + 1))) = NodeHash(c, NodeAt(n, j, Up(m, j)))
         /\ NodeAt(m + 1, j + (k + 1), Up(m, j + (k + 1))) =
              NodeHash(c, NodeAt(m + 1, j, Up(m, j)))
<1> DEFINE l == m + 1
           i == j + k
           e == j + (k + 1)
           p == Up(m, i)
<1>1. l \in 1..Size /\ m \in 0..(l - 1) /\ l - 1 = m /\ m \in Nat
  BY LogFacts
<1>2. i \in Nat /\ i + 1 = e /\ e \in Nat
  OBVIOUS
<1>3. NodeAt(n, i, Up(m, i)) = NodeAt(n, j, Up(m, j))
  BY AloneSame
<1>4. NodeAt(l, i, Up(m, i)) = NodeAt(l, j, Up(m, j))
  <2> HIDE DEF l
  <2>1. Alone(l, m, j, k)
    BY <1>1 DEF Alone
  <2> QED BY <1>1, <2>1, AloneSame
<1> HIDE DEF i, e, l
<1>5. Odd(Up(m, i))
  BY DEF i
<1>6. NodeAt(n, e, Up(m, e)) = NodeHash(NodeAt(n, i, p - 1), NodeAt(n, i, p)) /\ p - 1 \in Nat
  BY <1>2, <1>5, Parent
<1>7. NodeAt(l, e, Up(m, e)) = NodeHash(NodeAt(l, i, p - 1), NodeAt(l, i, p))
  BY <1>1, <1>2, <1>5, Parent
<1>8. NodeAt(l, i, p - 1) = NodeAt(n, i, p - 1)
  <2>1. p \in Nat /\ Pow2[i] * p <= m
    BY <1>1, <1>2, UpFacts
  <2> HIDE DEF p
  <2>2. p - 1 \in Nat /\ (p - 1) + 1 = p
    BY <1>6, <2>1
  <2> DEFINE q == p - 1
  <2>3. q \in Nat /\ q + 1 = p
    BY <2>2
  <2> HIDE DEF q
  <2>4. Pow2[i] * (q + 1) <= m /\ Pow2[i] * p \in Nat
    BY <1>2, <2>1, <2>3, Pow2Facts
  <2> DEFINE w == Pow2[i] * (q + 1)
  <2>5. w \in Nat /\ w <= m
    BY <2>3, <2>4
  <2> HIDE DEF w
  <2>6. w <= n /\ w <= l /\ n \in Nat /\ l \in Nat
    BY <1>1, <2>5, LogFacts DEF l
  <2>7. NodeAt(n, i, q) = Roots(log)[Pow2[i]][Pow2[i] * q]
    BY <1>2, <2>3, <2>6, FullNode DEF w
  <2>8. NodeAt(l, i, q) = Roots(log)[Pow2[i]][Pow2[i] * q]
    BY <1>2, <2>3, <2>6, FullNode DEF w
  <2> QED BY <2>7, <2>8 DEF q
<1> QED BY <1>3, <1>4, <1>6, <1>7, <1>8 DEF l, i, e, p

\* Where m's node is on the left of another, their parent is of both, and in the tree
\* that ends with m it is the node itself.
LEMMA RightParent ==
  ASSUME NEW n \in 1..Size, NEW m \in 0..(n - 1), NEW j \in Nat,
         ~Odd(Up(m, j)), Up(m, j) # Up(n - 1, j)
  PROVE  /\ NodeAt(n, j + 1, Up(m, j + 1)) =
              NodeHash(NodeAt(n, j, Up(m, j)), NodeAt(n, j, Up(m, j) + 1))
         /\ NodeAt(m + 1, j + 1, Up(m, j + 1)) = NodeAt(m + 1, j, Up(m, j))
<1> DEFINE l == m + 1
<1>1. l \in 1..Size /\ m \in 0..(l - 1) /\ l - 1 = m
  BY LogFacts
<1> HIDE DEF l
<1>2. NodeAt(n, j + 1, Up(m, j + 1)) =
        NodeHash(NodeAt(n, j, Up(m, j)), NodeAt(n, j, Up(m, j) + 1))
  BY Parent
<1>3. NodeAt(l, j + 1, Up(m, j + 1)) = NodeAt(l, j, Up(m, j))
  BY <1>1, Parent
<1> QED BY <1>2, <1>3 DEF l

\* If the second hash after a step is the second tree's, so is the one before; and
\* if then the first hash is the first tree's before, so it is after.  Here m is the
\* last entry of the first tree.
LEMMA ConsistencyBack ==
  ASSUME NEW n \in 1..Size, NEW m \in 0..(n - 1), NEW j \in Nat, NEW s, NEW c, NEW t,
         ConsistencyAt(s, n, m, j), t = ConsistencyStep(s, c),
         s.valid /\ s.sr = NodeAt(n, j, Up(m, j)) => s.fr = NodeAt(m + 1, j, Up(m, j))
  PROVE  \E i \in Nat :
           /\ ConsistencyAt(t, n, m, i)
           /\ t.valid /\ t.sr = NodeAt(n, i, Up(m, i)) => t.fr = NodeAt(m + 1, i, Up(m, i))
<1> DEFINE l == m + 1
<1> HIDE DEF l
<1>1. CASE Up(n - 1, j) = 0
  <2>1. ConsistencyAt(t, n, m, j) /\ ~t.valid
    BY <1>1, ConsistencyMove
  <2> QED BY <2>1
<1>2. CASE Up(n - 1, j) # 0
  <2>0. PICK k \in Nat : ConsistencyUp(s, c, t, n, m, j, k)
    BY <1>2, ConsistencyMove
  <2>1. /\ Alone(n, m, j, k)
        /\ ConsistencyAt(t, n, m, j + (k + 1)) /\ t.valid = s.valid
        /\ \/ /\ Odd(Up(m, j + k))
              /\ t.fr = NodeHash(c, s.fr) /\ t.sr = NodeHash(c, s.sr)
           \/ /\ k = 0 /\ ~Odd(Up(m, j)) /\ Up(m, j) # Up(n - 1, j)
              /\ t.fr = s.fr /\ t.sr = NodeHash(s.sr, c)
    BY <2>0 DEF ConsistencyUp
  <2> DEFINE e == j + (k + 1)
  <2>2. e \in Nat
    OBVIOUS
  <2>3. CASE Odd(Up(m, j + k)) /\ t.fr = NodeHash(c, s.fr) /\ t.sr = NodeHash(c, s.sr)
    <3> DEFINE d == NodeAt(n, j + k, Up(m, j + k) - 1)
    <3>1. /\ NodeAt(n, e, Up(m, e)) = NodeHash(d, NodeAt(n, j, Up(m, j)))
          /\ NodeAt(l, e, Up(m, e)) = NodeHash(d, NodeAt(l, j, Up(m, j)))
      BY <2>1, <2>3, LeftParent DEF l
    <3> HIDE DEF d, e
    <3>2. ASSUME t.valid, t.sr = NodeAt(n, e, Up(m, e)) PROVE t.fr = NodeAt(l, e, Up(m, e))
      <4>1. c = d /\ s.sr = NodeAt(n, j, Up(m, j))
        BY <2>3, <3>1, <3>2 DEF NodeHash
      <4>2. s.valid
        BY <2>1, <3>2
      <4>3. s.fr = NodeAt(l, j, Up(m, j))
        BY <4>1, <4>2 DEF l
      <4> QED BY <2>3, <3>1, <4>1, <4>3
    <3> QED BY <2>1, <2>2, <3>2 DEF l, e
  <2>4. CASE /\ k = 0 /\ ~Odd(Up(m, j)) /\ Up(m, j) # Up(n - 1, j)
             /\ t.fr = s.fr /\ t.sr = NodeHash(s.sr, c)
    <3>1. /\ NodeAt(n, j + 1, Up(m, j + 1)) =
               NodeHash(NodeAt(n, j, Up(m, j)), NodeAt(n, j, Up(m, j) + 1))
          /\ NodeAt(l, j + 1, Up(m, j + 1)) = NodeAt(l, j, Up(m, j))
      BY <2>4, RightParent DEF l
    <3>2. ASSUME t.valid, t.sr = NodeAt(n, j + 1, Up(m, j + 1))
          PROVE  t.fr = NodeAt(l, j + 1, Up(m, j + 1))
      <4>1. s.sr = NodeAt(n, j, Up(m, j))
        BY <2>4, <3>1, <3>2 DEF NodeHash
      <4>2. s.valid
        BY <2>1, <3>2
      <4>3. s.fr = NodeAt(l, j, Up(m, j))
        BY <4>1, <4>2 DEF l
      <4> QED BY <2>4, <3>1, <4>3
    <3>3. e = j + 1
      BY <2>4
    <3> HIDE DEF e
    <3> QED BY <2>1, <2>2, <3>2, <3>3 DEF l, e
  <2> QED BY <2>1, <2>3, <2>4
<1> QED BY <1>1, <1>2

\* The last perfect subtree of a tree: the node over the last entry, at the level of
\* the trailing zeros, is full.
LEMMA LastPerfect ==
  ASSUME NEW m \in Nat \ {0}
  PROVE  LET k == TrailingZeros(m) IN
         /\ k \in Nat /\ Pow2[k] * (Up(m - 1, k) + 1) = m
<1>1. PICK k \in Nat, y \in Nat : m = Pow2[k] * y /\ Odd(y)
  BY OddPart
<1>2. TrailingZeros(m) = k
  BY <1>1, TrailingZerosIs
<1> DEFINE w == Pow2[k]
           u == Up(m - 1, k)
<1>3. w \in Nat \ {0} /\ m - 1 \in Nat
  BY Pow2Facts
<1>4. u \in Nat /\ w * u <= m - 1 /\ m - 1 < w * (u + 1)
  BY <1>3, UpFacts
<1>5. m = w * y
  BY <1>1
<1> HIDE DEF w, u
<1>6. u < y
  <2>1. CASE y <= u
    <3>1. w * y <= w * u
      BY <1>3, <1>4, <2>1, TimesMono
    <3> DEFINE a == w * u
               b == w * y
    <3>2. a \in Nat /\ b \in Nat /\ m = b /\ b <= a /\ a <= m - 1
      BY <1>3, <1>4, <1>5, <3>1
    <3> HIDE DEF a, b
    <3> QED BY <3>2
  <2> QED BY <1>4, <2>1
<1>7. y < u + 2
  <2>1. CASE u + 2 <= y
    <3>1. w * (u + 2) <= w * y
      BY <1>3, <1>4, <2>1, TimesMono
    <3>2. w * (u + 2) = w * (u + 1) + w
      BY <1>3, <1>4
    <3> DEFINE a == w * (u + 1)
               b == w * y
    <3>3. a \in Nat /\ b \in Nat /\ m = b /\ a + w <= b /\ m - 1 < a
      BY <1>3, <1>4, <1>5, <3>1, <3>2
    <3> HIDE DEF a, b
    <3> QED BY <1>3, <3>3
  <2> QED BY <1>4, <2>1
<1>8. y = u + 1
  BY <1>4, <1>6, <1>7
<1> QED BY <1>2, <1>5, <1>8 DEF w, u

\* The loop starts at that node, with the same hash for both trees.
LEMMA ConsistencyStartAt ==
  ASSUME NEW n \in 1..Size, NEW m \in 1..n, m < n, NEW x, NEW k, NEW s,
         k = TrailingZeros(m), s = ConsistencyStart(m, n, x)
  PROVE  /\ k \in Nat /\ ConsistencyAt(s, n, m - 1, k) /\ s.fr = x /\ s.sr = x /\ s.valid
         /\ NodeAt(m, k, Up(m - 1, k)) = NodeAt(n, k, Up(m - 1, k))
         /\ Under(n, k, Up(m - 1, k)) = Pow2[k]
<1> DEFINE A == Up(m - 1, k)
           B == Up(n - 1, k)
<1>1. m \in Nat \ {0} /\ n \in Nat /\ m - 1 \in Nat
  BY LogFacts
<1>2. k \in Nat /\ Pow2[k] * (A + 1) = m
  BY <1>1, LastPerfect
<1>3. s = [fn |-> A, sn |-> B, fr |-> x, sr |-> x, valid |-> TRUE]
  <2> DEFINE r == [fn |-> m - 1, sn |-> n - 1, fr |-> x, sr |-> x, valid |-> TRUE]
  <2>1. s = Shift(r, k)
    BY DEF ConsistencyStart
  <2>2. r.fn = m - 1 /\ r.sn = n - 1
    OBVIOUS
  <2> HIDE DEF r
  <2>3. Shift(r, k) = [r EXCEPT !.fn = A, !.sn = B]
    BY <2>2 DEF Shift, Up
  <2> HIDE DEF A, B
  <2>4. [r EXCEPT !.fn = A, !.sn = B] = [fn |-> A, sn |-> B, fr |-> x, sr |-> x, valid |-> TRUE]
    <3>1. PICK a, b, yes : a = m - 1 /\ b = n - 1 /\ yes = TRUE
      OBVIOUS
    <3>2. r = [fn |-> a, sn |-> b, fr |-> x, sr |-> x, valid |-> yes]
      BY <3>1 DEF r
    <3>3. [r EXCEPT !.fn = A] = [fn |-> A, sn |-> b, fr |-> x, sr |-> x, valid |-> yes]
      BY <3>2
    <3>4. PICK y : y = [r EXCEPT !.fn = A]
      OBVIOUS
    <3>5. y = [fn |-> A, sn |-> b, fr |-> x, sr |-> x, valid |-> yes]
      BY <3>3, <3>4
    <3>6. [y EXCEPT !.sn = B] = [fn |-> A, sn |-> B, fr |-> x, sr |-> x, valid |-> yes]
      BY <3>5
    <3> QED BY <3>1, <3>4, <3>6
  <2> QED BY <2>1, <2>3, <2>4
<1>4. A \in Nat
  BY <1>1, <1>2, UpFacts
<1>5. s.fr = x /\ s.sr = x /\ s.valid
  <2> HIDE DEF A, B
  <2> QED BY <1>3
<1>6. ConsistencyAt(s, n, m - 1, k)
  BY <1>3, <1>5 DEF ConsistencyAt
<1>7. NodeAt(m, k, A) = NodeAt(n, k, A) /\ Under(n, k, A) = Pow2[k]
  <2> HIDE DEF A, B
  <2>1. Pow2[k] * (A + 1) <= m /\ Pow2[k] * (A + 1) <= n
    BY <1>1, <1>2
  <2> QED BY <1>1, <1>2, <1>4, <2>1, FullNode
<1> QED BY <1>2, <1>5, <1>6, <1>7

\* What the two roots of an accepted path are of: if the second one is the root of
\* the second tree, the first one is the root of the first.
LEMMA RootsAreOfTrees ==
  ASSUME NEW n \in 1..Size, NEW m \in 1..n, m < n, NEW path, Len(path) \in Nat \ {0},
         RootsFromPath(m, n, path).valid, RootsFromPath(m, n, path).sn = 0,
         RootsFromPath(m, n, path).sr = Roots(log)[n][0]
  PROVE  RootsFromPath(m, n, path).fr = Roots(log)[m][0]
<1> DEFINE last == Len(path)
           l == m - 1
<1>1. l \in 0..(n - 1) /\ l + 1 = m /\ last \in Nat /\ 1 <= last /\ m \in 1..Size
  BY LogFacts
<1>2. PICK f : /\ LoopFunction(f, "consistency", path, 1, last, ConsistencyStart(m, n, path[1]))
               /\ RootsFromPath(m, n, path) = f[last]
  BY ConsistencyLoop
<1> HIDE DEF last
<1>3. f[1] = ConsistencyStart(m, n, path[1])
  BY <1>1, <1>2 DEF LoopFunction
<1>4. \A i \in 1..(last - 1) : f[i + 1] = ConsistencyStep(f[i], path[i + 1])
  <2>1. \A s, c : OneStep("consistency", s, c) = ConsistencyStep(s, c)
    BY DEF OneStep
  <2>2. \A i \in 1..(last - 1) : f[i + 1] = OneStep("consistency", f[i], path[i + 1])
    BY <1>1, <1>2, LoopIs
  <2> QED BY <2>1, <2>2
<1> DEFINE Q(s) == \E j \in Nat :
             /\ ConsistencyAt(s, n, l, j)
             /\ s.valid /\ s.sr = NodeAt(n, j, Up(l, j)) => s.fr = NodeAt(m, j, Up(l, j))
           T == {i \in Nat : Q(f[i + 1])}
<1>5. 0 \in T
  <2>1. PICK x, s : x = path[1] /\ s = ConsistencyStart(m, n, x) /\ s = f[1]
    BY <1>3
  <2>2. PICK k : k = TrailingZeros(m)
    OBVIOUS
  <2>3. /\ k \in Nat /\ ConsistencyAt(s, n, l, k) /\ s.fr = x /\ s.sr = x /\ s.valid
        /\ NodeAt(m, k, Up(l, k)) = NodeAt(n, k, Up(l, k))
    <3> HIDE DEF T, Q
    <3>1. s = ConsistencyStart(m, n, x)
      BY <2>1
    <3>2. /\ k \in Nat /\ ConsistencyAt(s, n, m - 1, k) /\ s.fr = x /\ s.sr = x /\ s.valid
          /\ NodeAt(m, k, Up(m - 1, k)) = NodeAt(n, k, Up(m - 1, k))
      BY <2>2, <3>1, ConsistencyStartAt, SMTT(30)
    <3> QED BY <3>2
  <2>4. Q(s)
    <3> HIDE DEF l
    <3> QED BY <2>3
  <2> HIDE DEF Q
  <2>5. 0 + 1 = 1
    OBVIOUS
  <2> QED BY <2>1, <2>4, <2>5
<1>6. ASSUME NEW i \in 0..((last - 1) - 1), i \in T PROVE i + 1 \in T
  <2>1. PICK g \in Nat : g = i + 1 /\ g \in 1..(last - 1)
    BY <1>1
  <2>2. PICK s, t, c : s = f[g] /\ t = f[g + 1] /\ t = ConsistencyStep(s, c)
    BY <1>4, <2>1
  <2>3. PICK j \in Nat :
             /\ ConsistencyAt(s, n, l, j)
             /\ s.valid /\ s.sr = NodeAt(n, j, Up(l, j)) => s.fr = NodeAt(m, j, Up(l, j))
    BY <1>6, <2>1, <2>2
  <2>4. PICK k \in Nat :
           /\ ConsistencyAt(t, n, l, k)
           /\ t.valid /\ t.sr = NodeAt(n, k, Up(l, k)) => t.fr = NodeAt(m, k, Up(l, k))
    <3> HIDE DEF Q, T, l
    <3> QED BY <1>1, <2>2, <2>3, ConsistencyBack
  <2>5. Q(t)
    <3> HIDE DEF l
    <3> QED BY <2>4
  <2> HIDE DEF Q
  <2> QED BY <2>1, <2>2, <2>5
<1> HIDE DEF Q
<1>7. last - 1 \in T
  <2> HIDE DEF T
  <2> DEFINE z == last - 1
  <2>1. z \in Nat
    BY <1>1
  <2> HIDE DEF z
  <2>2. 0..z \subseteq T
    BY <1>5, <1>6, <2>1, NatUpTo DEF z
  <2> QED BY <2>1, <2>2 DEF z
<1>8. (last - 1) + 1 = last
  BY <1>1
<1>9. PICK s : s = f[last]
  OBVIOUS
<1>10. Q(s)
  BY <1>7, <1>8, <1>9
<1>11. PICK j \in Nat :
             /\ ConsistencyAt(s, n, l, j)
             /\ s.valid /\ s.sr = NodeAt(n, j, Up(l, j)) => s.fr = NodeAt(m, j, Up(l, j))
  BY <1>10 DEF Q
<1>12. s.valid /\ s.sn = 0 /\ s.sr = Roots(log)[n][0] /\ RootsFromPath(m, n, path).fr = s.fr
  BY <1>2, <1>9
<1> HIDE DEF T, l
<1>13. Up(n - 1, j) = 0
  BY <1>11, <1>12 DEF ConsistencyAt
<1>14. Up(l, j) = 0
  <2>1. Up(l, j) \in Nat /\ Up(l, j) <= Up(n - 1, j)
    BY <1>1, Parent
  <2> QED BY <1>13, <2>1
<1>15. NodeAt(n, j, 0) = Roots(log)[n][0] /\ NodeAt(m, j, 0) = Roots(log)[m][0]
  <2>1. Up(m - 1, j) = 0
    BY <1>14 DEF l
  <2> QED BY <1>1, <1>13, <2>1, NodeEnds
<1> QED BY <1>11, <1>12, <1>14, <1>15

\* An accepted proof shows the root of the first entries.
LEMMA ConsistencyIsSound ==
  ASSUME NEW n \in 1..Size, NEW m \in 1..n, NEW S, NEW first_root \in S, NEW proof \in Seq(S),
         VerifyConsistency(m, n, first_root, Roots(log)[n][0], proof)
  PROVE  first_root = Roots(log)[m][0]
<1>1. CASE m = n
  BY <1>1 DEF VerifyConsistency
<1>2. CASE m # n
  <2>1. m < n
    BY <1>2, LogFacts
  <2> DEFINE path == IF IsPower(m) THEN <<first_root>> \o proof ELSE proof
             end == RootsFromPath(m, n, path)
  <2>2. path # <<>> /\ end.valid /\ end.sn = 0 /\ end.fr = first_root /\ end.sr = Roots(log)[n][0]
    BY <1>2 DEF VerifyConsistency
  <2>3. path \in Seq(S)
    OBVIOUS
  <2> HIDE DEF path
  <2>4. Len(path) \in Nat \ {0}
    BY <2>2, <2>3
  <2> QED BY <2>1, <2>2, <2>4, RootsAreOfTrees
<1> QED BY <1>1, <1>2

----------------------------------------------------------------------------
(* The stored hashes are those of the tree. *)

\* The trees of a part are those of the whole, in their place.
LEMMA RootsOfPart ==
  ASSUME NEW d, NEW e, Len(d) \in Nat, Len(e) \in Nat, NEW b \in Nat, b + Len(e) <= Len(d),
         \A i \in 1..Len(e) : e[i] = d[b + i]
  PROVE  \A n \in 0..Len(e), a \in Nat :
           a + n <= Len(e) => Roots(e)[n][a] = Roots(d)[n][b + a]
<1> DEFINE m == Len(e)
           R(n, a) == a + n <= m => Roots(e)[n][a] = Roots(d)[n][b + a]
           T == {k \in Nat : \A n \in 0..k, a \in Nat : n <= m => R(n, a)}
<1>1. m \in Nat /\ m <= Len(d)
  OBVIOUS
<1>2. \A a \in Nat : R(0, a)
  <2> HIDE DEF m
  <2>1. ASSUME NEW a \in Nat PROVE Roots(e)[0][a] = Roots(d)[0][b + a]
    <3>1. b + a \in Nat
      OBVIOUS
    <3>2. Roots(d)[0][b + a] = EmptyHash
      BY <3>1, RootsIs
    <3>3. Roots(e)[0][a] = EmptyHash
      BY RootsIs
    <3> QED BY <3>2, <3>3
  <2> QED BY <2>1
<1>3. 0 \in T
  <2> HIDE DEF R, m
  <2> QED BY <1>2
<1>4. ASSUME NEW k \in 0..(m - 1), k \in T PROVE k + 1 \in T
  <2> DEFINE n == k + 1
  <2>1. n \in Nat /\ n <= m /\ n > 0 /\ \A i \in 0..n : i \in 0..k \/ i = n
    OBVIOUS
  <2>2. ASSUME NEW a \in Nat, a + n <= m PROVE Roots(e)[n][a] = Roots(d)[n][b + a]
    <3> DEFINE c == b + a
    <3>1. c \in Nat
      OBVIOUS
    <3>2. CASE n = 1
      <4>1. Roots(e)[1][a] = e[a + 1]
        <5>1. Len(e) > 0
          BY <1>1, <2>1
        <5> QED BY <5>1, RootsIs
      <4>2. Roots(d)[1][c] = d[c + 1]
        <5>1. Len(d) > 0
          BY <1>1, <2>1
        <5> HIDE DEF c
        <5> QED BY <3>1, <5>1, RootsIs
      <4>3. a + 1 \in 1..Len(e) /\ b + (a + 1) = c + 1
        BY <2>2, <3>2
      <4> HIDE DEF c, n
      <4> QED BY <3>2, <4>1, <4>2, <4>3 DEF c
    <3>3. CASE n # 1
      <4> DEFINE s == Split(n)
                 r == n - s
      <4>1. n \in Nat /\ n > 1
        BY <2>1, <3>3
      <4>2. s \in 1..(n - 1) /\ r \in 1..(n - 1) /\ s + r = n
        <5> HIDE DEF n
        <5> QED BY <4>1, SplitFacts
      <4>3. Roots(e)[n][a] = NodeHash(Roots(e)[s][a], Roots(e)[r][a + s])
        <5>1. n \in 2..Len(e)
          BY <4>1, <2>1
        <5>2. \A i \in 2..Len(e) :
                Roots(e)[i][a] = NodeHash(Roots(e)[Split(i)][a], Roots(e)[i - Split(i)][a + Split(i)])
          BY RootsIs
        <5> HIDE DEF n, m
        <5> QED BY <5>1, <5>2
      <4>4. Roots(d)[n][c] = NodeHash(Roots(d)[s][c], Roots(d)[r][c + s])
        <5>1. n \in 2..Len(d)
          BY <1>1, <4>1, <2>1
        <5> HIDE DEF n, m, c
        <5>2. \A i \in 2..Len(d) :
                Roots(d)[i][c] = NodeHash(Roots(d)[Split(i)][c], Roots(d)[i - Split(i)][c + Split(i)])
          BY <3>1, RootsIs
        <5> QED BY <5>1, <5>2
      <4> HIDE DEF s, r
      <4>5. s \in 0..k /\ r \in 0..k /\ s <= m /\ r <= m /\ a + s \in Nat
            /\ a + s <= m /\ (a + s) + r <= m
        BY <2>1, <2>2, <4>2
      <4> HIDE DEF n, m, R
      <4>6. R(s, a) /\ R(r, a + s)
        BY <1>4, <4>5
      <4>7. Roots(e)[s][a] = Roots(d)[s][c]
        BY <4>5, <4>6 DEF R
      <4>8. Roots(e)[r][a + s] = Roots(d)[r][b + (a + s)]
        BY <4>5, <4>6 DEF R
      <4>9. b + (a + s) = c + s
        BY <4>2
      <4> HIDE DEF c
      <4> QED BY <4>3, <4>4, <4>7, <4>8, <4>9 DEF c
    <3> QED BY <3>2, <3>3
  <2>3. \A a \in Nat : R(n, a)
    BY <2>2
  <2> HIDE DEF R, n, m
  <2>4. \A i \in 0..n, a \in Nat : i <= m => R(i, a)
    BY <1>4, <2>1, <2>3
  <2>5. n \in T
    BY <2>1, <2>4
  <2> HIDE DEF T
  <2> QED BY <2>5 DEF n
<1> HIDE DEF T, R
<1>5. m \in T
  <2> HIDE DEF m
  <2>1. 0..m \subseteq T
    BY <1>1, <1>3, <1>4, NatUpTo
  <2> QED BY <1>1, <2>1
<1>6. \A n \in 0..m, a \in Nat : R(n, a)
  <2> HIDE DEF m
  <2> QED BY <1>1, <1>5 DEF T
<1> QED BY <1>6 DEF R

\* The trees of a first part are the same.
LEMMA RootsOfStart ==
  ASSUME NEW d, NEW e, Len(d) \in Nat, Len(e) \in Nat, Len(e) <= Len(d),
         \A i \in 1..Len(e) : e[i] = d[i]
  PROVE  \A n \in 0..Len(e), a \in Nat : a + n <= Len(e) => Roots(e)[n][a] = Roots(d)[n][a]
<1>1. PICK b \in Nat : b = 0
  OBVIOUS
<1>2. b + Len(e) <= Len(d) /\ \A i \in 1..Len(e) : e[i] = d[b + i]
  BY <1>1
<1>3. \A n \in 0..Len(e), a \in Nat : a + n <= Len(e) => Roots(e)[n][a] = Roots(d)[n][b + a]
  BY <1>2, RootsOfPart
<1> QED BY <1>1, <1>3

\* The root of the first n entries.
LEMMA RootOfFirst ==
  ASSUME NEW n \in 0..Size
  PROVE  /\ Len(SubSeq(log, 1, n)) = n
         /\ Root(SubSeq(log, 1, n)) = Roots(log)[n][0]
         /\ \A k \in 0..n, a \in Nat : a + k <= n =>
              Roots(SubSeq(log, 1, n))[k][a] = Roots(log)[k][a]
<1> DEFINE e == SubSeq(log, 1, n)
<1>1. n \in Nat /\ n <= Len(log) /\ Len(log) \in Nat
  BY LogFacts
<1>2. Len(e) = n /\ \A i \in 1..n : e[i] = log[i]
  BY <1>1, LogFacts
<1> HIDE DEF e
<1>3. \A k \in 0..n, a \in Nat : a + k <= n => Roots(e)[k][a] = Roots(log)[k][a]
  <2>1. Len(e) \in Nat /\ Len(e) <= Len(log) /\ \A i \in 1..Len(e) : e[i] = log[i]
    BY <1>1, <1>2
  <2>2. \A k \in 0..Len(e), a \in Nat : a + k <= Len(e) => Roots(e)[k][a] = Roots(log)[k][a]
    BY <1>1, <2>1, RootsOfStart
  <2> QED BY <1>2, <2>2
<1>4. Root(e) = Roots(log)[n][0]
  BY <1>1, <1>2, <1>3 DEF Root
<1> QED BY <1>2, <1>3, <1>4 DEF e

\* The roots of 2^r neighbouring subtrees of 2^s entries, from the one after the
\* first x on.
RootsFrom(e, s, r, x) ==
  /\ Len(e) = Pow2[r] /\ Pow2[s] * (x + Pow2[r]) <= Size
  /\ \A j \in 1..Pow2[r] : e[j] = Roots(log)[Pow2[s]][Pow2[s] * (x + (j - 1))]

\* The tree over them: its subtrees are those of the log.
LEMMA RootsOfRoots ==
  ASSUME NEW s \in Nat, NEW r \in Nat, NEW x \in Nat, NEW e, RootsFrom(e, s, r, x)
  PROVE  Root(e) = Roots(log)[Pow2[s + r]][Pow2[s] * x]
<1>0. /\ Len(e) = Pow2[r] /\ Pow2[s] * (x + Pow2[r]) <= Size
      /\ \A j \in 1..Pow2[r] : e[j] = Roots(log)[Pow2[s]][Pow2[s] * (x + (j - 1))]
  BY DEF RootsFrom
<1> DEFINE w == Pow2[s]
           m == Pow2[r]
           R(t) == \A y \in Nat : y + Pow2[t] <= m =>
                     Roots(e)[Pow2[t]][y] = Roots(log)[Pow2[s + t]][w * (x + y)]
           T == {t \in Nat : t <= r => R(t)}
<1>1. w \in Nat \ {0} /\ m \in Nat \ {0} /\ Size \in Nat /\ Pow2[0] = 1
  BY Pow2Facts, LogFacts, Pow2Is
<1>2. 0 \in T
  <2>1. ASSUME NEW y \in Nat, y + 1 <= m PROVE Roots(e)[1][y] = Roots(log)[w][w * (x + y)]
    <3>1. Len(e) \in Nat /\ Len(e) > 0
      BY <1>0, <1>1
    <3>2. Roots(e)[1][y] = e[y + 1]
      BY <3>1, RootsIs
    <3> HIDE DEF w, m
    <3>3. y + 1 \in 1..m /\ (y + 1) - 1 = y
      BY <1>1, <2>1
    <3>4. e[y + 1] = Roots(log)[w][w * (x + ((y + 1) - 1))]
      BY <1>0, <3>3 DEF w, m
    <3> QED BY <3>2, <3>3, <3>4
  <2>2. s + 0 = s
    OBVIOUS
  <2> HIDE DEF w, m
  <2>3. R(0)
    BY <1>1, <2>1, <2>2 DEF w
  <2> HIDE DEF R
  <2> QED BY <2>3
<1>3. ASSUME NEW t \in 0..(r - 1), t \in T PROVE t + 1 \in T
  <2> DEFINE p == Pow2[t]
             q == Pow2[s + t]
             n == Pow2[t + 1]
             N == Pow2[s + (t + 1)]
  <2>1. p \in Nat \ {0} /\ n = 2 * p /\ q \in Nat \ {0} /\ N = 2 * q /\ q = w * p /\ t \in Nat
    <3>1. s + (t + 1) = (s + t) + 1 /\ s + t \in Nat /\ t \in Nat
      OBVIOUS
    <3> QED BY <3>1, Pow2Is, Pow2Facts, Pow2Add
  <2>2. ASSUME NEW y \in Nat, y + n <= m PROVE Roots(e)[n][y] = Roots(log)[N][w * (x + y)]
    <3> DEFINE a == w * (x + y)
    <3>1. a \in Nat
      BY <1>1
    <3>2. Split(n) = p /\ Split(N) = q
      <4>1. n \in Nat /\ p < n /\ n <= 2 * p /\ N \in Nat /\ q < N /\ N <= 2 * q
        BY <2>1
      <4>2. s + t \in Nat /\ t \in Nat
        OBVIOUS
      <4> HIDE DEF n, N
      <4> QED BY <4>1, <4>2, SplitIs
    <3> HIDE DEF p, q, n, N, w, m, R
    <3>3. n - p = p /\ N - q = q
      BY <2>1
    <3>4. Roots(e)[n][y] = NodeHash(Roots(e)[p][y], Roots(e)[p][y + p])
      <4>1. n \in 2..Len(e) /\ Len(e) \in Nat
        BY <1>0, <1>1, <2>1, <2>2 DEF m
      <4>2. Roots(e)[n][y] = NodeHash(Roots(e)[Split(n)][y], Roots(e)[n - Split(n)][y + Split(n)])
        BY <4>1, RootsIs
      <4> QED BY <3>2, <3>3, <4>2
    <3>5. N <= Size
      <4>1. w * n = N
        BY <1>1, <2>1
      <4>2. n <= x + m /\ n \in Nat /\ x + m \in Nat
        BY <1>1, <2>1, <2>2
      <4>3. w * n <= w * (x + m) /\ w * (x + m) \in Nat
        BY <1>1, <4>2, TimesMono
      <4>4. w * (x + m) <= Size
        BY <1>0 DEF w, m
      <4> DEFINE z == w * (x + m)
      <4>5. z \in Nat /\ N <= z /\ z <= Size
        BY <4>1, <4>3, <4>4
      <4> HIDE DEF z
      <4> QED BY <1>1, <2>1, <4>5
    <3>6. Roots(log)[N][a] = NodeHash(Roots(log)[q][a], Roots(log)[q][a + q])
      <4>1. N \in 2..Size
        BY <1>1, <2>1, <3>5
      <4> HIDE DEF a
      <4> QED BY <3>1, <3>2, <3>3, <4>1, LogRoots
    <3>7. t <= r /\ y + p <= m /\ (y + p) + p <= m /\ y + p \in Nat
      BY <1>1, <2>1, <2>2
    <3>8. R(t)
      BY <1>3, <3>7
    <3>9. Roots(e)[p][y] = Roots(log)[q][a]
      BY <3>7, <3>8 DEF R, p, q
    <3>10. Roots(e)[p][y + p] = Roots(log)[q][w * (x + (y + p))]
      BY <3>7, <3>8 DEF R, p, q
    <3>11. w * (x + (y + p)) = a + q
      <4>1. w * (x + (y + p)) = w * (x + y) + w * p
        BY <1>1, <2>1
      <4> QED BY <2>1, <4>1
    <3> QED BY <3>4, <3>6, <3>9, <3>10, <3>11
  <2>3. R(t + 1)
    <3> HIDE DEF w, m
    <3> QED BY <2>2
  <2>4. t + 1 \in Nat
    OBVIOUS
  <2> HIDE DEF R
  <2> QED BY <2>3, <2>4
<1>4. r \in T
  <2> HIDE DEF T
  <2>1. 0..r \subseteq T
    BY <1>2, <1>3, NatUpTo
  <2> QED BY <2>1
<1>5. R(r)
  <2> HIDE DEF R
  <2> QED BY <1>4
<1>6. Roots(e)[m][0] = Roots(log)[Pow2[s + r]][w * (x + 0)]
  <2>1. 0 + m <= m
    BY <1>1
  <2> QED BY <1>5, <2>1
<1>7. x + 0 = x
  OBVIOUS
<1> QED BY <1>0, <1>6, <1>7 DEF Root

\* Stored is what its equation says.
LEMMA StoredIs ==
  /\ Stored[0] = [i \in Nat |-> log[i + 1]]
  /\ \A l \in 0..(Size - 1) : Stored[l + 1] = StoredAbove(Stored[l])
<1> DEFINE Here(f, l) ==
             [i \in Nat |->
               IF l = 0 THEN log[i + 1]
               ELSE Root([j \in 1..Pow2[H] |-> f[l - 1][i * Pow2[H] + j - 1]])]
           start == [i \in Nat |-> log[i + 1]]
           P(f) == f = [l \in 0..Size |-> Here(f, l)]
           R == CHOOSE f : P(f)
<1>1. Size \in Nat
  BY LogFacts
<1>2. PICK f : LoopFunction(f, "stored", <<>>, 0, Size, start)
  <2>1. 0 \in Nat /\ 0 <= Size
    BY <1>1
  <2> HIDE DEF start
  <2> QED BY <1>1, <2>1, LoopExists
<1>3. ASSUME NEW g, NEW l \in 0..Size
      PROVE  Here(g, l) = IF l = 0 THEN start ELSE OneStep("stored", g[l - 1], <<>>[l])
  <2>1. CASE l = 0
    BY <2>1
  <2>2. CASE l # 0
    <3>1. OneStep("stored", g[l - 1], <<>>[l]) = StoredAbove(g[l - 1])
      BY DEF OneStep
    <3>2. Here(g, l) = StoredAbove(g[l - 1])
      BY <2>2 DEF StoredAbove
    <3> QED BY <2>2, <3>1, <3>2
  <2> QED BY <2>1, <2>2
<1> HIDE DEF Here, start
<1>4. P(f)
  BY <1>2, <1>3 DEF LoopFunction
<1>5. P(R)
  <2> HIDE DEF P
  <2> QED BY <1>4
<1>6. Stored = R
  BY DEF Stored, Here
<1> HIDE DEF R
<1>7. \A l \in 0..Size : Stored[l] = Here(Stored, l)
  BY <1>5, <1>6
<1>8. Stored[0] = start
  BY <1>1, <1>3, <1>7
<1>9. ASSUME NEW l \in 0..(Size - 1) PROVE Stored[l + 1] = StoredAbove(Stored[l])
  <2>1. l + 1 \in 0..Size /\ (l + 1) - 1 = l /\ l + 1 # 0
    BY <1>1
  <2>2. Stored[l + 1] = Here(Stored, l + 1)
    BY <1>7, <2>1
  <2> QED BY <2>1, <2>2 DEF Here, StoredAbove
<1> QED BY <1>8, <1>9 DEF start

\* The hashes stored at level l are roots of 2^s entries; 2^r of them, from i * 2^r on.
StoredAre(l, s) ==
  \A p \in Nat : Pow2[s] * (p + 1) <= Size => Stored[l][p] = Roots(log)[Pow2[s]][Pow2[s] * p]

StoredFrom(e, l, r, i) == e = [j \in 1..Pow2[r] |-> Stored[l][i * Pow2[r] + j - 1]]

\* A root over 2^r stored hashes of level l is that of the entries below them, if
\* the stored hashes are.
LEMMA RootOfStored ==
  ASSUME NEW l \in Nat, NEW s \in Nat, NEW r \in Nat, NEW i \in Nat, StoredAre(l, s),
         Pow2[s + r] * (i + 1) <= Size, NEW e, StoredFrom(e, l, r, i)
  PROVE  Root(e) = Roots(log)[Pow2[s + r]][Pow2[s + r] * i]
<1> DEFINE w == Pow2[s]
           m == Pow2[r]
           x == i * m
<1>1. w \in Nat \ {0} /\ m \in Nat \ {0} /\ Size \in Nat /\ Pow2[s + r] = w * m /\ x \in Nat
  <2>1. w \in Nat \ {0} /\ m \in Nat \ {0} /\ Size \in Nat
    BY Pow2Facts, LogFacts
  <2>2. Pow2[s + r] = w * m
    BY Pow2Add
  <2> HIDE DEF w, m
  <2> QED BY <2>1, <2>2
<1>2. Len(e) = m
  <2> DEFINE F(j) == Stored[l][i * m + j - 1]
  <2>1. e = [j \in 1..m |-> F(j)]
    BY DEF StoredFrom
  <2> HIDE DEF m, F
  <2> QED BY <1>1, <2>1
<1>3. \A j \in 1..m : e[j] = Stored[l][x + (j - 1)]
  <2> DEFINE F(j) == Stored[l][i * m + j - 1]
  <2>1. e = [j \in 1..m |-> F(j)]
    BY DEF StoredFrom
  <2>2. \A j \in 1..m : F(j) = Stored[l][x + (j - 1)]
    <3> HIDE DEF m
    <3>1. \A j \in 1..m : i * m + j - 1 = x + (j - 1)
      BY <1>1
    <3> QED BY <3>1
  <2> HIDE DEF m, F
  <2> QED BY <2>1, <2>2
<1>4. w * (x + m) = (w * m) * (i + 1) /\ w * x = (w * m) * i
  <2> HIDE DEF w, m
  <2>1. x + m = m * (i + 1)
    BY <1>1
  <2>2. w * (m * (i + 1)) = (w * m) * (i + 1)
    BY <1>1
  <2>3. w * (i * m) = (w * m) * i
    BY <1>1
  <2> QED BY <2>1, <2>2, <2>3
<1>5. w * (x + m) <= Size
  BY <1>1, <1>4
<1> HIDE DEF w, m, x
<1>6. ASSUME NEW j \in 1..m PROVE e[j] = Roots(log)[w][w * (x + (j - 1))]
  <2> DEFINE p == x + (j - 1)
  <2>1. p \in Nat /\ p + 1 <= x + m /\ x + m \in Nat
    BY <1>1
  <2> HIDE DEF p
  <2>2. w * (p + 1) <= w * (x + m) /\ w * (p + 1) \in Nat /\ w * (x + m) \in Nat
    BY <1>1, <2>1, TimesMono
  <2> DEFINE u == w * (p + 1)
             v == w * (x + m)
  <2>3. u \in Nat /\ v \in Nat /\ u <= v /\ v <= Size
    BY <1>5, <2>2
  <2> HIDE DEF u, v
  <2>4. u <= Size
    BY <1>1, <2>3
  <2>5. Stored[l][p] = Roots(log)[w][w * p]
    BY <2>1, <2>4 DEF u, w, StoredAre
  <2> QED BY <1>3, <2>5 DEF p
<1>7. Root(e) = Roots(log)[Pow2[s + r]][w * x]
  <2>1. x \in Nat /\ Len(e) = Pow2[r] /\ Pow2[s] * (x + Pow2[r]) <= Size
    BY <1>1, <1>2, <1>5 DEF w, m
  <2>2. \A j \in 1..Pow2[r] : e[j] = Roots(log)[Pow2[s]][Pow2[s] * (x + (j - 1))]
    BY <1>6 DEF w, m
  <2>3. RootsFrom(e, s, r, x)
    BY <2>1, <2>2 DEF RootsFrom
  <2>4. Root(e) = Roots(log)[Pow2[s + r]][Pow2[s] * x]
    BY <2>1, <2>3, RootsOfRoots
  <2> QED BY <2>4 DEF w
<1>8. w * x = Pow2[s + r] * i
  BY <1>1, <1>4
<1> QED BY <1>7, <1>8

\* Stored hashes are the roots of whole tiles of tiles.
LEMMA StoredHash ==
  \A l \in 0..Size, i \in Nat : Pow2[l * H] * (i + 1) <= Size =>
    Stored[l][i] = Roots(log)[Pow2[l * H]][Pow2[l * H] * i]
<1> DEFINE R(l) == \A i \in Nat : Pow2[l * H] * (i + 1) <= Size =>
                     Stored[l][i] = Roots(log)[Pow2[l * H]][Pow2[l * H] * i]
           T == {l \in Nat : R(l)}
<1>1. Size \in Nat /\ H \in Nat
  BY MerkleAssumption
<1>2. 0 \in T
  <2>1. ASSUME NEW i \in Nat, 1 * (i + 1) <= Size PROVE Stored[0][i] = Roots(log)[1][1 * i]
    <3>1. Stored[0][i] = log[i + 1]
      BY StoredIs
    <3>2. Roots(log)[1][i] = log[i + 1]
      BY <1>1, <2>1, LogRoots
    <3> QED BY <3>1, <3>2
  <2>2. 0 * H = 0
    BY <1>1
  <2>3. R(0)
    BY <2>1, <2>2, Pow2Is
  <2> HIDE DEF R
  <2> QED BY <2>3
<1>3. ASSUME NEW l \in 0..(Size - 1), l \in T PROVE l + 1 \in T
  <2> DEFINE s == l * H
  <2>1. s \in Nat /\ (l + 1) * H = s + H /\ l \in Nat
    BY <1>1
  <2> HIDE DEF s
  <2>2. ASSUME NEW i \in Nat, Pow2[s + H] * (i + 1) <= Size
        PROVE  Stored[l + 1][i] = Roots(log)[Pow2[s + H]][Pow2[s + H] * i]
    <3>1. Stored[l + 1][i] = Root([j \in 1..Pow2[H] |-> Stored[l][i * Pow2[H] + j - 1]])
      BY StoredIs DEF StoredAbove
    <3>2. StoredAre(l, s)
      BY <1>3 DEF s, StoredAre
    <3>3. PICK e : e = [j \in 1..Pow2[H] |-> Stored[l][i * Pow2[H] + j - 1]]
      OBVIOUS
    <3>4. StoredFrom(e, l, H, i)
      BY <3>3 DEF StoredFrom
    <3>5. Root(e) = Roots(log)[Pow2[s + H]][Pow2[s + H] * i]
      BY <1>1, <2>1, <2>2, <3>2, <3>4, RootOfStored
    <3> QED BY <3>1, <3>3, <3>5
  <2>3. R(l + 1)
    BY <2>1, <2>2
  <2> HIDE DEF R
  <2> QED BY <2>1, <2>3
<1>4. 0..Size \subseteq T
  <2> HIDE DEF T
  <2> QED BY <1>1, <1>2, <1>3, NatUpTo
<1> QED BY <1>4

\* Subtree k, i of the tiles is that of the tree.
LEMMA SubtreeHash ==
  ASSUME NEW k \in Nat, NEW i \in Nat, Pow2[k] * (i + 1) <= Size
  PROVE  Subtree(k, i) = Roots(log)[Pow2[k]][Pow2[k] * i]
<1> DEFINE l == k \div H
           r == k % H
           s == l * H
<1>1. H \in Nat \ {0} /\ Size \in Nat
  BY MerkleAssumption
<1>2. l \in Nat /\ r \in Nat /\ k = H * l + r
  <2>1. l \in Nat /\ r \in 0..(H - 1) /\ k = H * l + r
    BY <1>1, DivMod
  <2> HIDE DEF l, r
  <2> QED BY <1>1, <2>1
<1>3. s \in Nat /\ s + r = k
  <2> HIDE DEF l, r
  <2> QED BY <1>1, <1>2
<1>4. l \in 0..Size
  <2>1. l <= k
    <3> HIDE DEF l, r
    <3>1. H * l >= 1 * l
      BY <1>1, <1>2
    <3> DEFINE z == H * l
    <3>2. z \in Nat /\ z >= l /\ k = z + r
      BY <1>1, <1>2, <3>1
    <3> HIDE DEF z
    <3> QED BY <1>2, <3>2
  <2> HIDE DEF l
  <2> DEFINE w == Pow2[k]
  <2>2. w \in Nat /\ k < w
    BY Pow2Facts
  <2>3. w * (i + 1) = w * i + w /\ w * i \in Nat
    <3> HIDE DEF w
    <3> QED BY <2>2
  <2>4. w * i + w <= Size
    BY <2>3
  <2> DEFINE z == w * i
  <2> HIDE DEF w, z
  <2>5. z \in Nat /\ z + w <= Size
    BY <2>3, <2>4 DEF z
  <2> QED BY <1>1, <1>2, <2>1, <2>2, <2>5
<1> HIDE DEF l, r
<1>5. StoredAre(l, s)
  BY <1>4, StoredHash DEF StoredAre
<1> HIDE DEF s
<1>6. Root([j \in 1..Pow2[r] |-> Stored[l][i * Pow2[r] + j - 1]]) =
        Roots(log)[Pow2[k]][Pow2[k] * i]
  <2>1. Pow2[s + r] * (i + 1) <= Size
    BY <1>3
  <2>2. PICK e : e = [j \in 1..Pow2[r] |-> Stored[l][i * Pow2[r] + j - 1]]
    OBVIOUS
  <2>3. StoredFrom(e, l, r, i)
    BY <2>2 DEF StoredFrom
  <2>4. Root(e) = Roots(log)[Pow2[s + r]][Pow2[s + r] * i]
    BY <1>2, <1>3, <1>5, <2>1, <2>3, RootOfStored
  <2> QED BY <1>3, <2>2, <2>4
<1> QED BY <1>6 DEF Subtree, l, r

\* RangeHash is what its equation says, where it is used.
LEMMA RangeHashIs ==
  ASSUME NEW a \in Nat
  PROVE  /\ RangeHash[0][a] = EmptyHash
         /\ \A n \in 1..Size :
              RangeHash[n][a] =
                IF IsPower(n) /\ a % n = 0 THEN Subtree(TrailingZeros(n), a \div n)
                ELSE NodeHash(RangeHash[Split(n)][a], RangeHash[n - Split(n)][a + Split(n)])
<1> DEFINE whole == {p \in Nat \X Nat : IsPower(p[1]) /\ p[2] % p[1] = 0}
           stop == ({0} \X Nat) \cup whole
           Here(f, n) == [b \in Nat |->
             CASE n = 0 -> EmptyHash
               [] IsPower(n) /\ b % n = 0 -> Subtree(TrailingZeros(n), b \div n)
               [] OTHER -> NodeHash(f[Split(n)][b], f[n - Split(n)][b + Split(n)])]
           base == [n \in Nat |-> [b \in Nat |->
                     IF n = 0 THEN EmptyHash ELSE Subtree(TrailingZeros(n), b \div n)]]
<1>1. Size \in Nat
  BY LogFacts
<1>2. PICK f : TreeFunction(f, Size, stop, base)
  <2>1. ASSUME NEW b \in Nat PROVE <<1, b>> \in stop
    <3>1. IsPower(1)
      BY IsPowerIs, Pow2Is
    <3>2. b % 1 = 0
      OBVIOUS
    <3> QED BY <3>1, <3>2
  <2>2. \A n \in {0, 1}, b \in Nat : <<n, b>> \in stop
    BY <2>1
  <2> HIDE DEF stop, base
  <2> QED BY <1>1, <2>2, TreeFunctionExists
<1>3. ASSUME NEW n \in 0..Size PROVE f[n] = Here(f, n)
  <2>1. f[n] = [b \in Nat |->
          IF <<n, b>> \in stop THEN base[n][b]
          ELSE NodeHash(f[Split(n)][b], f[n - Split(n)][b + Split(n)])]
    BY <1>2 DEF TreeFunction
  <2>2. \A b \in Nat : /\ <<n, b>> \in stop <=> n = 0 \/ (IsPower(n) /\ b % n = 0)
                       /\ base[n][b] = IF n = 0 THEN EmptyHash
                                       ELSE Subtree(TrailingZeros(n), b \div n)
    BY <1>1
  <2> HIDE DEF stop, base
  <2>3. ASSUME NEW b \in Nat
        PROVE  (IF <<n, b>> \in stop THEN base[n][b]
                ELSE NodeHash(f[Split(n)][b], f[n - Split(n)][b + Split(n)])) =
               (CASE n = 0 -> EmptyHash
                  [] IsPower(n) /\ b % n = 0 -> Subtree(TrailingZeros(n), b \div n)
                  [] OTHER -> NodeHash(f[Split(n)][b], f[n - Split(n)][b + Split(n)]))
    <3>1. CASE n = 0
      <4>1. ~IsPower(0)
        BY DEF IsPower
      <4> QED BY <2>2, <3>1, <4>1
    <3>2. CASE n # 0
      BY <2>2, <3>2
    <3> QED BY <3>1, <3>2
  <2> QED BY <2>1, <2>3
<1>4. f = [n \in 0..Size |-> Here(f, n)]
  <2>1. f = [n \in 0..Size |-> f[n]]
    BY <1>2 DEF TreeFunction
  <2> HIDE DEF Here
  <2> QED BY <1>3, <2>1
<1>5. RangeHash = [n \in 0..Size |-> Here(RangeHash, n)]
  <2>1. \E g : g = [n \in 0..Size |-> Here(g, n)]
    BY <1>4
  <2> DEFINE R == CHOOSE g : g = [n \in 0..Size |-> Here(g, n)]
  <2>2. R = [n \in 0..Size |-> Here(R, n)]
    BY <2>1
  <2>3. RangeHash = R
    BY DEF RangeHash
  <2> HIDE DEF R, Here
  <2> QED BY <2>2, <2>3
<1>6. \A n \in 0..Size : RangeHash[n] = Here(RangeHash, n)
  <2> HIDE DEF Here
  <2> QED BY <1>5
<1>7. RangeHash[0][a] = EmptyHash
  <2>1. PICK z \in 0..Size : z = 0
    BY <1>1
  <2>2. RangeHash[z] = Here(RangeHash, z)
    <3> HIDE DEF Here
    <3> QED BY <1>6
  <2>3. Here(RangeHash, z)[a] = EmptyHash
    <3>1. ~IsPower(z)
      BY <2>1 DEF IsPower
    <3> QED BY <2>1, <3>1
  <2> HIDE DEF Here
  <2> QED BY <2>1, <2>2, <2>3
<1>8. ASSUME NEW n \in 1..Size
      PROVE  RangeHash[n][a] =
                IF IsPower(n) /\ a % n = 0 THEN Subtree(TrailingZeros(n), a \div n)
                ELSE NodeHash(RangeHash[Split(n)][a], RangeHash[n - Split(n)][a + Split(n)])
  <2>1. RangeHash[n] = Here(RangeHash, n) /\ n # 0
    <3> HIDE DEF Here
    <3> QED BY <1>1, <1>6
  <2> QED BY <2>1
<1> QED BY <1>7, <1>8

\* The hashes and roots that are read from tiles are those of the tree.
LEMMA RangeIsRoots ==
  \A n \in 0..Size, a \in Nat : a + n <= Size => RangeHash[n][a] = Roots(log)[n][a]
<1> DEFINE R(n, a) == a + n <= Size => RangeHash[n][a] = Roots(log)[n][a]
           T == {k \in Nat : \A n \in 0..k, a \in Nat : n <= Size => R(n, a)}
<1>1. Size \in Nat
  BY LogFacts
<1>2. 0 \in T
  <2>1. \A a \in Nat : R(0, a)
    BY RangeHashIs, LogRoots
  <2> HIDE DEF R
  <2> QED BY <2>1
<1>3. ASSUME NEW k \in 0..(Size - 1), k \in T PROVE k + 1 \in T
  <2> DEFINE n == k + 1
  <2>1. n \in Nat /\ n \in 1..Size /\ \A i \in 0..n : i \in 0..k \/ i = n
    BY <1>1
  <2> HIDE DEF n
  <2>2. ASSUME NEW a \in Nat, a + n <= Size PROVE RangeHash[n][a] = Roots(log)[n][a]
    <3>1. CASE IsPower(n) /\ a % n = 0
      <4>1. PICK i \in Nat : n = Pow2[i]
        BY <2>1, <3>1, IsPowerIs
      <4>2. TrailingZeros(n) = i
        <5>1. Odd(1) /\ Pow2[i] * 1 = Pow2[i] /\ 1 \in Nat
          BY Pow2Facts DEF Odd
        <5> QED BY <4>1, <5>1, TrailingZerosIs
      <4> DEFINE p == a \div n
      <4>3. p \in Nat /\ a = n * p
        <5>1. a \div n \in Nat /\ a = n * (a \div n) + (a % n)
          <6>1. n \in Nat \ {0}
            BY <2>1
          <6> QED BY <6>1, DivMod, Zenon
        <5>2. n * p \in Nat /\ n * p + 0 = n * p
          BY <2>1, <5>1
        <5> QED BY <3>1, <5>1, <5>2
      <4>4. RangeHash[n][a] = Subtree(i, p)
        BY <2>1, <3>1, <4>2, RangeHashIs
      <4> HIDE DEF p
      <4>5. n * (p + 1) = a + n
        BY <2>1, <4>3
      <4>6. Pow2[i] * (p + 1) <= Size
        BY <2>2, <4>1, <4>5
      <4>7. Subtree(i, p) = Roots(log)[Pow2[i]][Pow2[i] * p]
        BY <4>3, <4>6, SubtreeHash
      <4> QED BY <4>1, <4>3, <4>4, <4>7
    <3>2. CASE ~(IsPower(n) /\ a % n = 0)
      <4>1. n # 1
        <5>1. IsPower(1) /\ a % 1 = 0
          BY IsPowerIs, Pow2Is
        <5> QED BY <3>2, <5>1
      <4> DEFINE s == Split(n)
                 r == n - s
      <4>2. s \in 1..(n - 1) /\ r \in 1..(n - 1) /\ s + r = n
        BY <2>1, <4>1, SplitFacts
      <4>3. Roots(log)[n][a] = NodeHash(Roots(log)[s][a], Roots(log)[r][a + s])
        <5>1. n \in 2..Size
          BY <2>1, <4>1
        <5> QED BY <5>1, LogRoots
      <4>4. RangeHash[n][a] = NodeHash(RangeHash[s][a], RangeHash[r][a + s])
        BY <2>1, <3>2, RangeHashIs
      <4> HIDE DEF s, r
      <4>5. s \in 0..k /\ r \in 0..k /\ s <= Size /\ r <= Size /\ a + s \in Nat
            /\ a + s <= Size /\ (a + s) + r <= Size
        BY <1>1, <2>1, <2>2, <4>2 DEF n
      <4> HIDE DEF R
      <4>6. R(s, a) /\ R(r, a + s)
        BY <1>3, <4>5
      <4> QED BY <4>3, <4>4, <4>5, <4>6 DEF R
    <3> QED BY <3>1, <3>2
  <2>3. \A a \in Nat : R(n, a)
    BY <2>2
  <2> HIDE DEF R
  <2>4. \A i \in 0..n, a \in Nat : i <= Size => R(i, a)
    BY <1>3, <2>1, <2>3
  <2>5. n \in T
    BY <2>1, <2>4
  <2> HIDE DEF T
  <2> QED BY <2>5 DEF n
<1> HIDE DEF T, R
<1>4. Size \in T
  <2>1. 0..Size \subseteq T
    BY <1>1, <1>2, <1>3, NatUpTo
  <2> QED BY <1>1, <2>1
<1> QED BY <1>1, <1>4 DEF T, R

\* The root the tile log gives for n entries.
LEMMA RootAtIs ==
  ASSUME NEW n \in 0..Size
  PROVE  RootAt(n) = Roots(log)[n][0] /\ RootAt(n) = Root(SubSeq(log, 1, n))
<1>1. 0 + n <= Size /\ 0 \in Nat
  BY LogFacts
<1> QED BY <1>1, RangeIsRoots, RootOfFirst DEF RootAt, TileRoots

----------------------------------------------------------------------------
(* Paths.  All four provers walk down to one entry, in a tree of m entries: the *)
(* last one before the place they are asked about.                              *)

InclusionStop == {1} \X Nat
ConsistencyStop(m) == {p \in Nat \X Nat : m = p[2] + p[1] \/ p[1] = 1}

NoPath == [n \in Nat |-> [a \in Nat |-> <<>>]]
Seed(hash) == [n \in Nat |-> [a \in Nat |-> IF a = 0 THEN <<>> ELSE <<hash[n][a]>>]]

\* Entry m is in the left part.
Left(m) == {p \in Nat \X Nat : m < p[2] + Split(p[1])}

\* One equation of a walk.
WalkAt(g, n, a, stop, base, left, hash, side) ==
  g[n][a] = IF <<n, a>> \in stop THEN base[n][a]
            ELSE IF <<n, a>> \in left
                 THEN Collected(side, g[Split(n)][a], hash[n - Split(n)][a + Split(n)])
                 ELSE Collected(side, g[n - Split(n)][a + Split(n)], hash[Split(n)][a])

\* A walk satisfies its equations.
LEMMA WalkIs ==
  ASSUME NEW f, NEW m \in Nat, NEW stop, NEW base, NEW left, NEW hash, NEW side,
         WalkFunction(f, m, stop, base, left, hash, side)
  PROVE  \A n \in 1..m, a \in Nat : WalkAt(f, n, a, stop, base, left, hash, side)
<1> DEFINE Here(n, a) ==
             IF <<n, a>> \in stop THEN base[n][a]
             ELSE IF <<n, a>> \in left
                  THEN Collected(side, f[Split(n)][a], hash[n - Split(n)][a + Split(n)])
                  ELSE Collected(side, f[n - Split(n)][a + Split(n)], hash[Split(n)][a])
<1>1. f = [n \in 1..m |-> [a \in Nat |-> Here(n, a)]]
  BY DEF WalkFunction
<1>2. \A n \in 1..m, a \in Nat : f[n][a] = Here(n, a)
  <2> HIDE DEF Here
  <2> QED BY <1>1
<1> QED BY <1>2 DEF WalkAt

\* vc-log's inclusion proof is such a walk, ...
LEMMA InclusionProofIs ==
  ASSUME NEW d, Len(d) \in Nat \ {0}, NEW m \in Nat
  PROVE  \E f : /\ WalkFunction(f, Len(d), InclusionStop, NoPath, Left(m), Roots(d), "end")
                /\ InclusionProof(d, m) = f[Len(d)][0]
<1> DEFINE size == Len(d)
           Row(f, n) == [a \in Nat |->
             IF n = 1 THEN <<>>
             ELSE LET k == Split(n)
                  IN  IF m < a + k THEN Append(f[k][a], Roots(d)[n - k][a + k])
                                   ELSE Append(f[n - k][a + k], Roots(d)[k][a])]
           Walk(f, n) == [a \in Nat |->
             IF <<n, a>> \in InclusionStop THEN NoPath[n][a]
             ELSE IF <<n, a>> \in Left(m)
                  THEN Collected("end", f[Split(n)][a], Roots(d)[n - Split(n)][a + Split(n)])
                  ELSE Collected("end", f[n - Split(n)][a + Split(n)], Roots(d)[Split(n)][a])]
           R == CHOOSE f : f = [n \in 1..size |-> Row(f, n)]
<1>1. ASSUME NEW f, NEW n \in 1..size PROVE Row(f, n) = Walk(f, n)
  <2>1. n \in Nat
    OBVIOUS
  <2>2. \A a \in Nat : /\ <<n, a>> \in InclusionStop <=> n = 1
                       /\ <<n, a>> \in Left(m) <=> m < a + Split(n)
                       /\ NoPath[n][a] = <<>>
    BY <2>1 DEF InclusionStop, Left, NoPath
  <2>3. \A path, hash : Collected("end", path, hash) = Append(path, hash)
    BY DEF Collected
  <2> QED BY <2>2, <2>3
<1>2. \E f : f = [n \in 1..size |-> Row(f, n)]
  <2>1. PICK f : WalkFunction(f, size, InclusionStop, NoPath, Left(m), Roots(d), "end")
    <3>1. \A a \in Nat : <<1, a>> \in InclusionStop
      BY DEF InclusionStop
    <3>2. size \in Nat
      OBVIOUS
    <3> HIDE DEF size
    <3> QED BY <3>1, <3>2, WalkFunctionExists
  <2>2. f = [n \in 1..size |-> Walk(f, n)]
    BY <2>1 DEF WalkFunction
  <2> HIDE DEF Row, Walk, size
  <2> QED BY <1>1, <2>2
<1>3. R = [n \in 1..size |-> Row(R, n)]
  <2> HIDE DEF Row, size
  <2> QED BY <1>2
<1>4. InclusionProof(d, m) = R[size][0]
  BY DEF InclusionProof
<1>5. R = [n \in 1..size |-> Walk(R, n)]
  <2> HIDE DEF R, Row, Walk, size
  <2> QED BY <1>1, <1>3
<1>6. WalkFunction(R, size, InclusionStop, NoPath, Left(m), Roots(d), "end")
  <2> HIDE DEF R
  <2> QED BY <1>5 DEF WalkFunction
<1> HIDE DEF R
<1> QED BY <1>4, <1>6

\* ... and the tile log's is one that collects in front, and is then reversed.
LEMMA TiledInclusionProofIs ==
  ASSUME NEW index \in Nat, NEW last \in Nat \ {0}
  PROVE  \E f : /\ WalkFunction(f, last, InclusionStop, NoPath, Left(index), RangeHash, "front")
                /\ TiledInclusionProof(index, last) = Reverse(f[last][0])
<1> DEFINE size == last
           Row(f, n) == [a \in Nat |->
             IF n = 1 THEN <<>>
             ELSE LET k == Split(n)
                  IN  IF index < a + k THEN <<RangeHash[n - k][a + k]>> \o f[k][a]
                                       ELSE <<RangeHash[k][a]>> \o f[n - k][a + k]]
           Walk(f, n) == [a \in Nat |->
             IF <<n, a>> \in InclusionStop THEN NoPath[n][a]
             ELSE IF <<n, a>> \in Left(index)
                  THEN Collected("front", f[Split(n)][a], RangeHash[n - Split(n)][a + Split(n)])
                  ELSE Collected("front", f[n - Split(n)][a + Split(n)], RangeHash[Split(n)][a])]
           R == CHOOSE f : f = [n \in 1..size |-> Row(f, n)]
<1>1. ASSUME NEW f, NEW n \in 1..size PROVE Row(f, n) = Walk(f, n)
  <2>1. n \in Nat
    OBVIOUS
  <2>2. \A a \in Nat : /\ <<n, a>> \in InclusionStop <=> n = 1
                       /\ <<n, a>> \in Left(index) <=> index < a + Split(n)
                       /\ NoPath[n][a] = <<>>
    BY <2>1 DEF InclusionStop, Left, NoPath
  <2>3. \A path, hash : Collected("front", path, hash) = <<hash>> \o path
    BY DEF Collected
  <2> QED BY <2>2, <2>3
<1>2. \E f : f = [n \in 1..size |-> Row(f, n)]
  <2>1. PICK f : WalkFunction(f, size, InclusionStop, NoPath, Left(index), RangeHash, "front")
    <3>1. \A a \in Nat : <<1, a>> \in InclusionStop
      BY DEF InclusionStop, ConsistencyStop
    <3>2. size \in Nat
      OBVIOUS
    <3> HIDE DEF size
    <3> QED BY <3>1, <3>2, WalkFunctionExists
  <2>2. f = [n \in 1..size |-> Walk(f, n)]
    BY <2>1 DEF WalkFunction
  <2> HIDE DEF Row, Walk, size
  <2> QED BY <1>1, <2>2
<1>3. R = [n \in 1..size |-> Row(R, n)]
  <2> HIDE DEF Row, size
  <2> QED BY <1>2
<1>4. TiledInclusionProof(index, last) = Reverse(R[size][0])
  BY DEF TiledInclusionProof
<1>5. R = [n \in 1..size |-> Walk(R, n)]
  <2> HIDE DEF R, Row, Walk, size
  <2> QED BY <1>1, <1>3
<1>6. WalkFunction(R, size, InclusionStop, NoPath, Left(index), RangeHash, "front")
  <2> HIDE DEF R
  <2> QED BY <1>5 DEF WalkFunction
<1> HIDE DEF R
<1> QED BY <1>4, <1>6

\* So are the consistency proofs, ...
LEMMA ConsistencyProofIs ==
  ASSUME NEW d, Len(d) \in Nat \ {0}, NEW first \in Nat \ {0}
  PROVE  \E f : /\ WalkFunction(f, Len(d), ConsistencyStop(first), Seed(Roots(d)), Left(first - 1), Roots(d), "end")
                /\ ConsistencyProof(d, first) = f[Len(d)][0]
<1> DEFINE size == Len(d)
           Row(f, n) == [a \in Nat |->
             IF first = a + n \/ n = 1 THEN IF a = 0 THEN <<>> ELSE <<Roots(d)[n][a]>>
             ELSE LET k == Split(n)
                  IN  IF first <= a + k THEN Append(f[k][a], Roots(d)[n - k][a + k])
                                        ELSE Append(f[n - k][a + k], Roots(d)[k][a])]
           Walk(f, n) == [a \in Nat |->
             IF <<n, a>> \in ConsistencyStop(first) THEN Seed(Roots(d))[n][a]
             ELSE IF <<n, a>> \in Left(first - 1)
                  THEN Collected("end", f[Split(n)][a], Roots(d)[n - Split(n)][a + Split(n)])
                  ELSE Collected("end", f[n - Split(n)][a + Split(n)], Roots(d)[Split(n)][a])]
           R == CHOOSE f : f = [n \in 1..size |-> Row(f, n)]
<1>1. ASSUME NEW f, NEW n \in 1..size PROVE Row(f, n) = Walk(f, n)
  <2>1. n \in Nat /\ n > 0
    OBVIOUS
  <2>2. \A a \in Nat : /\ <<n, a>> \in ConsistencyStop(first) <=> first = a + n \/ n = 1
                       /\ Seed(Roots(d))[n][a] = IF a = 0 THEN <<>> ELSE <<Roots(d)[n][a]>>
    BY <2>1 DEF ConsistencyStop, Seed
  <2>3. \A path, hash : Collected("end", path, hash) = Append(path, hash)
    BY DEF Collected
  <2>4. ASSUME NEW a \in Nat, n # 1 PROVE <<n, a>> \in Left(first - 1) <=> first <= a + Split(n)
    <3>1. Split(n) \in 1..(n - 1)
      BY <2>1, <2>4, SplitFacts
    <3> DEFINE k == Split(n)
    <3>2. k \in Nat
      BY <3>1
    <3> HIDE DEF k
    <3>3. first - 1 < a + k <=> first <= a + k
      BY <3>2
    <3> QED BY <2>1, <3>3 DEF Left, k
  <2>5. ASSUME NEW a \in Nat PROVE Row(f, n)[a] = Walk(f, n)[a]
    <3>1. CASE first = a + n \/ n = 1
      BY <2>2, <3>1
    <3>2. CASE ~(first = a + n \/ n = 1)
      BY <2>2, <2>3, <2>4, <3>2
    <3> QED BY <3>1, <3>2
  <2>6. Row(f, n) = [a \in Nat |-> Row(f, n)[a]] /\ Walk(f, n) = [a \in Nat |-> Walk(f, n)[a]]
    OBVIOUS
  <2> HIDE DEF Row, Walk
  <2> QED BY <2>5, <2>6
<1>2. \E f : f = [n \in 1..size |-> Row(f, n)]
  <2>1. PICK f : WalkFunction(f, size, ConsistencyStop(first), Seed(Roots(d)), Left(first - 1), Roots(d), "end")
    <3>1. \A a \in Nat : <<1, a>> \in ConsistencyStop(first)
      BY DEF InclusionStop, ConsistencyStop
    <3>2. size \in Nat
      OBVIOUS
    <3> HIDE DEF size
    <3> QED BY <3>1, <3>2, WalkFunctionExists
  <2>2. f = [n \in 1..size |-> Walk(f, n)]
    BY <2>1 DEF WalkFunction
  <2> HIDE DEF Row, Walk, size
  <2> QED BY <1>1, <2>2
<1>3. R = [n \in 1..size |-> Row(R, n)]
  <2> HIDE DEF Row, size
  <2> QED BY <1>2
<1>4. ConsistencyProof(d, first) = R[size][0]
  BY DEF ConsistencyProof
<1>5. R = [n \in 1..size |-> Walk(R, n)]
  <2> HIDE DEF R, Row, Walk, size
  <2> QED BY <1>1, <1>3
<1>6. WalkFunction(R, size, ConsistencyStop(first), Seed(Roots(d)), Left(first - 1), Roots(d), "end")
  <2> HIDE DEF R
  <2> QED BY <1>5 DEF WalkFunction
<1> HIDE DEF R
<1> QED BY <1>4, <1>6

\* ... which end a walk where the first tree ends.
LEMMA TiledConsistencyProofIs ==
  ASSUME NEW first \in Nat \ {0}, NEW last \in Nat \ {0}
  PROVE  \E f : /\ WalkFunction(f, last, ConsistencyStop(first), Seed(RangeHash), Left(first - 1), RangeHash, "front")
                /\ TiledConsistencyProof(first, last) = Reverse(f[last][0])
<1> DEFINE size == last
           Row(f, n) == [a \in Nat |->
             IF first = a + n \/ n = 1 THEN IF a = 0 THEN <<>> ELSE <<RangeHash[n][a]>>
             ELSE LET k == Split(n)
                  IN  IF first <= a + k THEN <<RangeHash[n - k][a + k]>> \o f[k][a]
                                        ELSE <<RangeHash[k][a]>> \o f[n - k][a + k]]
           Walk(f, n) == [a \in Nat |->
             IF <<n, a>> \in ConsistencyStop(first) THEN Seed(RangeHash)[n][a]
             ELSE IF <<n, a>> \in Left(first - 1)
                  THEN Collected("front", f[Split(n)][a], RangeHash[n - Split(n)][a + Split(n)])
                  ELSE Collected("front", f[n - Split(n)][a + Split(n)], RangeHash[Split(n)][a])]
           R == CHOOSE f : f = [n \in 1..size |-> Row(f, n)]
<1>1. ASSUME NEW f, NEW n \in 1..size PROVE Row(f, n) = Walk(f, n)
  <2>1. n \in Nat /\ n > 0
    OBVIOUS
  <2>2. \A a \in Nat : /\ <<n, a>> \in ConsistencyStop(first) <=> first = a + n \/ n = 1
                       /\ Seed(RangeHash)[n][a] = IF a = 0 THEN <<>> ELSE <<RangeHash[n][a]>>
    BY <2>1 DEF ConsistencyStop, Seed
  <2>3. \A path, hash : Collected("front", path, hash) = <<hash>> \o path
    BY DEF Collected
  <2>4. ASSUME NEW a \in Nat, n # 1 PROVE <<n, a>> \in Left(first - 1) <=> first <= a + Split(n)
    <3>1. Split(n) \in 1..(n - 1)
      BY <2>1, <2>4, SplitFacts
    <3> DEFINE k == Split(n)
    <3>2. k \in Nat
      BY <3>1
    <3> HIDE DEF k
    <3>3. first - 1 < a + k <=> first <= a + k
      BY <3>2
    <3> QED BY <2>1, <3>3 DEF Left, k
  <2>5. ASSUME NEW a \in Nat PROVE Row(f, n)[a] = Walk(f, n)[a]
    <3>1. CASE first = a + n \/ n = 1
      BY <2>2, <3>1
    <3>2. CASE ~(first = a + n \/ n = 1)
      BY <2>2, <2>3, <2>4, <3>2
    <3> QED BY <3>1, <3>2
  <2>6. Row(f, n) = [a \in Nat |-> Row(f, n)[a]] /\ Walk(f, n) = [a \in Nat |-> Walk(f, n)[a]]
    OBVIOUS
  <2> HIDE DEF Row, Walk
  <2> QED BY <2>5, <2>6
<1>2. \E f : f = [n \in 1..size |-> Row(f, n)]
  <2>1. PICK f : WalkFunction(f, size, ConsistencyStop(first), Seed(RangeHash), Left(first - 1), RangeHash, "front")
    <3>1. \A a \in Nat : <<1, a>> \in ConsistencyStop(first)
      BY DEF InclusionStop, ConsistencyStop
    <3>2. size \in Nat
      OBVIOUS
    <3> HIDE DEF size
    <3> QED BY <3>1, <3>2, WalkFunctionExists
  <2>2. f = [n \in 1..size |-> Walk(f, n)]
    BY <2>1 DEF WalkFunction
  <2> HIDE DEF Row, Walk, size
  <2> QED BY <1>1, <2>2
<1>3. R = [n \in 1..size |-> Row(R, n)]
  <2> HIDE DEF Row, size
  <2> QED BY <1>2
<1>4. TiledConsistencyProof(first, last) = Reverse(R[size][0])
  BY DEF TiledConsistencyProof
<1>5. R = [n \in 1..size |-> Walk(R, n)]
  <2> HIDE DEF R, Row, Walk, size
  <2> QED BY <1>1, <1>3
<1>6. WalkFunction(R, size, ConsistencyStop(first), Seed(RangeHash), Left(first - 1), RangeHash, "front")
  <2> HIDE DEF R
  <2> QED BY <1>5 DEF WalkFunction
<1> HIDE DEF R
<1> QED BY <1>4, <1>6

\* Two walks find the same hashes, and start from the same paths, one reversed.
SameHashes(hf, hg, size, S) ==
  \A n \in 0..size, a \in Nat : a + n <= size => hf[n][a] = hg[n][a] /\ hf[n][a] \in S
SameSeeds(bf, bg, stop, size, S) ==
  /\ \A a \in Nat : <<1, a>> \in stop
  /\ \A n \in 1..size, a \in Nat : a + n <= size /\ <<n, a>> \in stop =>
       bg[n][a] \in Seq(S) /\ bf[n][a] = Reverse(bg[n][a])

\* A walk that collects at the end and one that collects in front, over the same
\* hashes, give the same path, one of them reversed.
LEMMA PathsAgree ==
  ASSUME NEW f, NEW g, NEW size \in Nat, NEW stop, NEW bf, NEW bg, NEW left, NEW hf, NEW hg, NEW S,
         WalkFunction(f, size, stop, bf, left, hf, "end"),
         WalkFunction(g, size, stop, bg, left, hg, "front"),
         SameHashes(hf, hg, size, S), SameSeeds(bf, bg, stop, size, S)
  PROVE  \A n \in 1..size, a \in Nat : a + n <= size =>
           g[n][a] \in Seq(S) /\ f[n][a] = Reverse(g[n][a])
<1> DEFINE R(n, a) == a + n <= size => g[n][a] \in Seq(S) /\ f[n][a] = Reverse(g[n][a])
           T == {k \in Nat : \A n \in 1..k, a \in Nat : n <= size => R(n, a)}
<1>1. /\ \A n \in 1..size, a \in Nat : WalkAt(f, n, a, stop, bf, left, hf, "end")
      /\ \A n \in 1..size, a \in Nat : WalkAt(g, n, a, stop, bg, left, hg, "front")
  BY WalkIs
<1>2. /\ \A path, hash : Collected("end", path, hash) = Append(path, hash)
      /\ \A path, hash : Collected("front", path, hash) = <<hash>> \o path
  BY DEF Collected
<1>3. 0 \in T
  OBVIOUS
<1>4. ASSUME NEW k \in 0..(size - 1), k \in T PROVE k + 1 \in T
  <2> DEFINE n == k + 1
  <2>1. n \in Nat /\ n \in 1..size /\ \A i \in 1..n : i \in 1..k \/ i = n
    OBVIOUS
  <2> HIDE DEF n
  <2>2. ASSUME NEW a \in Nat, a + n <= size PROVE g[n][a] \in Seq(S) /\ f[n][a] = Reverse(g[n][a])
    <3>1. CASE <<n, a>> \in stop
      <4>1. f[n][a] = bf[n][a] /\ g[n][a] = bg[n][a]
        BY <1>1, <2>1, <3>1 DEF WalkAt
      <4> QED BY <2>1, <2>2, <3>1, <4>1 DEF SameSeeds
    <3>2. CASE <<n, a>> \notin stop
      <4> DEFINE s == Split(n)
                 r == n - s
                 b == a + s
      <4>1. n > 1
        BY <2>1, <3>2 DEF SameSeeds
      <4>2. s \in 1..(n - 1) /\ r \in 1..(n - 1) /\ s + r = n
        BY <2>1, <4>1, SplitFacts
      <4>3. /\ f[n][a] = IF <<n, a>> \in left THEN Append(f[s][a], hf[r][b])
                         ELSE Append(f[r][b], hf[s][a])
            /\ g[n][a] = IF <<n, a>> \in left THEN <<hg[r][b]>> \o g[s][a]
                         ELSE <<hg[s][a]>> \o g[r][b]
        <5>1. /\ WalkAt(f, n, a, stop, bf, left, hf, "end")
              /\ WalkAt(g, n, a, stop, bg, left, hg, "front")
          BY <1>1, <2>1
        <5>2. /\ f[n][a] = IF <<n, a>> \in left THEN Collected("end", f[s][a], hf[r][b])
                           ELSE Collected("end", f[r][b], hf[s][a])
              /\ g[n][a] = IF <<n, a>> \in left THEN Collected("front", g[s][a], hg[r][b])
                           ELSE Collected("front", g[r][b], hg[s][a])
          BY <3>2, <5>1 DEF WalkAt
        <5> HIDE DEF s, r, b
        <5> QED BY <1>2, <5>2
      <4> HIDE DEF s, r
      <4>4. s \in 1..k /\ r \in 1..k /\ s <= size /\ r <= size /\ b \in Nat
            /\ s \in 0..size /\ r \in 0..size /\ a + s <= size /\ b + r <= size
        BY <2>1, <2>2, <4>2 DEF n
      <4> HIDE DEF R, b
      <4>5. R(s, a) /\ R(r, b)
        BY <1>4, <4>4
      <4>6. g[s][a] \in Seq(S) /\ f[s][a] = Reverse(g[s][a])
            /\ g[r][b] \in Seq(S) /\ f[r][b] = Reverse(g[r][b])
        BY <4>4, <4>5 DEF R
      <4>7. hf[r][b] = hg[r][b] /\ hf[r][b] \in S /\ hf[s][a] = hg[s][a] /\ hf[s][a] \in S
        BY <4>4 DEF SameHashes
      <4>8. CASE <<n, a>> \in left
        <5>1. <<hf[r][b]>> \o g[s][a] \in Seq(S)
              /\ Reverse(<<hf[r][b]>> \o g[s][a]) = Append(Reverse(g[s][a]), hf[r][b])
          BY <4>6, <4>7, ReverseFront
        <5> QED BY <4>3, <4>6, <4>7, <4>8, <5>1
      <4>9. CASE <<n, a>> \notin left
        <5>1. <<hf[s][a]>> \o g[r][b] \in Seq(S)
              /\ Reverse(<<hf[s][a]>> \o g[r][b]) = Append(Reverse(g[r][b]), hf[s][a])
          BY <4>6, <4>7, ReverseFront
        <5> QED BY <4>3, <4>6, <4>7, <4>9, <5>1
      <4> QED BY <4>8, <4>9
    <3> QED BY <3>1, <3>2
  <2>3. \A a \in Nat : R(n, a)
    BY <2>2
  <2> HIDE DEF R
  <2>4. \A i \in 1..n, a \in Nat : i <= size => R(i, a)
    BY <1>4, <2>1, <2>3
  <2>5. n \in T
    BY <2>1, <2>4
  <2> HIDE DEF T
  <2> QED BY <2>5 DEF n
<1> HIDE DEF T, R
<1>5. size \in T
  <2>1. 0..size \subseteq T
    BY <1>3, <1>4, NatUpTo
  <2> QED BY <2>1
<1>6. \A n \in 1..size, a \in Nat : R(n, a)
  BY <1>5 DEF T
<1> QED BY <1>6 DEF R

\* The hashes of the log's tree.
LogHashes == {Roots(log)[p[1]][p[2]] : p \in (0..Size) \X Nat}

\* They are those of the slices of the log.
LEMMA LogHashesAre == \A x \in 0..Size, y \in Nat : Roots(log)[x][y] \in LogHashes
<1> SUFFICES ASSUME NEW x \in 0..Size, NEW y \in Nat PROVE Roots(log)[x][y] \in LogHashes
  OBVIOUS
<1>1. <<x, y>> \in (0..Size) \X Nat /\ <<x, y>>[1] = x /\ <<x, y>>[2] = y
  OBVIOUS
<1> QED BY <1>1 DEF LogHashes

\* The roots of the first n entries and those read from tiles are the log's.
LEMMA HashesAgree ==
  ASSUME NEW size \in 0..Size
  PROVE  \A n \in 0..size, a \in Nat : a + n <= size =>
           /\ Roots(SubSeq(log, 1, size))[n][a] = RangeHash[n][a]
           /\ Roots(SubSeq(log, 1, size))[n][a] = Roots(log)[n][a]
           /\ Roots(SubSeq(log, 1, size))[n][a] \in LogHashes
<1> SUFFICES ASSUME NEW n \in 0..size, NEW a \in Nat, a + n <= size
             PROVE  /\ Roots(SubSeq(log, 1, size))[n][a] = RangeHash[n][a]
                    /\ Roots(SubSeq(log, 1, size))[n][a] = Roots(log)[n][a]
                    /\ Roots(SubSeq(log, 1, size))[n][a] \in LogHashes
  OBVIOUS
<1>1. Size \in Nat /\ n \in 0..Size /\ a + n <= Size
  BY LogFacts
<1>2. Roots(SubSeq(log, 1, size))[n][a] = Roots(log)[n][a]
  BY RootOfFirst
<1>3. RangeHash[n][a] = Roots(log)[n][a]
  BY <1>1, RangeIsRoots
<1>4. Roots(log)[n][a] \in LogHashes
  <2>1. <<n, a>> \in (0..Size) \X Nat
    BY <1>1
  <2> QED BY <2>1 DEF LogHashes
<1> QED BY <1>2, <1>3, <1>4

\* The tile log's inclusion proof is that of vc-log.
LEMMA InclusionProofsAgree ==
  ASSUME NEW size \in 1..Size, NEW index \in 0..(size - 1)
  PROVE  /\ TiledInclusionProof(index, size) = InclusionProof(SubSeq(log, 1, size), index)
         /\ TiledInclusionProof(index, size) \in Seq(LogHashes)
<1> DEFINE d == SubSeq(log, 1, size)
<1>1. size \in Nat \ {0} /\ index \in Nat /\ size \in 0..Size
  BY LogFacts
<1>2. Len(d) = size
  BY <1>1, RootOfFirst
<1>3. PICK f : /\ WalkFunction(f, size, InclusionStop, NoPath, Left(index), Roots(d), "end")
               /\ InclusionProof(d, index) = f[size][0]
  <2> HIDE DEF d
  <2> QED BY <1>1, <1>2, InclusionProofIs
<1>4. PICK g : /\ WalkFunction(g, size, InclusionStop, NoPath, Left(index), RangeHash, "front")
               /\ TiledInclusionProof(index, size) = Reverse(g[size][0])
  BY <1>1, TiledInclusionProofIs
<1>5. \A n \in 0..size, a \in Nat : a + n <= size =>
        Roots(d)[n][a] = RangeHash[n][a] /\ Roots(d)[n][a] \in LogHashes
  BY <1>1, HashesAgree
<1> HIDE DEF d
<1>6. \A n \in 1..size, a \in Nat : a + n <= size =>
        g[n][a] \in Seq(LogHashes) /\ f[n][a] = Reverse(g[n][a])
  <2>1. SameSeeds(NoPath, NoPath, InclusionStop, size, LogHashes)
    <3>1. \A n \in 1..size, a \in Nat : NoPath[n][a] = <<>>
      BY <1>1 DEF NoPath
    <3>2. \A a \in Nat : <<1, a>> \in InclusionStop
      BY DEF InclusionStop
    <3>3. <<>> \in Seq(LogHashes) /\ <<>> = Reverse(<<>>)
      BY ReverseShort
    <3> QED BY <3>1, <3>2, <3>3 DEF SameSeeds
  <2>2. SameHashes(Roots(d), RangeHash, size, LogHashes)
    BY <1>5 DEF SameHashes
  <2> QED BY <1>1, <1>3, <1>4, <2>1, <2>2, PathsAgree
<1>7. g[size][0] \in Seq(LogHashes) /\ f[size][0] = Reverse(g[size][0])
  <2>1. size \in 1..size /\ 0 \in Nat /\ 0 + size <= size
    BY <1>1
  <2> QED BY <1>6, <2>1
<1>8. Reverse(g[size][0]) \in Seq(LogHashes)
  BY <1>7, ReverseIs
<1> QED BY <1>3, <1>4, <1>7, <1>8 DEF d

\* The tile log's consistency proof is that of vc-log.
LEMMA ConsistencyProofsAgree ==
  ASSUME NEW size \in 1..Size, NEW first \in 1..size
  PROVE  /\ TiledConsistencyProof(first, size) = ConsistencyProof(SubSeq(log, 1, size), first)
         /\ TiledConsistencyProof(first, size) \in Seq(LogHashes)
<1> DEFINE d == SubSeq(log, 1, size)
           stop == ConsistencyStop(first)
           left == Left(first - 1)
<1>1. size \in Nat \ {0} /\ first \in Nat \ {0} /\ size \in 0..Size
  BY LogFacts
<1>2. Len(d) = size
  BY <1>1, RootOfFirst
<1>3. PICK f : /\ WalkFunction(f, size, stop, Seed(Roots(d)), left, Roots(d), "end")
               /\ ConsistencyProof(d, first) = f[size][0]
  <2> HIDE DEF d
  <2> QED BY <1>1, <1>2, ConsistencyProofIs
<1>4. PICK g : /\ WalkFunction(g, size, stop, Seed(RangeHash), left, RangeHash, "front")
               /\ TiledConsistencyProof(first, size) = Reverse(g[size][0])
  BY <1>1, TiledConsistencyProofIs
<1>5. \A n \in 0..size, a \in Nat : a + n <= size =>
        Roots(d)[n][a] = RangeHash[n][a] /\ Roots(d)[n][a] \in LogHashes
  BY <1>1, HashesAgree
<1>6. \A a \in Nat : <<1, a>> \in stop
  BY DEF ConsistencyStop
<1> HIDE DEF d, stop, left
<1>7. \A n \in 1..size, a \in Nat : a + n <= size =>
        g[n][a] \in Seq(LogHashes) /\ f[n][a] = Reverse(g[n][a])
  <2>1. ASSUME NEW n \in 1..size, NEW a \in Nat, a + n <= size
        PROVE  /\ Seed(RangeHash)[n][a] \in Seq(LogHashes)
               /\ Seed(Roots(d))[n][a] = Reverse(Seed(RangeHash)[n][a])
    <3>1. /\ Seed(RangeHash)[n][a] = IF a = 0 THEN <<>> ELSE <<RangeHash[n][a]>>
          /\ Seed(Roots(d))[n][a] = IF a = 0 THEN <<>> ELSE <<Roots(d)[n][a]>>
      BY <1>1 DEF Seed
    <3>2. Roots(d)[n][a] = RangeHash[n][a] /\ RangeHash[n][a] \in LogHashes
      BY <1>1, <1>5, <2>1
    <3>3. Reverse(<<>>) = <<>> /\ Reverse(<<RangeHash[n][a]>>) = <<RangeHash[n][a]>>
      BY ReverseShort
    <3>4. CASE a = 0
      BY <3>1, <3>3, <3>4
    <3>5. CASE a # 0
      BY <3>1, <3>2, <3>3, <3>5
    <3> QED BY <3>4, <3>5
  <2>2. SameSeeds(Seed(Roots(d)), Seed(RangeHash), stop, size, LogHashes)
    BY <1>6, <2>1 DEF SameSeeds
  <2>3. SameHashes(Roots(d), RangeHash, size, LogHashes)
    BY <1>5 DEF SameHashes
  <2> QED BY <1>1, <1>3, <1>4, <2>2, <2>3, PathsAgree
<1>8. g[size][0] \in Seq(LogHashes) /\ f[size][0] = Reverse(g[size][0])
  <2>1. size \in 1..size /\ 0 \in Nat /\ 0 + size <= size
    BY <1>1
  <2> QED BY <1>7, <2>1
<1>9. Reverse(g[size][0]) \in Seq(LogHashes)
  BY <1>8, ReverseIs
<1> QED BY <1>3, <1>4, <1>8, <1>9 DEF d

----------------------------------------------------------------------------
(* The paths the provers give take the verifiers to the root. *)

\* The verifier's hashes at level j are those of the trees.
Good(kind, s, n, m, j) ==
  IF kind = "inclusion"
  THEN InclusionAt(s, n, m, j) /\ s.valid /\ s.r = NodeAt(n, j, Up(m, j))
  ELSE ConsistencyAt(s, n, m, j) /\ s.valid /\ s.sr = NodeAt(n, j, Up(m, j))
       /\ s.fr = NodeAt(m + 1, j, Up(m, j))

\* The next level with a sibling is one level.
LEMMA NextSibling ==
  ASSUME NEW n \in Nat, NEW m \in Nat, NEW j \in Nat, NEW k \in Nat, NEW i \in Nat,
         Alone(n, m, j, k), Odd(Up(m, j + k)) \/ Up(m, j + k) # Up(n - 1, j + k),
         Alone(n, m, j, i), Odd(Up(m, j + i)) \/ Up(m, j + i) # Up(n - 1, j + i)
  PROVE  i = k
<1>1. CASE i < k
  <2>1. i \in 0..(k - 1)
    BY <1>1
  <2> QED BY <2>1 DEF Alone
<1>2. CASE k < i
  <2>1. k \in 0..(i - 1)
    BY <1>2
  <2> QED BY <2>1 DEF Alone
<1> QED BY <1>1, <1>2

\* A level with a sibling is below the root.
LEMMA SiblingBelowRoot ==
  ASSUME NEW n \in 1..Size, NEW m \in 0..(n - 1), NEW j \in Nat, NEW k \in Nat,
         Odd(Up(m, j + k)) \/ Up(m, j + k) # Up(n - 1, j + k)
  PROVE  Up(n - 1, j) # 0
<1>1. n - 1 \in Nat /\ m \in Nat /\ j + k \in Nat
  BY LogFacts
<1>2. Up(m, j + k) \in Nat /\ Up(n - 1, j + k) \in Nat /\ Up(m, j + k) <= Up(n - 1, j + k)
  BY <1>1, Parent, UpFacts
<1>3. Up(n - 1, j + k) # 0
  BY <1>2 DEF Odd
<1>4. Up(n - 1, j + k) = Up(n - 1, j) \div Pow2[k]
  BY <1>1, UpFacts
<1>5. 0 \div Pow2[k] = 0
  BY Pow2Facts
<1> QED BY <1>3, <1>4, <1>5

\* With the sibling's hash the verifier's step is right.
LEMMA GoodStep ==
  ASSUME NEW n \in 1..Size, NEW m \in 0..(n - 1), NEW j \in Nat, NEW k \in Nat,
         NEW kind \in {"inclusion", "consistency"}, NEW s, NEW c, NEW t,
         Good(kind, s, n, m, j), Alone(n, m, j, k), t = OneStep(kind, s, c),
         \/ Odd(Up(m, j + k)) /\ c = NodeAt(n, j + k, Up(m, j + k) - 1)
         \/ ~Odd(Up(m, j + k)) /\ Up(m, j + k) # Up(n - 1, j + k)
            /\ c = NodeAt(n, j + k, Up(m, j + k) + 1)
  PROVE  Good(kind, t, n, m, j + (k + 1))
<1>1. Up(n - 1, j) # 0
  BY SiblingBelowRoot
<1>2. n \in Nat /\ m \in Nat
  BY LogFacts
<1>3. ASSUME NEW i \in Nat, Alone(n, m, j, i),
             \/ Odd(Up(m, j + i))
             \/ i = 0 /\ ~Odd(Up(m, j)) /\ Up(m, j) # Up(n - 1, j)
      PROVE  i = k /\ (i = 0 => j + i = j)
  <2>1. Odd(Up(m, j + i)) \/ Up(m, j + i) # Up(n - 1, j + i)
    BY <1>3
  <2>2. Odd(Up(m, j + k)) \/ Up(m, j + k) # Up(n - 1, j + k)
    OBVIOUS
  <2> QED BY <1>2, <1>3, <2>1, <2>2, NextSibling
<1> DEFINE l == m + 1
           e == j + (k + 1)
<1> HIDE DEF l, e
<1>4. CASE Odd(Up(m, j + k)) /\ c = NodeAt(n, j + k, Up(m, j + k) - 1)
  <2>1. /\ NodeAt(n, e, Up(m, e)) = NodeHash(c, NodeAt(n, j, Up(m, j)))
        /\ NodeAt(l, e, Up(m, e)) = NodeHash(c, NodeAt(l, j, Up(m, j)))
    BY <1>4, LeftParent DEF l, e
  <2>2. CASE kind = "inclusion"
    <3>1. t = InclusionStep(s, c) /\ InclusionAt(s, n, m, j) /\ s.valid
          /\ s.r = NodeAt(n, j, Up(m, j))
      BY <2>2 DEF Good, OneStep
    <3>0. PICK i \in Nat : InclusionUp(s, c, t, n, m, j, i)
      BY <1>1, <3>1, InclusionMove
    <3>2. /\ Alone(n, m, j, i)
          /\ InclusionAt(t, n, m, j + (i + 1)) /\ t.valid = s.valid
          /\ \/ Odd(Up(m, j + i)) /\ t.r = NodeHash(c, s.r)
             \/ /\ i = 0 /\ ~Odd(Up(m, j)) /\ Up(m, j) # Up(n - 1, j)
                /\ t.r = NodeHash(s.r, c)
      BY <3>0 DEF InclusionUp
    <3>3. i = k /\ (i = 0 => j + i = j)
      BY <1>3, <3>2
    <3>4. t.r = NodeHash(c, s.r)
      BY <1>4, <3>2, <3>3
    <3> QED BY <2>1, <2>2, <3>1, <3>2, <3>3, <3>4 DEF Good, e
  <2>3. CASE kind = "consistency"
    <3>1. t = ConsistencyStep(s, c) /\ ConsistencyAt(s, n, m, j) /\ s.valid
          /\ s.sr = NodeAt(n, j, Up(m, j)) /\ s.fr = NodeAt(l, j, Up(m, j))
      BY <2>3 DEF Good, OneStep, l
    <3>0. PICK i \in Nat : ConsistencyUp(s, c, t, n, m, j, i)
      BY <1>1, <3>1, ConsistencyMove
    <3>2. /\ Alone(n, m, j, i)
          /\ ConsistencyAt(t, n, m, j + (i + 1)) /\ t.valid = s.valid
          /\ \/ /\ Odd(Up(m, j + i))
                /\ t.fr = NodeHash(c, s.fr) /\ t.sr = NodeHash(c, s.sr)
             \/ /\ i = 0 /\ ~Odd(Up(m, j)) /\ Up(m, j) # Up(n - 1, j)
                /\ t.fr = s.fr /\ t.sr = NodeHash(s.sr, c)
      BY <3>0 DEF ConsistencyUp
    <3>3. i = k /\ (i = 0 => j + i = j)
      BY <1>3, <3>2
    <3>4. t.fr = NodeHash(c, s.fr) /\ t.sr = NodeHash(c, s.sr)
      BY <1>4, <3>2, <3>3
    <3> QED BY <2>1, <2>3, <3>1, <3>2, <3>3, <3>4 DEF Good, e, l
  <2> QED BY <2>2, <2>3
<1>5. CASE ~Odd(Up(m, j + k)) /\ Up(m, j + k) # Up(n - 1, j + k)
           /\ c = NodeAt(n, j + k, Up(m, j + k) + 1)
  <2>1. ASSUME kind = "inclusion" PROVE Good(kind, t, n, m, e)
    <3>1. t = InclusionStep(s, c) /\ InclusionAt(s, n, m, j) /\ s.valid
          /\ s.r = NodeAt(n, j, Up(m, j))
      BY <2>1 DEF Good, OneStep
    <3>0. PICK i \in Nat : InclusionUp(s, c, t, n, m, j, i)
      BY <1>1, <3>1, InclusionMove
    <3>2. /\ Alone(n, m, j, i)
          /\ InclusionAt(t, n, m, j + (i + 1)) /\ t.valid = s.valid
          /\ \/ Odd(Up(m, j + i)) /\ t.r = NodeHash(c, s.r)
             \/ /\ i = 0 /\ ~Odd(Up(m, j)) /\ Up(m, j) # Up(n - 1, j)
                /\ t.r = NodeHash(s.r, c)
      BY <3>0 DEF InclusionUp
    <3>3. i = k /\ (i = 0 => j + i = j)
      BY <1>3, <3>2
    <3>4. k = 0 /\ ~Odd(Up(m, j)) /\ Up(m, j) # Up(n - 1, j) /\ t.r = NodeHash(s.r, c)
      BY <1>5, <3>2, <3>3
    <3>5. e = j + 1 /\ j + k = j /\ j + (i + 1) = j + 1
      BY <3>3, <3>4 DEF e
    <3>6. NodeAt(n, j + 1, Up(m, j + 1)) =
            NodeHash(NodeAt(n, j, Up(m, j)), NodeAt(n, j, Up(m, j) + 1))
      BY <3>4, RightParent
    <3>7. t.r = NodeAt(n, e, Up(m, e))
      BY <1>5, <3>1, <3>4, <3>5, <3>6
    <3> QED BY <2>1, <3>1, <3>2, <3>5, <3>7 DEF Good
  <2>2. ASSUME kind = "consistency" PROVE Good(kind, t, n, m, e)
    <3>1. t = ConsistencyStep(s, c) /\ ConsistencyAt(s, n, m, j) /\ s.valid
          /\ s.sr = NodeAt(n, j, Up(m, j)) /\ s.fr = NodeAt(l, j, Up(m, j))
      BY <2>2 DEF Good, OneStep, l
    <3>0. PICK i \in Nat : ConsistencyUp(s, c, t, n, m, j, i)
      BY <1>1, <3>1, ConsistencyMove
    <3>2. /\ Alone(n, m, j, i)
          /\ ConsistencyAt(t, n, m, j + (i + 1)) /\ t.valid = s.valid
          /\ \/ /\ Odd(Up(m, j + i))
                /\ t.fr = NodeHash(c, s.fr) /\ t.sr = NodeHash(c, s.sr)
             \/ /\ i = 0 /\ ~Odd(Up(m, j)) /\ Up(m, j) # Up(n - 1, j)
                /\ t.fr = s.fr /\ t.sr = NodeHash(s.sr, c)
      BY <3>0 DEF ConsistencyUp
    <3>3. i = k /\ (i = 0 => j + i = j)
      BY <1>3, <3>2
    <3>4. k = 0 /\ ~Odd(Up(m, j)) /\ Up(m, j) # Up(n - 1, j)
          /\ t.fr = s.fr /\ t.sr = NodeHash(s.sr, c)
      BY <1>5, <3>2, <3>3
    <3>5. e = j + 1 /\ j + k = j /\ j + (i + 1) = j + 1
      BY <3>3, <3>4 DEF e
    <3>6. /\ NodeAt(n, j + 1, Up(m, j + 1)) =
               NodeHash(NodeAt(n, j, Up(m, j)), NodeAt(n, j, Up(m, j) + 1))
          /\ NodeAt(l, j + 1, Up(m, j + 1)) = NodeAt(l, j, Up(m, j))
      BY <3>4, RightParent DEF l
    <3>7. t.sr = NodeAt(n, e, Up(m, e)) /\ t.fr = NodeAt(l, e, Up(m, e))
      BY <1>5, <3>1, <3>4, <3>5, <3>6
    <3> QED BY <2>2, <3>1, <3>2, <3>5, <3>7 DEF Good, l
  <2> QED BY <2>1, <2>2 DEF e
<1> QED BY <1>4, <1>5

\* The loop over a path from its first hash on ends in state t.
Ends(kind, first, start, path, t) ==
  \E f : LoopFunction(f, kind, path, first, Len(path), start) /\ t = f[Len(path)]

\* One hash more is one step more.
LEMMA EndsAppend ==
  ASSUME NEW kind, NEW first \in Nat, NEW start, NEW S, NEW path \in Seq(S), NEW c \in S, NEW t,
         first <= Len(path), Ends(kind, first, start, path, t)
  PROVE  Ends(kind, first, start, Append(path, c), OneStep(kind, t, c))
<1> DEFINE longer == Append(path, c)
           m == Len(path)
           M == m + 1
<1>1. /\ longer \in Seq(S) /\ Len(longer) = M /\ longer[M] = c /\ m \in Nat
      /\ \A i \in 1..m : longer[i] = path[i]
  BY AppendIs
<1>2. PICK f : LoopFunction(f, kind, path, first, m, start) /\ t = f[m]
  BY DEF Ends
<1> HIDE DEF longer, m
<1>3. M \in Nat /\ first <= M /\ first <= m /\ m <= M /\ m \in first..(M - 1)
  BY <1>1 DEF m
<1> HIDE DEF M
<1>4. PICK g : LoopFunction(g, kind, longer, first, M, start)
  BY <1>3, LoopExists
<1>5. f[m] = g[m]
  <2>1. \A i \in (first + 1)..m : path[i] = longer[i]
    BY <1>1
  <2> QED BY <1>1, <1>2, <1>3, <1>4, <2>1, LoopsAgree
<1>6. g[m + 1] = OneStep(kind, g[m], longer[m + 1])
  BY <1>3, <1>4, LoopIs
<1>7. g[M] = OneStep(kind, t, c)
  BY <1>1, <1>2, <1>5, <1>6 DEF M
<1> QED BY <1>1, <1>4, <1>7 DEF Ends, longer

\* The part of the tree under m's node, from one level to the next: a sibling on the
\* left or on the right is the other part of the tree above it, which is split where
\* the prover splits it; without one, the part stays the same.
LEMMA PartUp ==
  ASSUME NEW n \in 1..Size, NEW m \in 0..(n - 1), NEW q \in Nat
  PROVE  LET p == Up(m, q)
             w == Pow2[q]
             u == Under(n, q, p)
             a == w * p
             U == Under(n, q + 1, Up(m, q + 1))
             A == Pow2[q + 1] * Up(m, q + 1)
         IN  /\ u \in 1..n /\ a \in Nat /\ a + u <= n /\ U \in 1..n /\ A \in Nat /\ A + U <= n
             /\ Odd(p) => /\ U > w /\ Split(U) = w /\ U - w = u /\ A + w = a /\ ~(m < A + w)
                          /\ NodeAt(n, q, p - 1) = Roots(log)[w][A]
             /\ ~Odd(p) /\ p # Up(n - 1, q) =>
                  /\ U > w /\ Split(U) = w /\ u = w /\ A = a /\ m < A + w
                  /\ NodeAt(n, q, p + 1) = Roots(log)[U - w][A + w]
             /\ ~Odd(p) /\ p = Up(n - 1, q) => U = u /\ A = a
<1> DEFINE p == Up(m, q)
           w == Pow2[q]
           W == Pow2[q + 1]
           P == Up(m, q + 1)
           v == Up(n - 1, q)
           x == w * p
           A == W * P
           y == w * v
           u == Under(n, q, p)
           U == Under(n, q + 1, P)
<1>1. n \in Nat /\ m \in Nat /\ n - 1 \in Nat /\ m <= n - 1 /\ q + 1 \in Nat
  BY LogFacts
<1>2. w \in Nat \ {0} /\ W = 2 * w
  BY Pow2Facts, Pow2Is
<1>3. p \in Nat /\ P = p \div 2 /\ x <= m /\ m < w * (p + 1)
  BY <1>1, UpFacts
<1>4. v \in Nat /\ y <= n - 1 /\ n - 1 < w * (v + 1)
  BY <1>1, UpFacts
<1>5. p <= v
  BY Parent
<1>6. u = IF n - x < w THEN n - x ELSE w
  BY DEF Under
<1>7. U = IF n - A < W THEN n - A ELSE W
  BY DEF Under
<1> HIDE DEF w, W, p, P, v, u, U
<1>8. x \in Nat /\ y \in Nat /\ w * (p + 1) = x + w /\ w * (v + 1) = y + w
  BY <1>2, <1>3, <1>4
<1>9. P \in Nat /\ (Odd(p) => p = 2 * P + 1) /\ (~Odd(p) => p = 2 * P)
  BY <1>3 DEF Odd
<1>10. A \in Nat /\ (Odd(p) => x = A + w) /\ (~Odd(p) => x = A)
  <2>1. W * P = w * (2 * P) /\ w * (2 * P + 1) = w * (2 * P) + w
    BY <1>2, <1>9
  <2>2. A \in Nat
    BY <1>2, <1>9
  <2> QED BY <1>9, <2>1, <2>2
<1>11. p # v => x + w <= y
  <2>1. ASSUME p # v PROVE x + w <= y
    <3>1. p + 1 <= v /\ p + 1 \in Nat
      BY <1>3, <1>4, <1>5, <2>1
    <3>2. w * (p + 1) <= w * v
      BY <1>2, <1>4, <3>1, TimesMono
    <3> QED BY <1>8, <3>2
  <2> QED BY <2>1
<1> HIDE DEF x, A, y
<1>12. u \in 1..n /\ x \in Nat /\ x + u <= n
  BY <1>1, <1>2, <1>3, <1>6, <1>8
<1>13. A <= x
  BY <1>2, <1>8, <1>10
<1>14. U \in 1..n /\ A \in Nat /\ A + U <= n
  BY <1>1, <1>2, <1>3, <1>7, <1>8, <1>10, <1>13
<1>15. ASSUME Odd(p)
       PROVE  /\ U > w /\ Split(U) = w /\ U - w = u /\ A + w = x /\ ~(m < A + w)
              /\ NodeAt(n, q, p - 1) = Roots(log)[w][A]
  <2>1. U > w /\ U - w = u /\ A + w = x /\ ~(m < A + w) /\ U <= 2 * w /\ U \in Nat
    BY <1>1, <1>2, <1>3, <1>6, <1>7, <1>8, <1>10, <1>15
  <2>2. Split(U) = w
    BY <2>1, SplitIs DEF w
  <2>3. NodeAt(n, q, p - 1) = Roots(log)[w][A]
    <3> DEFINE o == p - 1
    <3>1. o \in Nat /\ o + 1 = p
      BY <1>3, <1>9, <1>15
    <3> HIDE DEF o
    <3>2. w * (o + 1) = x /\ w * o = A
      <4>1. w * (o + 1) = w * o + w /\ w * o \in Nat
        BY <1>2, <3>1
      <4>2. w * (o + 1) = x
        BY <3>1 DEF x
      <4> DEFINE z == w * o
      <4>3. z + w = x /\ z \in Nat
        BY <4>1, <4>2
      <4> HIDE DEF z
      <4>4. z = A
        BY <1>2, <1>10, <2>1, <4>3
      <4> QED BY <4>2, <4>4 DEF z
    <3>3. w * (o + 1) <= n
      BY <1>1, <1>3, <1>8, <3>2
    <3>4. NodeAt(n, q, o) = Roots(log)[w][w * o]
      BY <1>1, <3>1, <3>3, FullNode DEF w
    <3> QED BY <3>2, <3>4 DEF o
  <2> QED BY <2>1, <2>2, <2>3
<1>16. ASSUME ~Odd(p), p # v
       PROVE  /\ U > w /\ Split(U) = w /\ u = w /\ A = x /\ m < A + w
              /\ NodeAt(n, q, p + 1) = Roots(log)[U - w][A + w]
  <2>1. U > w /\ u = w /\ A = x /\ m < A + w /\ U <= 2 * w /\ U \in Nat
    BY <1>1, <1>2, <1>3, <1>4, <1>6, <1>7, <1>8, <1>10, <1>11, <1>16
  <2>2. Split(U) = w
    BY <2>1, SplitIs DEF w
  <2>3. Under(n, q, p + 1) = IF n - (x + w) < w THEN n - (x + w) ELSE w
    BY <1>8 DEF Under, w
  <2>4. Under(n, q, p + 1) = U - w
    BY <1>1, <1>2, <1>7, <1>8, <2>1, <2>3
  <2>5. NodeAt(n, q, p + 1) = Roots(log)[U - w][x + w]
    BY <1>8, <2>4 DEF NodeAt, w
  <2> QED BY <2>1, <2>2, <2>5
<1>17. ASSUME ~Odd(p), p = v PROVE U = u /\ A = x
  BY <1>1, <1>2, <1>4, <1>6, <1>7, <1>8, <1>10, <1>17 DEF x, y
<1> QED BY <1>12, <1>14, <1>15, <1>16, <1>17 DEF p, w, W, P, v, x, A, u, U

\* The path a walk has collected for m's node of level q.
PathTo(f, n, m, q) == f[Under(n, q, Up(m, q))][Pow2[q] * Up(m, q)]

\* The hashes collected are those of the log's subtrees.
HashesOfLog(hash, n) ==
  \A k \in 0..n, a \in Nat : a + k <= n => hash[k][a] = Roots(log)[k][a]

\* The walk does not stop at m's node of level q + 1 if that has two children ...
GoesOn(stop, n, m, q) ==
  Under(n, q + 1, Up(m, q + 1)) > Pow2[q] =>
    <<Under(n, q + 1, Up(m, q + 1)), Pow2[q + 1] * Up(m, q + 1)>> \notin stop

\* ... nor anywhere above level j.
GoesOnAbove(stop, n, m, j) == \A q \in Nat : q >= j => GoesOn(stop, n, m, q)

\* Up to level q, the path and what went before it take the verifier from a level
\* where its hashes are right to one below q that m's node of level q is alone above.
Arrives(kind, first, start, pre, f, n, m, q) ==
  /\ PathTo(f, n, m, q) \in Seq(LogHashes)
  /\ first <= Len(pre \o PathTo(f, n, m, q))
  /\ first = 1 => start = ConsistencyStart(m + 1, n, (pre \o PathTo(f, n, m, q))[1])
  /\ \E j, k, t :
       /\ j \in Nat /\ k \in Nat /\ j + k = q /\ Alone(n, m, j, k) /\ Good(kind, t, n, m, j)
       /\ Ends(kind, first, start, pre \o PathTo(f, n, m, q), t)

\* One level up: a sibling's hash is appended where there is one.
LEMMA ArrivesUp ==
  ASSUME NEW n \in 1..Size, NEW m \in 0..(n - 1), NEW q \in Nat,
         NEW kind \in {"inclusion", "consistency"}, NEW first \in Nat, NEW start,
         NEW pre \in Seq(LogHashes), NEW f, NEW stop, NEW base, NEW hash,
         WalkFunction(f, n, stop, base, Left(m), hash, "end"),
         HashesOfLog(hash, n), GoesOn(stop, n, m, q),
         Arrives(kind, first, start, pre, f, n, m, q)
  PROVE  Arrives(kind, first, start, pre, f, n, m, q + 1)
<1> DEFINE p == Up(m, q)
           w == Pow2[q]
           u == Under(n, q, p)
           a == w * p
           U == Under(n, q + 1, Up(m, q + 1))
           A == Pow2[q + 1] * Up(m, q + 1)
           path == PathTo(f, n, m, q)
           above == PathTo(f, n, m, q + 1)
           c == IF Odd(p) THEN NodeAt(n, q, p - 1) ELSE NodeAt(n, q, p + 1)
<1>1. n \in Nat /\ m \in Nat /\ q + 1 \in Nat /\ Size \in Nat /\ n <= Size
  BY LogFacts
<1>2. w \in Nat \ {0}
  BY Pow2Facts
<1>3. /\ u \in 1..n /\ a \in Nat /\ a + u <= n /\ U \in 1..n /\ A \in Nat /\ A + U <= n
      /\ Odd(p) => /\ U > w /\ Split(U) = w /\ U - w = u /\ A + w = a /\ ~(m < A + w)
                   /\ NodeAt(n, q, p - 1) = Roots(log)[w][A]
      /\ ~Odd(p) /\ p # Up(n - 1, q) =>
           /\ U > w /\ Split(U) = w /\ u = w /\ A = a /\ m < A + w
           /\ NodeAt(n, q, p + 1) = Roots(log)[U - w][A + w]
      /\ ~Odd(p) /\ p = Up(n - 1, q) => U = u /\ A = a
  BY PartUp
<1>4. path = f[u][a] /\ above = f[U][A]
  BY DEF PathTo
<1>5. PICK j, k, t :
       /\ j \in Nat /\ k \in Nat /\ j + k = q /\ Alone(n, m, j, k) /\ Good(kind, t, n, m, j)
       /\ Ends(kind, first, start, pre \o path, t)
  BY DEF Arrives
<1>6. path \in Seq(LogHashes) /\ first <= Len(pre \o path)
      /\ (first = 1 => start = ConsistencyStart(m + 1, n, (pre \o path)[1]))
  BY DEF Arrives
<1>7. U > w => <<U, A>> \notin stop
  BY DEF GoesOn
<1> HIDE DEF p, w, u, a, U, A, path, above, c
<1>8. CASE Odd(p) \/ p # Up(n - 1, q)
  <2>1. above = Append(path, c)
    <3>1. WalkAt(f, U, A, stop, base, Left(m), hash, "end")
      BY <1>1, <1>3, WalkIs
    <3>2. <<U, A>> \in Left(m) <=> m < A + Split(U)
      <4>1. U \in Nat /\ A \in Nat
        BY <1>1, <1>3
      <4> QED BY <4>1 DEF Left
    <3>3. <<U, A>> \notin stop
      BY <1>3, <1>7, <1>8
    <3>4. \A x, y : Collected("end", x, y) = Append(x, y)
      BY DEF Collected
    <3>5. CASE Odd(p)
      <4>1. /\ U > w /\ Split(U) = w /\ U - w = u /\ A + w = a /\ ~(m < A + w)
            /\ NodeAt(n, q, p - 1) = Roots(log)[w][A]
        BY <1>3, <3>5
      <4>2. f[U][A] = Append(f[U - w][A + w], hash[w][A])
        BY <3>1, <3>2, <3>3, <3>4, <4>1 DEF WalkAt
      <4>3. w \in 0..n /\ A \in Nat /\ A + w <= n
        BY <1>1, <1>2, <1>3, <4>1
      <4>4. hash[w][A] = Roots(log)[w][A]
        BY <4>3 DEF HashesOfLog
      <4> QED BY <1>4, <3>5, <4>1, <4>2, <4>4 DEF c
    <3>6. CASE ~Odd(p)
      <4>1. /\ U > w /\ Split(U) = w /\ u = w /\ A = a /\ m < A + w
            /\ NodeAt(n, q, p + 1) = Roots(log)[U - w][A + w]
        BY <1>3, <1>8, <3>6
      <4>2. f[U][A] = Append(f[w][A], hash[U - w][A + w])
        BY <3>1, <3>2, <3>3, <3>4, <4>1 DEF WalkAt
      <4>3. U - w \in 0..n /\ A + w \in Nat /\ (A + w) + (U - w) <= n
        BY <1>1, <1>2, <1>3, <4>1
      <4>4. hash[U - w][A + w] = Roots(log)[U - w][A + w]
        BY <4>3 DEF HashesOfLog
      <4> QED BY <1>4, <3>6, <4>1, <4>2, <4>4 DEF c
    <3> QED BY <3>5, <3>6
  <2>2. c \in LogHashes
    <3>1. \A x \in 0..Size, y \in Nat : Roots(log)[x][y] \in LogHashes
      BY LogHashesAre
    <3>2. CASE Odd(p)
      <4>1. U > w /\ NodeAt(n, q, p - 1) = Roots(log)[w][A]
        BY <1>3, <3>2
      <4>2. w \in 0..Size /\ A \in Nat
        BY <1>1, <1>2, <1>3, <4>1
      <4> QED BY <3>1, <3>2, <4>1, <4>2 DEF c
    <3>3. CASE ~Odd(p)
      <4>1. U > w /\ NodeAt(n, q, p + 1) = Roots(log)[U - w][A + w]
        BY <1>3, <1>8, <3>3
      <4>2. U - w \in 0..Size /\ A + w \in Nat
        BY <1>1, <1>2, <1>3, <4>1
      <4> QED BY <3>1, <3>3, <4>1, <4>2 DEF c
    <3> QED BY <3>2, <3>3
  <2> DEFINE whole == pre \o path
             t2 == OneStep(kind, t, c)
  <2>3. whole \in Seq(LogHashes)
    BY <1>6, Concatenated
  <2>4. pre \o Append(path, c) = Append(whole, c)
    BY <1>6, <2>2, ConcatAppend
  <2> HIDE DEF whole, t2
  <2>5. Ends(kind, first, start, Append(whole, c), t2)
    BY <1>5, <1>6, <2>2, <2>3, EndsAppend DEF whole, t2
  <2>6. Good(kind, t2, n, m, j + (k + 1))
    <3>1. \/ Odd(Up(m, j + k)) /\ c = NodeAt(n, j + k, Up(m, j + k) - 1)
          \/ ~Odd(Up(m, j + k)) /\ Up(m, j + k) # Up(n - 1, j + k)
             /\ c = NodeAt(n, j + k, Up(m, j + k) + 1)
      BY <1>5, <1>8 DEF p, c
    <3> QED BY <1>5, <3>1, GoodStep DEF t2
  <2>7. j + (k + 1) = q + 1 /\ (q + 1) + 0 = q + 1
    BY <1>5
  <2>8. Alone(n, m, q + 1, 0)
    BY DEF Alone
  <2>9. above \in Seq(LogHashes) /\ Len(Append(whole, c)) = Len(whole) + 1 /\ Len(whole) \in Nat
        /\ \A i \in 1..Len(whole) : Append(whole, c)[i] = whole[i]
    BY <1>6, <2>1, <2>2, <2>3, AppendIs
  <2>10. first <= Len(pre \o above)
    BY <1>6, <2>1, <2>4, <2>9 DEF whole
  <2>11. \E x, y, r :
           /\ x \in Nat /\ y \in Nat /\ x + y = q + 1 /\ Alone(n, m, x, y) /\ Good(kind, r, n, m, x)
           /\ Ends(kind, first, start, pre \o above, r)
    BY <1>1, <2>1, <2>4, <2>5, <2>6, <2>7, <2>8
  <2>12. ASSUME first = 1 PROVE start = ConsistencyStart(m + 1, n, (pre \o above)[1])
    <3>1. 1 \in 1..Len(whole)
      BY <1>6, <2>9, <2>12 DEF whole
    <3>2. (pre \o above)[1] = whole[1]
      BY <2>1, <2>4, <2>9, <3>1
    <3> QED BY <1>6, <2>12, <3>2 DEF whole
  <2> QED BY <2>9, <2>10, <2>11, <2>12 DEF Arrives, above
<1>9. CASE ~Odd(p) /\ p = Up(n - 1, q)
  <2>1. above = path
    BY <1>3, <1>4, <1>9
  <2>2. Alone(n, m, j, k + 1)
    <3>1. \A i \in 0..((k + 1) - 1) : i \in 0..(k - 1) \/ i = k
      BY <1>5
    <3>2. Up(m, j + k) = Up(n - 1, j + k) /\ ~Odd(Up(m, j + k))
      BY <1>5, <1>9 DEF p
    <3> QED BY <1>5, <3>1, <3>2 DEF Alone
  <2>3. j + (k + 1) = q + 1 /\ k + 1 \in Nat
    BY <1>5
  <2>4. \E x, y, r :
           /\ x \in Nat /\ y \in Nat /\ x + y = q + 1 /\ Alone(n, m, x, y) /\ Good(kind, r, n, m, x)
           /\ Ends(kind, first, start, pre \o above, r)
    BY <1>5, <2>1, <2>2, <2>3
  <2> QED BY <1>6, <2>1, <2>4 DEF Arrives, above
<1> QED BY <1>8, <1>9

\* A level that m's node is alone above, up to the root, is the root's.
LEMMA AloneToRoot ==
  ASSUME NEW n \in 1..Size, NEW m \in 0..(n - 1), NEW j \in Nat, NEW k \in Nat,
         Alone(n, m, j, k), Up(n - 1, j + k) = 0
  PROVE  Up(n - 1, j) = 0 /\ Up(m, j) = 0
<1> DEFINE T == {i \in Nat : Up(n - 1, j + (k - i)) = 0}
<1>1. n - 1 \in Nat /\ m \in Nat
  BY LogFacts
<1>2. 0 \in T
  <2>1. k - 0 = k
    OBVIOUS
  <2> QED BY <2>1
<1>3. ASSUME NEW i \in 0..(k - 1), i \in T PROVE i + 1 \in T
  <2> DEFINE h == k - (i + 1)
             x == Up(n - 1, j + h)
  <2>1. h \in 0..(k - 1) /\ j + h \in Nat /\ (j + h) + 1 = j + (k - i)
    OBVIOUS
  <2>2. x \in Nat /\ Up(n - 1, (j + h) + 1) = x \div 2
    <3> HIDE DEF h
    <3> QED BY <1>1, <2>1, UpFacts
  <2>3. ~Odd(x)
    <3> HIDE DEF h
    <3>1. Up(m, j + h) = x /\ ~Odd(Up(m, j + h))
      BY <2>1 DEF Alone
    <3> QED BY <3>1
  <2>4. x \div 2 = 0
    BY <1>3, <2>1, <2>2
  <2> HIDE DEF x
  <2>5. x = 0
    BY <2>2, <2>3, <2>4 DEF Odd
  <2> QED BY <2>5 DEF x
<1> HIDE DEF T
<1>4. k \in T
  <2>1. 0..k \subseteq T
    BY <1>2, <1>3, NatUpTo
  <2> QED BY <2>1
<1>5. Up(n - 1, j) = 0
  <2>1. k - k = 0 /\ j + 0 = j
    OBVIOUS
  <2> QED BY <1>4, <2>1 DEF T
<1>6. Up(m, j) \in Nat /\ Up(m, j) <= Up(n - 1, j)
  BY Parent
<1> QED BY <1>5, <1>6

\* The verifier has come to the root with the right hashes.
AtRoot(kind, t, n, m) ==
  /\ t.valid /\ t.sn = 0
  /\ kind = "inclusion" => t.r = Roots(log)[n][0]
  /\ kind = "consistency" => t.sr = Roots(log)[n][0] /\ t.fr = Roots(log)[m + 1][0]

\* From a level at which it is right on, the path takes the verifier to the root.
LEMMA PathVerifies ==
  ASSUME NEW n \in 1..Size, NEW m \in 0..(n - 1), NEW j \in Nat,
         NEW kind \in {"inclusion", "consistency"}, NEW first \in Nat, NEW start,
         NEW pre \in Seq(LogHashes), NEW f, NEW stop, NEW base, NEW hash,
         WalkFunction(f, n, stop, base, Left(m), hash, "end"),
         HashesOfLog(hash, n), GoesOnAbove(stop, n, m, j),
         Arrives(kind, first, start, pre, f, n, m, j)
  PROVE  /\ first <= Len(pre \o f[n][0])
         /\ first = 1 => start = ConsistencyStart(m + 1, n, (pre \o f[n][0])[1])
         /\ \E t : Ends(kind, first, start, pre \o f[n][0], t) /\ AtRoot(kind, t, n, m)
<1> DEFINE A(q) == Arrives(kind, first, start, pre, f, n, m, q)
           T == {i \in Nat : A(j + i)}
<1>1. n \in Nat /\ m \in Nat /\ n - 1 \in Nat /\ m + 1 \in 1..Size /\ (m + 1) - 1 = m
  BY LogFacts
<1>2. 0 \in T
  <2>1. j + 0 = j
    OBVIOUS
  <2> QED BY <2>1
<1>3. ASSUME NEW i \in 0..(n - 1), i \in T PROVE i + 1 \in T
  <2> DEFINE q == j + i
  <2>1. q \in Nat /\ q >= j /\ q + 1 = j + (i + 1) /\ i + 1 \in Nat
    BY <1>1
  <2>2. A(q)
    BY <1>3
  <2> HIDE DEF q
  <2>3. GoesOn(stop, n, m, q)
    BY <2>1 DEF GoesOnAbove
  <2>4. A(q + 1)
    BY <2>1, <2>2, <2>3, ArrivesUp
  <2> HIDE DEF A
  <2> QED BY <2>1, <2>4
<1> HIDE DEF T, A
<1>4. n \in T
  <2>1. 0..n \subseteq T
    BY <1>1, <1>2, <1>3, NatUpTo
  <2> QED BY <1>1, <2>1
<1> DEFINE Q == j + n
<1>5. Q \in Nat /\ n <= Q
  BY <1>1
<1>6. A(Q)
  BY <1>4 DEF T
<1> HIDE DEF Q
<1>7. n < Pow2[Q] /\ Pow2[Q] \in Nat \ {0}
  BY <1>1, <1>5, Pow2Facts
<1>8. \A x \in 0..(n - 1) : Up(x, Q) = 0
  <2> SUFFICES ASSUME NEW x \in 0..(n - 1) PROVE Up(x, Q) = 0
    OBVIOUS
  <2>1. x \in Nat
    BY <1>1
  <2>2. Up(x, Q) \in Nat /\ Pow2[Q] * Up(x, Q) <= x
    BY <1>5, <2>1, UpFacts
  <2> DEFINE u == Up(x, Q)
             w == Pow2[Q]
  <2> HIDE DEF u, w
  <2>3. CASE u # 0
    <3>1. w * 1 <= w * u /\ w * u \in Nat
      <4>1. 1 <= u /\ u \in Nat /\ w \in Nat
        BY <1>7, <2>2, <2>3 DEF u, w
      <4> QED BY <4>1, TimesMono
    <3> DEFINE z == w * u
    <3>2. z \in Nat /\ w <= z /\ z <= x
      BY <1>7, <2>2, <3>1 DEF u, w
    <3> HIDE DEF z
    <3> QED BY <1>1, <1>7, <2>1, <3>2 DEF w
  <2> QED BY <2>3 DEF u
<1>9. Up(m, Q) = 0 /\ Up(n - 1, Q) = 0
  BY <1>1, <1>8
<1>10. PathTo(f, n, m, Q) = f[n][0]
  <2>1. Pow2[Q] * 0 = 0 /\ n - 0 = n
    BY <1>1, <1>7
  <2>2. Under(n, Q, 0) = n
    BY <1>1, <1>7, <2>1 DEF Under
  <2> QED BY <1>9, <2>1, <2>2 DEF PathTo
<1>11. PICK i, k, t :
       /\ i \in Nat /\ k \in Nat /\ i + k = Q /\ Alone(n, m, i, k) /\ Good(kind, t, n, m, i)
       /\ Ends(kind, first, start, pre \o f[n][0], t)
  BY <1>6, <1>10 DEF A, Arrives
<1>16. /\ first <= Len(pre \o f[n][0])
       /\ first = 1 => start = ConsistencyStart(m + 1, n, (pre \o f[n][0])[1])
  BY <1>6, <1>10 DEF A, Arrives
<1>12. Up(n - 1, i) = 0 /\ Up(m, i) = 0
  BY <1>9, <1>11, AloneToRoot
<1>13. NodeAt(n, i, 0) = Roots(log)[n][0] /\ NodeAt(m + 1, i, 0) = Roots(log)[m + 1][0]
  <2> DEFINE l == m + 1
  <2>1. Up(l - 1, i) = 0 /\ l \in 1..Size
    BY <1>1, <1>12
  <2> HIDE DEF l
  <2>2. NodeAt(l, i, 0) = Roots(log)[l][0]
    BY <1>11, <2>1, NodeEnds
  <2>3. NodeAt(n, i, 0) = Roots(log)[n][0]
    BY <1>11, <1>12, NodeEnds
  <2> QED BY <2>2, <2>3 DEF l
<1>14. CASE kind = "inclusion"
  <2>1. InclusionAt(t, n, m, i) /\ t.valid /\ t.r = NodeAt(n, i, Up(m, i))
    BY <1>11, <1>14 DEF Good
  <2>2. t.sn = 0
    BY <1>12, <2>1 DEF InclusionAt
  <2>3. AtRoot(kind, t, n, m)
    BY <1>12, <1>13, <1>14, <2>1, <2>2 DEF AtRoot
  <2> QED BY <1>11, <1>16, <2>3
<1>15. CASE kind = "consistency"
  <2>1. ConsistencyAt(t, n, m, i) /\ t.valid /\ t.sr = NodeAt(n, i, Up(m, i))
        /\ t.fr = NodeAt(m + 1, i, Up(m, i))
    BY <1>11, <1>15 DEF Good
  <2>2. t.sn = 0
    BY <1>12, <2>1 DEF ConsistencyAt
  <2>3. AtRoot(kind, t, n, m)
    BY <1>12, <1>13, <1>15, <2>1, <2>2 DEF AtRoot
  <2> QED BY <1>11, <1>16, <2>3
<1> QED BY <1>14, <1>15

\* Ends of the same loop are the same.
LEMMA EndsOnce ==
  ASSUME NEW kind, NEW first \in Nat, NEW start, NEW path, Len(path) \in Nat, first <= Len(path),
         NEW t, Ends(kind, first, start, path, t),
         NEW g, LoopFunction(g, kind, path, first, Len(path), start)
  PROVE  t = g[Len(path)]
<1> DEFINE m == Len(path)
<1>1. PICK f : LoopFunction(f, kind, path, first, m, start) /\ t = f[m]
  BY DEF Ends
<1>2. m \in Nat /\ first <= m /\ m <= m
  OBVIOUS
<1>3. \A i \in (first + 1)..m : path[i] = path[i]
  OBVIOUS
<1>4. LoopFunction(g, kind, path, first, m, start)
  OBVIOUS
<1> HIDE DEF m
<1>5. f[m] = g[m]
  BY <1>1, <1>2, <1>3, <1>4, LoopsAgree
<1> QED BY <1>1, <1>5 DEF m

\* The inclusion proof of an entry is accepted.
LEMMA HonestInclusion ==
  ASSUME NEW n \in 1..Size, NEW m \in 0..(n - 1)
  PROVE  VerifyInclusion(log[m + 1], m, n, TiledInclusionProof(m, n), RootAt(n))
<1> DEFINE d == SubSeq(log, 1, n)
           start == InclusionStart(log[m + 1], m, n)
           Seqs == Seq(LogHashes)
<1>1. n \in Nat \ {0} /\ m \in Nat /\ n \in 0..Size /\ n - 1 \in Nat
  BY LogFacts
<1>2. Len(d) = n
  BY <1>1, RootOfFirst
<1>3. \A k \in 0..n, a \in Nat : a + k <= n => Roots(d)[k][a] = Roots(log)[k][a]
  BY <1>1, HashesAgree
<1>4. PICK f : /\ WalkFunction(f, n, InclusionStop, NoPath, Left(m), Roots(d), "end")
               /\ InclusionProof(d, m) = f[n][0]
  <2> HIDE DEF d
  <2> QED BY <1>1, <1>2, InclusionProofIs
<1>5. f[n][0] \in Seqs /\ TiledInclusionProof(m, n) = f[n][0]
  BY <1>4, InclusionProofsAgree
<1> HIDE DEF d
<1>6. Up(m, 0) = m /\ Up(n - 1, 0) = n - 1 /\ Pow2[0] = 1
  BY <1>1, UpFacts, Pow2Is
<1>7. Under(n, 0, m) = 1
  <2>1. 1 * m = m /\ ~(n - m < 1)
    BY <1>1
  <2> QED BY <1>6, <2>1 DEF Under
<1>8. PathTo(f, n, m, 0) = <<>>
  <2>1. PathTo(f, n, m, 0) = f[1][m]
    <3>1. 1 * m = m
      BY <1>1
    <3> QED BY <1>6, <1>7, <3>1 DEF PathTo
  <2>2. WalkAt(f, 1, m, InclusionStop, NoPath, Left(m), Roots(d), "end")
    <3>1. 1 \in 1..n /\ n \in Nat
      BY <1>1
    <3> QED BY <1>1, <1>4, <3>1, WalkIs
  <2>3. <<1, m>> \in InclusionStop /\ NoPath[1][m] = <<>>
    BY <1>1 DEF InclusionStop, NoPath
  <2> QED BY <2>1, <2>2, <2>3 DEF WalkAt
<1>9. <<>> \in Seqs /\ <<>> \o <<>> = <<>> /\ Len(<<>>) = 0
  OBVIOUS
<1>10. Good("inclusion", start, n, m, 0)
  <2>1. start = [fn |-> m, sn |-> n - 1, r |-> log[m + 1], valid |-> TRUE]
    BY DEF InclusionStart
  <2> HIDE DEF start
  <2>2. start.r = log[m + 1] /\ start.valid
    BY <2>1
  <2>3. InclusionAt(start, n, m, 0)
    BY <1>6, <2>1 DEF InclusionAt
  <2>4. NodeAt(n, 0, m) = log[m + 1]
    BY NodeEnds
  <2> QED BY <1>6, <2>2, <2>3, <2>4 DEF Good
<1> HIDE DEF start
<1>11. Ends("inclusion", 0, start, <<>>, start)
  <2> DEFINE g == [i \in 0..0 |-> start]
  <2>1. LoopFunction(g, "inclusion", <<>>, 0, Len(<<>>), start) /\ start = g[Len(<<>>)]
    BY DEF LoopFunction
  <2> QED BY <2>1 DEF Ends
<1>12. Arrives("inclusion", 0, start, <<>>, f, n, m, 0)
  <2>1. Alone(n, m, 0, 0) /\ 0 + 0 = 0
    BY DEF Alone
  <2>2. \E j, k, t :
          /\ j \in Nat /\ k \in Nat /\ j + k = 0 /\ Alone(n, m, j, k) /\ Good("inclusion", t, n, m, j)
          /\ Ends("inclusion", 0, start, <<>>, t)
    BY <1>10, <1>11, <2>1
  <2>3. PathTo(f, n, m, 0) \in Seqs /\ <<>> \o PathTo(f, n, m, 0) = <<>>
    <3> DEFINE z == PathTo(f, n, m, 0)
    <3>1. z = <<>>
      BY <1>8
    <3> HIDE DEF z
    <3>2. z \in Seqs /\ <<>> \o z = <<>>
      BY <1>9, <3>1
    <3> QED BY <3>2 DEF z
  <2>4. 0 # 1 /\ 0 <= Len(<<>>)
    BY <1>9
  <2> QED BY <2>2, <2>3, <2>4 DEF Arrives
<1>13. GoesOnAbove(InclusionStop, n, m, 0)
  <2> SUFFICES ASSUME NEW q \in Nat, Under(n, q + 1, Up(m, q + 1)) > Pow2[q]
               PROVE  <<Under(n, q + 1, Up(m, q + 1)), Pow2[q + 1] * Up(m, q + 1)>>
                        \notin InclusionStop
    BY DEF GoesOnAbove, GoesOn
  <2> DEFINE u == Under(n, q + 1, Up(m, q + 1))
             a == Pow2[q + 1] * Up(m, q + 1)
             w == Pow2[q]
  <2>1. w \in Nat \ {0} /\ u > w /\ u \in 1..n
    BY Pow2Facts, PartUp
  <2> HIDE DEF u, a, w
  <2>2. u # 1
    BY <1>1, <2>1
  <2>3. <<u, a>> \notin InclusionStop
    BY <2>2 DEF InclusionStop
  <2> QED BY <2>3 DEF u, a
<1>14. PICK t : /\ Ends("inclusion", 0, start, <<>> \o f[n][0], t)
                /\ t.valid /\ t.sn = 0 /\ t.r = Roots(log)[n][0]
  <2>1. HashesOfLog(Roots(d), n)
    BY <1>3 DEF HashesOfLog
  <2>2. "inclusion" \in {"inclusion", "consistency"} /\ 0 \in Nat
    OBVIOUS
  <2>3. \E t : Ends("inclusion", 0, start, <<>> \o f[n][0], t) /\ AtRoot("inclusion", t, n, m)
    BY <1>4, <1>9, <1>12, <1>13, <2>1, <2>2, PathVerifies
  <2> QED BY <2>3 DEF AtRoot
<1> DEFINE path == f[n][0]
<1>15. <<>> \o path = path /\ Len(path) \in Nat
  BY <1>5
<1> HIDE DEF path
<1>16. PICK g : /\ LoopFunction(g, "inclusion", path, 0, Len(path), start)
                /\ InclusionEnd(log[m + 1], m, n, path) = g[Len(path)]
  <2>1. \A leaf, p : Len(p) \in Nat =>
          \E g : /\ LoopFunction(g, "inclusion", p, 0, Len(p), InclusionStart(leaf, m, n))
                 /\ InclusionEnd(leaf, m, n, p) = g[Len(p)]
    BY InclusionLoop
  <2> QED BY <1>15, <2>1 DEF start
<1>17. Ends("inclusion", 0, start, path, t)
  BY <1>14, <1>15 DEF path
<1>18. t = g[Len(path)]
  BY <1>15, <1>16, <1>17, EndsOnce
<1>19. RootAt(n) = Roots(log)[n][0]
  BY <1>1, RootAtIs
<1>20. m < n
  BY <1>1
<1>21. VerifyInclusion(log[m + 1], m, n, path, RootAt(n))
  BY <1>14, <1>16, <1>18, <1>19, <1>20 DEF VerifyInclusion
<1> QED BY <1>5, <1>21 DEF path

\* The walk to the border of the first m entries ends at their last perfect
\* subtree: no subtree above it ends where they end.
LEMMA BorderBelow ==
  ASSUME NEW n \in 1..Size, NEW m \in 1..n, m < n
  PROVE  GoesOnAbove(ConsistencyStop(m), n, m - 1, TrailingZeros(m))
<1> DEFINE j == TrailingZeros(m)
           l == m - 1
<1>1. n \in Nat /\ m \in Nat \ {0} /\ l \in Nat /\ l \in 0..(n - 1) /\ j \in Nat
  BY LogFacts, LastPerfect
<1> HIDE DEF l
<1> SUFFICES ASSUME NEW q \in Nat, q >= j,
                    Under(n, q + 1, Up(l, q + 1)) > Pow2[q]
             PROVE  <<Under(n, q + 1, Up(l, q + 1)), Pow2[q + 1] * Up(l, q + 1)>>
                      \notin ConsistencyStop(m)
  BY DEF GoesOnAbove, GoesOn, l
<1> DEFINE P == Up(l, q + 1)
           W == Pow2[q + 1]
           U == Under(n, q + 1, P)
           A == W * P
<1>2. q + 1 \in Nat /\ P \in Nat /\ W \in Nat \ {0} /\ Pow2[q] \in Nat \ {0}
  <2>1. PICK r \in Nat : r = q + 1
    OBVIOUS
  <2>2. Up(l, r) \in Nat /\ Pow2[r] \in Nat \ {0} /\ Pow2[q] \in Nat \ {0}
    BY <1>1, Pow2Facts, UpFacts
  <2> QED BY <2>1, <2>2
<1>3. U = IF n - A < W THEN n - A ELSE W
  BY DEF Under
<1>4. U > Pow2[q]
  OBVIOUS
<1> HIDE DEF j, P, W, U
<1>5. A \in Nat /\ W * (P + 1) = A + W
  BY <1>2
<1> HIDE DEF A
<1>6. U \in Int /\ U # 1
  BY <1>1, <1>2, <1>3, <1>4, <1>5
<1>7. A + U # m
  <2> SUFFICES ASSUME A + U = m PROVE FALSE
    OBVIOUS
  <2>1. U = W /\ W * (P + 1) = m
    BY <1>1, <1>2, <1>3, <1>5
  <2>2. P + 1 \in Nat \ {0}
    BY <1>2
  <2>3. PICK k \in Nat, y \in Nat : P + 1 = Pow2[k] * y /\ Odd(y)
    BY <2>2, OddPart
  <2>4. Pow2[(q + 1) + k] = W * Pow2[k] /\ Pow2[k] \in Nat
    BY <1>2, <2>3, Pow2Add, Pow2Facts DEF W
  <2> DEFINE v == Pow2[k]
             r == (q + 1) + k
  <2>5. W * (v * y) = (W * v) * y
    <3> HIDE DEF v
    <3> QED BY <1>2, <2>3, <2>4 DEF v
  <2>6. r \in Nat /\ m = Pow2[r] * y
    BY <1>2, <2>1, <2>3, <2>4, <2>5
  <2> HIDE DEF r
  <2>7. TrailingZeros(m) = r
    BY <2>3, <2>6, TrailingZerosIs
  <2>8. r > q
    BY DEF r
  <2> QED BY <1>1, <2>6, <2>7, <2>8 DEF j
<1>8. <<U, A>> \notin ConsistencyStop(m)
  BY <1>5, <1>6, <1>7 DEF ConsistencyStop
<1> QED BY <1>8 DEF U, A, P, W

\* There the proof, with the first root before it if that is all there is below,
\* is the hash the verifier starts from.
LEMMA BorderArrives ==
  ASSUME NEW n \in 1..Size, NEW m \in 1..n, m < n, NEW f, NEW hash, HashesOfLog(hash, n),
         WalkFunction(f, n, ConsistencyStop(m), Seed(hash), Left(m - 1), hash, "end"),
         NEW pre, pre = IF IsPower(m) THEN <<RootAt(m)>> ELSE <<>>
  PROVE  /\ pre \in Seq(LogHashes)
         /\ \E start : Arrives("consistency", 1, start, pre, f, n, m - 1, TrailingZeros(m))
<1> DEFINE j == TrailingZeros(m)
           l == m - 1
           w == Pow2[j]
           u == Up(l, j)
           a == w * u
           x == NodeAt(n, j, u)
           start == ConsistencyStart(m, n, x)
           path == PathTo(f, n, l, j)
<1>1. /\ n \in Nat /\ m \in Nat \ {0} /\ l \in Nat /\ m \in 0..Size /\ l + 1 = m
      /\ Size \in Nat /\ n <= Size
  BY LogFacts
<1>2. j \in Nat /\ w * (u + 1) = m
  BY <1>1, LastPerfect
<1>3. /\ ConsistencyAt(start, n, l, j) /\ start.fr = x /\ start.sr = x /\ start.valid
      /\ NodeAt(m, j, u) = x /\ Under(n, j, u) = w
  BY ConsistencyStartAt
<1> HIDE DEF j, l, start
<1>4. w \in Nat \ {0} /\ u \in Nat
  BY <1>1, <1>2, Pow2Facts, UpFacts
<1>5. x = Roots(log)[w][a]
  BY <1>3 DEF NodeAt
<1>6. path = f[w][a]
  BY <1>3 DEF PathTo
<1> HIDE DEF x, path, w, u
<1>7. w * (u + 1) = a + w /\ a \in Nat
  BY <1>4
<1> HIDE DEF a
<1>8. a + w = m /\ w \in 1..n /\ w \in 0..Size
  BY <1>1, <1>2, <1>4, <1>7
<1>9. x \in LogHashes
  BY <1>5, <1>7, <1>8, LogHashesAre
<1>10. hash[w][a] = x
  BY <1>1, <1>4, <1>5, <1>7, <1>8 DEF HashesOfLog
<1>11. path = IF a = 0 THEN <<>> ELSE <<x>>
  <2>1. WalkAt(f, w, a, ConsistencyStop(m), Seed(hash), Left(m - 1), hash, "end")
    BY <1>1, <1>7, <1>8, WalkIs
  <2>2. <<w, a>> \in ConsistencyStop(m)
    BY <1>4, <1>7, <1>8 DEF ConsistencyStop
  <2>3. Seed(hash)[w][a] = IF a = 0 THEN <<>> ELSE <<hash[w][a]>>
    BY <1>4, <1>7 DEF Seed
  <2> QED BY <1>6, <1>10, <2>1, <2>2, <2>3 DEF WalkAt
<1>12. IsPower(m) <=> a = 0
  <2>1. IsPower(m) <=> m = w
    BY <1>1 DEF IsPower, w, j
  <2> QED BY <1>1, <1>4, <1>7, <1>8, <2>1
<1>13. a = 0 => x = RootAt(m)
  <2>1. RootAt(m) = Roots(log)[m][0]
    BY <1>1, RootAtIs
  <2>2. a = 0 => w = m
    BY <1>4, <1>8
  <2> QED BY <1>5, <2>1, <2>2
<1>14. pre \in Seq(LogHashes) /\ path \in Seq(LogHashes) /\ pre \o path = <<x>>
  <2>1. CASE a = 0
    <3>1. pre = <<x>> /\ path = <<>>
      BY <1>11, <1>12, <1>13, <2>1
    <3> QED BY <1>9, <3>1
  <2>2. CASE a # 0
    <3>1. pre = <<>> /\ path = <<x>>
      BY <1>11, <1>12, <2>2
    <3>2. <<>> \in Seq(LogHashes) /\ <<x>> \in Seq(LogHashes) /\ <<>> \o <<x>> = <<x>>
      BY <1>9
    <3> QED BY <3>1, <3>2
  <2> QED BY <2>1, <2>2
<1>15. Good("consistency", start, n, l, j)
  BY <1>1, <1>3 DEF Good, u, x
<1>16. Ends("consistency", 1, start, <<x>>, start)
  <2> DEFINE g == [i \in 1..1 |-> start]
  <2>1. Len(<<x>>) = 1
    OBVIOUS
  <2>2. LoopFunction(g, "consistency", <<x>>, 1, 1, start) /\ start = g[1]
    BY DEF LoopFunction
  <2> QED BY <2>1, <2>2 DEF Ends
<1>17. Arrives("consistency", 1, start, pre, f, n, l, j)
  <2>1. Alone(n, l, j, 0) /\ j + 0 = j
    BY <1>2 DEF Alone
  <2>2. \E i, k, t :
          /\ i \in Nat /\ k \in Nat /\ i + k = j /\ Alone(n, l, i, k)
          /\ Good("consistency", t, n, l, i)
          /\ Ends("consistency", 1, start, <<x>>, t)
    BY <1>2, <1>15, <1>16, <2>1
  <2>3. 1 <= Len(<<x>>) /\ <<x>>[1] = x
    OBVIOUS
  <2>4. start = ConsistencyStart(l + 1, n, x)
    BY <1>1 DEF start
  <2> QED BY <1>14, <2>2, <2>3, <2>4 DEF Arrives, path
<1> QED BY <1>14, <1>17 DEF l, j

\* The consistency proof between two sizes is accepted.
LEMMA HonestConsistency ==
  ASSUME NEW n \in 1..Size, NEW m \in 1..n
  PROVE  VerifyConsistency(m, n, RootAt(m), RootAt(n), TiledConsistencyProof(m, n))
<1> DEFINE d == SubSeq(log, 1, n)
           h == Roots(d)
           l == m - 1
<1>1. n \in Nat \ {0} /\ m \in Nat \ {0} /\ n \in 0..Size /\ m \in 0..Size /\ l \in 0..(n - 1) /\ l + 1 = m
  BY LogFacts
<1>2. Len(d) = n
  BY <1>1, RootOfFirst
<1>3. HashesOfLog(h, n)
  BY <1>1, HashesAgree DEF HashesOfLog
<1>4. PICK f : /\ WalkFunction(f, n, ConsistencyStop(m), Seed(h), Left(l), h, "end")
               /\ ConsistencyProof(d, m) = f[n][0]
  <2> HIDE DEF d
  <2> QED BY <1>1, <1>2, ConsistencyProofIs
<1>5. f[n][0] \in Seq(LogHashes) /\ TiledConsistencyProof(m, n) = f[n][0]
  BY <1>4, ConsistencyProofsAgree
<1> HIDE DEF d, h
<1>6. RootAt(n) = Roots(log)[n][0] /\ RootAt(m) = Roots(log)[m][0]
  BY <1>1, RootAtIs
<1>7. CASE m = n
  <2>1. n \in 1..n /\ 0 \in Nat
    BY <1>1
  <2>2. WalkAt(f, n, 0, ConsistencyStop(m), Seed(h), Left(l), h, "end")
    BY <1>1, <1>4, <2>1, WalkIs
  <2>3. <<n, 0>> \in ConsistencyStop(m)
    <3>1. m = 0 + n /\ <<n, 0>> \in Nat \X Nat
      BY <1>1, <1>7
    <3> QED BY <3>1 DEF ConsistencyStop
  <2>4. Seed(h)[n][0] = <<>>
    BY <1>1 DEF Seed
  <2>5. f[n][0] = <<>>
    BY <2>2, <2>3, <2>4 DEF WalkAt
  <2> QED BY <1>1, <1>5, <1>7, <2>5 DEF VerifyConsistency
<1>8. CASE m # n
  <2>1. m < n
    BY <1>1, <1>8
  <2> DEFINE j == TrailingZeros(m)
             pre == IF IsPower(m) THEN <<RootAt(m)>> ELSE <<>>
             proof == f[n][0]
             path == pre \o proof
  <2>2. j \in Nat
    BY <1>1, LastPerfect
  <2>3. GoesOnAbove(ConsistencyStop(m), n, l, j)
    BY <2>1, BorderBelow
  <2>4. pre \in Seq(LogHashes) /\ \E s : Arrives("consistency", 1, s, pre, f, n, l, j)
    <3>1. PICK z : z = pre
      OBVIOUS
    <3> HIDE DEF pre
    <3>2. z = IF IsPower(m) THEN <<RootAt(m)>> ELSE <<>>
      BY <3>1 DEF pre
    <3>3. WalkFunction(f, n, ConsistencyStop(m), Seed(h), Left(m - 1), h, "end")
      BY <1>4
    <3>4. z \in Seq(LogHashes) /\ \E s : Arrives("consistency", 1, s, z, f, n, m - 1, TrailingZeros(m))
      BY <1>3, <2>1, <3>2, <3>3, BorderArrives
    <3> QED BY <3>1, <3>4
  <2>5. PICK start : Arrives("consistency", 1, start, pre, f, n, l, j)
    BY <2>4
  <2>6. path = IF IsPower(m) THEN <<RootAt(m)>> \o proof ELSE proof
    <3>1. <<>> \o proof = proof
      BY <1>5
    <3> QED BY <3>1
  <2> HIDE DEF pre, j, l
  <2>7. /\ 1 <= Len(path) /\ start = ConsistencyStart(l + 1, n, path[1])
        /\ \E t : Ends("consistency", 1, start, path, t) /\ AtRoot("consistency", t, n, l)
    <3>1. "consistency" \in {"inclusion", "consistency"} /\ 1 \in Nat
      OBVIOUS
    <3> QED BY <1>1, <1>3, <1>4, <2>2, <2>3, <2>4, <2>5, <3>1, PathVerifies
  <2>8. PICK t : Ends("consistency", 1, start, path, t) /\ AtRoot("consistency", t, n, l)
    BY <2>7
  <2>9. path \in Seq(LogHashes)
    BY <1>5, <2>4, Concatenated
  <2> HIDE DEF path, proof
  <2>10. Len(path) \in Nat \ {0} /\ Len(path) \in Nat /\ path # <<>>
    BY <2>7, <2>9
  <2>11. start = ConsistencyStart(m, n, path[1])
    BY <1>1, <2>7
  <2>12. PICK g : /\ LoopFunction(g, "consistency", path, 1, Len(path), start)
                  /\ RootsFromPath(m, n, path) = g[Len(path)]
    BY <2>10, <2>11, ConsistencyLoop
  <2>13. t = g[Len(path)]
    BY <2>7, <2>8, <2>10, <2>12, EndsOnce
  <2>14. t.valid /\ t.sn = 0 /\ t.sr = RootAt(n) /\ t.fr = RootAt(m)
    BY <1>1, <1>6, <2>8 DEF AtRoot
  <2>15. VerifyConsistency(m, n, RootAt(m), RootAt(n), proof)
    BY <1>1, <2>1, <2>6, <2>10, <2>12, <2>13, <2>14 DEF VerifyConsistency
  <2> QED BY <1>5, <2>15 DEF proof
<1> QED BY <1>7, <1>8

----------------------------------------------------------------------------
(* The system. *)

\* The log's own answers are formed like any claim.
LEMMA AnswersAreClaims ==
  /\ \A size \in 1..Size : \A index \in 0..(size - 1) :
       TiledInclusionProof(index, size) \in Seq(ToSet(TiledInclusionProof(index, size)))
  /\ \A size \in 1..Size : \A first \in 1..size :
       TiledConsistencyProof(first, size) \in Seq(ToSet(TiledConsistencyProof(first, size)))
BY InclusionProofsAgree, ConsistencyProofsAgree, ElementsOf

\* A change leaves a claim formed like one.
LEMMA ChangedClaim ==
  ASSUME ClaimOK, Change
  PROVE  ClaimOK'
<1>1. Size \in Nat /\ MaxChanges \in Nat /\ MaxChanged \in 0..Size
  BY MerkleAssumption
<1>2. changes \in 0..MaxChanges /\ changes < MaxChanges /\ changes' = changes + 1
  BY DEF ClaimOK, Change
<1>3. changes' \in 0..MaxChanges /\ changes' # 0
  BY <1>1, <1>2
<1> DEFINE Kinds == {"none", "inclusion", "consistency"}
           p == claim.proof
<1>4. /\ claim = [kind |-> claim.kind, at |-> claim.at, size |-> claim.size,
                  from |-> claim.from, root |-> claim.root, proof |-> claim.proof]
      /\ claim.kind \in Kinds /\ claim.at \in 0..(Size + 1) /\ claim.size \in 0..Size
      /\ claim.root = RootAt(claim.size) /\ p \in Seq(ToSet(p))
  BY DEF ClaimOK
<1> DEFINE Formed(c) ==
             c \in [kind : Kinds, at : 0..(Size + 1), size : 0..Size,
                    from : {c.from}, root : {RootAt(c.size)}, proof : Seq(ToSet(c.proof))]
<1>5. ASSUME NEW kind \in Kinds, NEW at \in 0..(Size + 1), NEW size \in 0..Size,
             NEW from, NEW root, NEW proof, root = RootAt(size), proof \in Seq(ToSet(proof)),
             claim' = [kind |-> kind, at |-> at, size |-> size,
                       from |-> from, root |-> root, proof |-> proof]
      PROVE  Formed(claim')
  <2> HIDE DEF Kinds
  <2>1. claim'.kind = kind /\ claim'.at = at /\ claim'.size = size /\ claim'.from = from
        /\ claim'.root = root /\ claim'.proof = proof
    BY <1>5
  <2> QED BY <1>5, <2>1
<1>6. ASSUME NEW S, NEW q \in Seq(S), claim' = [claim EXCEPT !.proof = q] PROVE Formed(claim')
  <2>1. q \in Seq(ToSet(q))
    BY ElementsOf
  <2>2. claim' = [kind |-> claim.kind, at |-> claim.at, size |-> claim.size,
                  from |-> claim.from, root |-> claim.root, proof |-> q]
    BY <1>4, <1>6
  <2> HIDE DEF Formed, Kinds
  <2> QED BY <1>4, <1>5, <2>1, <2>2
<1>7. Formed(claim')
  <2> HIDE DEF Kinds, Formed
  <2>1. ASSUME NEW at \in 0..(claim.size + 1), claim' = [claim EXCEPT !.at = at]
        PROVE  Formed(claim')
    <3>1. at \in 0..(Size + 1)
      BY <1>1, <1>4
    <3>2. claim' = [kind |-> claim.kind, at |-> at, size |-> claim.size,
                    from |-> claim.from, root |-> claim.root, proof |-> claim.proof]
      BY <1>4, <2>1
    <3> QED BY <1>4, <1>5, <3>1, <3>2
  <2>2. ASSUME NEW size \in 0..MaxChanged,
               claim' = [claim EXCEPT !.size = size, !.root = RootAt(size)]
        PROVE  Formed(claim')
    <3>1. size \in 0..Size
      BY <1>1
    <3>2. claim' = [kind |-> claim.kind, at |-> claim.at, size |-> size,
                    from |-> claim.from, root |-> RootAt(size), proof |-> claim.proof]
      BY <1>4, <2>2
    <3> QED BY <1>4, <1>5, <3>1, <3>2
  <2>3. ASSUME NEW h, claim' = [claim EXCEPT !.from = h] PROVE Formed(claim')
    <3>1. claim' = [kind |-> claim.kind, at |-> claim.at, size |-> claim.size,
                    from |-> h, root |-> claim.root, proof |-> claim.proof]
      BY <1>4, <2>3
    <3> QED BY <1>4, <1>5, <3>1
  <2>4. ASSUME NEW h
        PROVE  LET S == ToSet(p) \cup {h} IN
               /\ \A i \in DOMAIN p : RemoveAt(p, i) \in Seq(S)
               /\ \A i \in 1..(Len(p) + 1) : InsertAt(p, i, h) \in Seq(S)
               /\ \A i \in DOMAIN p : ReplaceAt(p, i, h) \in Seq(S)
               /\ \A i \in 1..(Len(p) - 1) :
                    [p EXCEPT ![i] = p[i + 1], ![i + 1] = p[i]] \in Seq(S)
    <3>1. p \in Seq(ToSet(p) \cup {h}) /\ h \in ToSet(p) \cup {h}
      BY <1>4
    <3> HIDE DEF p
    <3> QED BY <3>1, ChangedPlace
  <2>5. \/ \E at \in 0..(claim.size + 1) : claim' = [claim EXCEPT !.at = at]
        \/ \E size \in 0..MaxChanged : claim' = [claim EXCEPT !.size = size, !.root = RootAt(size)]
        \/ \E h \in Known : claim' = [claim EXCEPT !.from = h]
        \/ \E i \in DOMAIN p : claim' = [claim EXCEPT !.proof = RemoveAt(p, i)]
        \/ \E i \in 1..(Len(p) + 1), h \in Known : claim' = [claim EXCEPT !.proof = InsertAt(p, i, h)]
        \/ \E i \in DOMAIN p, h \in Known : claim' = [claim EXCEPT !.proof = ReplaceAt(p, i, h)]
        \/ \E i \in 1..(Len(p) - 1) :
             claim' = [claim EXCEPT !.proof = [p EXCEPT ![i] = p[i + 1], ![i + 1] = p[i]]]
    BY DEF Change
  <2> HIDE DEF p
  <2>6. CASE \E i \in DOMAIN p : claim' = [claim EXCEPT !.proof = RemoveAt(p, i)]
    BY <1>6, <2>4, <2>6
  <2>7. CASE \E i \in 1..(Len(p) + 1), h \in Known :
               claim' = [claim EXCEPT !.proof = InsertAt(p, i, h)]
    BY <1>6, <2>4, <2>7
  <2>8. CASE \E i \in DOMAIN p, h \in Known : claim' = [claim EXCEPT !.proof = ReplaceAt(p, i, h)]
    BY <1>6, <2>4, <2>8
  <2>9. CASE \E i \in 1..(Len(p) - 1) :
               claim' = [claim EXCEPT !.proof = [p EXCEPT ![i] = p[i + 1], ![i + 1] = p[i]]]
    BY <1>6, <2>4, <2>9
  <2> QED BY <2>1, <2>2, <2>3, <2>5, <2>6, <2>7, <2>8, <2>9
<1> QED BY <1>3, <1>7 DEF ClaimOK

\* Claims stay what they are by construction of the question, the answer and the
\* changes: ClaimOK is inductive.
THEOREM ClaimsAreFormed == Spec => []ClaimOK
<1>1. Size \in Nat /\ MaxChanges \in Nat /\ MaxChanged \in 0..Size
  BY MerkleAssumption
<1>2. Init => ClaimOK
  <2> SUFFICES ASSUME Init PROVE ClaimOK
    OBVIOUS
  <2>1. RootAt(0) = EmptyHash
    BY <1>1, RangeHashIs DEF RootAt, TileRoots
  <2>2. <<>> \in Seq(ToSet(<<>>))
    OBVIOUS
  <2>3. claim = NoClaim /\ changes = 0
    BY DEF Init
  <2>4. /\ claim.kind = "none" /\ claim.at = 0 /\ claim.size = 0 /\ claim.from = EmptyHash
        /\ claim.root = EmptyHash /\ claim.proof = <<>>
    BY <2>3 DEF NoClaim
  <2>5. claim \in [kind : {"none", "inclusion", "consistency"}, at : 0..(Size + 1), size : 0..Size,
                   from : {claim.from}, root : {RootAt(claim.size)},
                   proof : Seq(ToSet(claim.proof))]
    BY <1>1, <2>1, <2>2, <2>3, <2>4 DEF NoClaim
  <2> QED BY <1>1, <2>3, <2>5 DEF ClaimOK
<1>3. ClaimOK /\ [Next]_vars => ClaimOK'
  <2> SUFFICES ASSUME ClaimOK, [Next]_vars PROVE ClaimOK'
    OBVIOUS
  <2> DEFINE Kinds == {"none", "inclusion", "consistency"}
  <2>1. ASSUME NEW kind \in Kinds, NEW at \in 0..(Size + 1), NEW size \in 0..Size, NEW from,
               NEW proof, proof \in Seq(ToSet(proof)),
               claim' = [kind |-> kind, at |-> at, size |-> size, from |-> from,
                         root |-> RootAt(size), proof |-> proof]
        PROVE  /\ claim'.kind = kind /\ claim'.at = at /\ claim'.size = size
               /\ claim'.from = from /\ claim'.proof = proof
               /\ claim' \in [kind : Kinds, at : 0..(Size + 1), size : 0..Size,
                              from : {claim'.from}, root : {RootAt(claim'.size)},
                              proof : Seq(ToSet(claim'.proof))]
    <3> HIDE DEF Kinds
    <3>1. /\ claim'.kind = kind /\ claim'.at = at /\ claim'.size = size
          /\ claim'.from = from /\ claim'.proof = proof
      BY <2>1
    <3> QED BY <2>1, <3>1
  <2>2. ASSUME NEW index \in 0..Size, NEW size \in 0..Size, AskInclusion(index, size)
        PROVE  ClaimOK'
    <3>1. size \in 1..Size /\ index \in 0..(size - 1) /\ index \in 0..(Size + 1)
          /\ index \in Nat /\ "inclusion" \in Kinds
      BY <1>1, <2>2 DEF AskInclusion
    <3>2. TiledInclusionProof(index, size) \in Seq(ToSet(TiledInclusionProof(index, size)))
      BY <3>1, AnswersAreClaims
    <3>3. Stored[0][index] = log[index + 1]
      BY <3>1, StoredIs
    <3>4. claim' = [kind |-> "inclusion", at |-> index, size |-> size, from |-> log[index + 1],
                    root |-> RootAt(size), proof |-> TiledInclusionProof(index, size)]
          /\ changes' = changes
      BY <2>2, <3>3 DEF AskInclusion
    <3> HIDE DEF Kinds
    <3>5. /\ claim'.kind = "inclusion" /\ claim'.at = index /\ claim'.size = size
          /\ claim'.from = log[index + 1] /\ claim'.proof = TiledInclusionProof(index, size)
          /\ claim' \in [kind : Kinds, at : 0..(Size + 1), size : 0..Size,
                         from : {claim'.from}, root : {RootAt(claim'.size)},
                         proof : Seq(ToSet(claim'.proof))]
      BY <2>1, <3>1, <3>2, <3>4
    <3>6. index < size
      BY <3>1
    <3> QED BY <3>4, <3>5, <3>6 DEF ClaimOK, Kinds
  <2>3. ASSUME NEW first \in 0..Size, NEW second \in 0..Size, AskConsistency(first, second)
        PROVE  ClaimOK'
    <3>1. second \in 1..Size /\ first \in 1..second /\ first \in 0..(Size + 1)
          /\ "consistency" \in Kinds
      BY <1>1, <2>3 DEF AskConsistency
    <3>2. TiledConsistencyProof(first, second) \in
            Seq(ToSet(TiledConsistencyProof(first, second)))
      BY <3>1, AnswersAreClaims
    <3>3. claim' = [kind |-> "consistency", at |-> first, size |-> second,
                    from |-> RootAt(first), root |-> RootAt(second),
                    proof |-> TiledConsistencyProof(first, second)]
          /\ changes' = changes
      BY <2>3 DEF AskConsistency
    <3> HIDE DEF Kinds
    <3>4. /\ claim'.kind = "consistency" /\ claim'.at = first /\ claim'.size = second
          /\ claim'.from = RootAt(first) /\ claim'.proof = TiledConsistencyProof(first, second)
          /\ claim' \in [kind : Kinds, at : 0..(Size + 1), size : 0..Size,
                         from : {claim'.from}, root : {RootAt(claim'.size)},
                         proof : Seq(ToSet(claim'.proof))]
      BY <2>1, <3>1, <3>2, <3>3
    <3> QED BY <3>1, <3>3, <3>4 DEF ClaimOK, Kinds
  <2>4. CASE Change
    BY <2>4, ChangedClaim
  <2>5. CASE UNCHANGED vars
    BY <2>5 DEF vars, ClaimOK
  <2> QED BY <2>2, <2>3, <2>4, <2>5 DEF Next
<1> QED BY <1>2, <1>3, PTL DEF Spec

\* Accepted inclusion proofs are true, whatever was changed in the answer on its way:
\* with the root of a tree of the log, the verifier accepts for an index only the
\* entry of that index.
THEOREM InclusionSound == Spec => []VerifiedInclusionIsTrue
<1>1. ClaimOK => VerifiedInclusionIsTrue
  <2> SUFFICES ASSUME ClaimOK, claim.kind = "inclusion", Verified
               PROVE  claim.at \in 0..(claim.size - 1) /\ claim.from = log[claim.at + 1]
    BY DEF VerifiedInclusionIsTrue
  <2> DEFINE n == claim.size
             m == claim.at
             p == claim.proof
  <2>1. n \in 0..Size /\ m \in 0..(Size + 1) /\ claim.root = RootAt(n) /\ p \in Seq(ToSet(p))
    BY DEF ClaimOK
  <2>2. VerifyInclusion(claim.from, m, n, p, claim.root)
    BY DEF Verified
  <2> HIDE DEF n, m, p
  <2>3. m < n
    BY <2>2 DEF VerifyInclusion
  <2>4. n \in 1..Size /\ m \in 0..(n - 1)
    BY <2>1, <2>3, LogFacts
  <2>5. claim.root = Roots(log)[n][0]
    BY <2>1, RootAtIs
  <2>6. Len(p) \in Nat
    BY <2>1
  <2>7. claim.from = log[m + 1]
    BY <2>2, <2>4, <2>5, <2>6, InclusionIsSound
  <2> QED BY <2>4, <2>7 DEF n, m
<1> QED BY <1>1, ClaimsAreFormed, PTL

\* Accepted consistency proofs are true: with the root of the larger tree of the log,
\* the verifier accepts for a first size only the root of those first entries.
THEOREM ConsistencySound == Spec => []VerifiedConsistencyIsTrue
<1>1. ClaimOK => VerifiedConsistencyIsTrue
  <2> SUFFICES ASSUME ClaimOK, claim.kind = "consistency", Verified
               PROVE  /\ claim.at \in 1..claim.size
                      /\ claim.from = Root(SubSeq(log, 1, claim.at))
    BY DEF VerifiedConsistencyIsTrue
  <2> DEFINE n == claim.size
             m == claim.at
             p == claim.proof
             x == claim.from
             S == ToSet(p) \cup {x}
  <2>1. n \in 0..Size /\ m \in 0..(Size + 1) /\ claim.root = RootAt(n) /\ p \in Seq(ToSet(p))
    BY DEF ClaimOK
  <2>2. VerifyConsistency(m, n, x, claim.root, p)
    BY DEF Verified
  <2>3. p \in Seq(S) /\ x \in S
    BY <2>1
  <2> HIDE DEF n, m, p, x, S
  <2>4. m > 0 /\ m <= n
    BY <2>2 DEF VerifyConsistency
  <2>5. n \in 1..Size /\ m \in 1..n /\ m \in 0..Size
    BY <2>1, <2>4, LogFacts
  <2>6. claim.root = Roots(log)[n][0]
    BY <2>1, RootAtIs
  <2>7. x = Roots(log)[m][0]
    BY <2>2, <2>3, <2>5, <2>6, ConsistencyIsSound
  <2>8. x = Root(SubSeq(log, 1, m))
    BY <2>5, <2>7, RootOfFirst
  <2> QED BY <2>5, <2>8 DEF n, m, x
<1> QED BY <1>1, ClaimsAreFormed, PTL

\* What the tile log answers, from tiles and in loops, is what vc-log computes from
\* the entries: the roots, the inclusion proofs and the consistency proofs.
THEOREM TilesAnswerAsTheTree == Spec => []TiledAnswersAgree
<1>1. ClaimOK => TiledAnswersAgree
  <2> SUFFICES ASSUME ClaimOK, changes = 0
               PROVE  LET d == SubSeq(log, 1, claim.size) IN
                      /\ claim.root = Root(d)
                      /\ claim.kind = "inclusion" => claim.proof = InclusionProof(d, claim.at)
                      /\ claim.kind = "consistency" =>
                           /\ claim.proof = ConsistencyProof(d, claim.at)
                           /\ claim.from = Root(SubSeq(d, 1, claim.at))
    BY DEF TiledAnswersAgree
  <2> DEFINE n == claim.size
             m == claim.at
             d == SubSeq(log, 1, n)
  <2>1. n \in 0..Size /\ m \in 0..(Size + 1) /\ claim.root = RootAt(n) /\ Size \in Nat
    BY LogFacts DEF ClaimOK
  <2>2. \/ claim = NoClaim
        \/ /\ claim.kind = "inclusion" /\ m < n /\ claim.from = log[m + 1]
           /\ claim.proof = TiledInclusionProof(m, n)
        \/ /\ claim.kind = "consistency" /\ m \in 1..n /\ claim.from = RootAt(m)
           /\ claim.proof = TiledConsistencyProof(m, n)
    BY DEF ClaimOK
  <2> HIDE DEF n, m, d
  <2>3. claim.root = Root(d)
    BY <2>1, RootAtIs DEF d
  <2>4. CASE claim = NoClaim
    <3>1. claim.kind = "none"
      BY <2>4 DEF NoClaim
    <3> QED BY <2>3, <3>1 DEF d, n
  <2>5. CASE /\ claim.kind = "inclusion" /\ m < n /\ claim.from = log[m + 1]
             /\ claim.proof = TiledInclusionProof(m, n)
    <3>1. n \in 1..Size /\ m \in 0..(n - 1)
      BY <2>1, <2>5
    <3>2. claim.proof = InclusionProof(d, m)
      BY <2>5, <3>1, InclusionProofsAgree DEF d
    <3> QED BY <2>3, <2>5, <3>2 DEF d, n, m
  <2>6. CASE /\ claim.kind = "consistency" /\ m \in 1..n /\ claim.from = RootAt(m)
             /\ claim.proof = TiledConsistencyProof(m, n)
    <3>1. n \in 1..Size /\ m \in 0..Size /\ m \in Nat
      BY <2>1, <2>6
    <3>2. claim.proof = ConsistencyProof(d, m)
      BY <2>6, <3>1, ConsistencyProofsAgree DEF d
    <3>3. claim.from = Root(SubSeq(d, 1, m))
      <4> DEFINE e == SubSeq(d, 1, m)
      <4>1. /\ Len(d) = n
            /\ \A k \in 0..n, a \in Nat : a + k <= n => Roots(d)[k][a] = Roots(log)[k][a]
        BY <2>1, RootOfFirst DEF d
      <4>2. d \in Seq({LeafHash(i) : i \in 1..Size})
        BY <2>1, LogFacts DEF d
      <4>3. Len(e) = m /\ \A i \in 1..m : e[i] = d[i]
        BY <2>1, <2>6, <4>1, <4>2
      <4> HIDE DEF e
      <4>4. Roots(e)[m][0] = Roots(d)[m][0]
        <5>1. Len(d) \in Nat /\ Len(e) \in Nat /\ Len(e) <= Len(d) /\ m \in 0..Len(e) /\ 0 + m <= Len(e)
          BY <2>1, <2>6, <3>1, <4>1, <4>3
        <5>2. \A i \in 1..Len(e) : e[i] = d[i]
          BY <4>3
        <5> QED BY <5>1, <5>2, RootsOfStart
      <4>5. Roots(d)[m][0] = Roots(log)[m][0]
        <5>1. m \in 0..n /\ 0 + m <= n
          BY <2>1, <2>6
        <5> QED BY <4>1, <5>1
      <4>6. RootAt(m) = Roots(log)[m][0]
        BY <3>1, RootAtIs
      <4> QED BY <2>6, <4>3, <4>4, <4>5, <4>6 DEF Root, e
    <3> QED BY <2>3, <2>6, <3>2, <3>3 DEF d, n, m
  <2> QED BY <2>2, <2>4, <2>5, <2>6
<1> QED BY <1>1, ClaimsAreFormed, PTL

\* Every answer of the log convinces the verifier: the loops of the prover and of
\* the verifier meet at the same subtrees, for every index and every two sizes.
THEOREM HonestProofs == Spec => []HonestProofVerifies
<1>1. ClaimOK => HonestProofVerifies
  <2> SUFFICES ASSUME ClaimOK, claim.kind # "none", changes = 0
               PROVE  Verified
    BY DEF HonestProofVerifies
  <2> DEFINE n == claim.size
             m == claim.at
  <2>1. n \in 0..Size /\ m \in 0..(Size + 1) /\ claim.root = RootAt(n) /\ Size \in Nat
    BY LogFacts DEF ClaimOK
  <2>2. \/ claim = NoClaim
        \/ /\ claim.kind = "inclusion" /\ m < n /\ claim.from = log[m + 1]
           /\ claim.proof = TiledInclusionProof(m, n)
        \/ /\ claim.kind = "consistency" /\ m \in 1..n /\ claim.from = RootAt(m)
           /\ claim.proof = TiledConsistencyProof(m, n)
    BY DEF ClaimOK
  <2>3. claim # NoClaim
    BY DEF NoClaim
  <2> HIDE DEF n, m
  <2>4. CASE /\ claim.kind = "inclusion" /\ m < n /\ claim.from = log[m + 1]
             /\ claim.proof = TiledInclusionProof(m, n)
    <3>1. n \in 1..Size /\ m \in 0..(n - 1)
      BY <2>1, <2>4
    <3>2. VerifyInclusion(claim.from, m, n, claim.proof, claim.root)
      BY <2>1, <2>4, <3>1, HonestInclusion
    <3> QED BY <2>4, <3>2 DEF Verified, n, m
  <2>5. CASE /\ claim.kind = "consistency" /\ m \in 1..n /\ claim.from = RootAt(m)
             /\ claim.proof = TiledConsistencyProof(m, n)
    <3>1. n \in 1..Size
      BY <2>1, <2>5
    <3>2. VerifyConsistency(m, n, claim.from, claim.root, claim.proof)
      BY <2>1, <2>5, <3>1, HonestConsistency
    <3> QED BY <2>5, <3>2 DEF Verified, n, m
  <2> QED BY <2>2, <2>3, <2>4, <2>5
<1> QED BY <1>1, ClaimsAreFormed, PTL
=============================================================================
