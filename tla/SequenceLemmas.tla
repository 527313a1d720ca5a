-------------------------- MODULE SequenceLemmas --------------------------
(***************************************************************************)
(* Facts about numbers, recursive functions, sequences and finite sets that*)
(* the proofs of several components cite.                                  *)
(***************************************************************************)
EXTENDS Integers, Sequences, SequencesExt, FiniteSetTheorems, TLAPS

(* Numbers and recursion. *)

\* Every non-empty set of naturals has a least element.
LEMMA NatLeast ==
  ASSUME NEW T, T \subseteq Nat, T # {}
  PROVE  \E x \in T : \A y \in T : x <= y
<1> DEFINE R == OpToRel(<, Nat)
<1>1. IsWellFoundedOn(R, Nat)
  BY NatLessThanWellFounded, Zenon
<1>2. \A x, y \in Nat : y < x => <<y, x>> \in R
  BY Zenon DEF OpToRel
<1> HIDE DEF R
<1>3. \E x \in T : \A y \in T : ~ (<<y, x>> \in R)
  BY <1>1, WFMin, Zenon
<1>4. \E x \in T : \A y \in T : ~ (y < x)
  BY <1>2, <1>3, Zenon
<1> QED BY <1>4

\* Induction in the form a set can state it: a set of naturals that contains 0
\* and, with every number below n, the next, contains all of them up to n.
LEMMA NatUpTo ==
  ASSUME NEW n \in Nat, NEW T, 0 \in T, \A k \in 0..(n - 1) : k \in T => k + 1 \in T
  PROVE  0..n \subseteq T
<1> DEFINE U == {k \in 0..n : k \notin T}
<1>1. SUFFICES ASSUME U # {} PROVE FALSE
  OBVIOUS
<1>2. PICK x \in U : \A y \in U : x <= y
  <2>1. U \subseteq Nat
    OBVIOUS
  <2> HIDE DEF U
  <2> QED BY <1>1, <2>1, NatLeast
<1>3. x - 1 \in 0..(n - 1) /\ x - 1 \notin U
  BY <1>2
<1> QED BY <1>2, <1>3

\* Division of naturals: quotient and remainder.
LEMMA DivMod ==
  ASSUME NEW x \in Nat, NEW y \in Nat \ {0}
  PROVE  /\ x \div y \in Nat /\ x % y \in 0..(y - 1)
         /\ x = y * (x \div y) + (x % y)
  OBVIOUS

\* Multiplication is monotone.
LEMMA TimesMono ==
  ASSUME NEW x \in Nat, NEW y \in Nat, NEW k \in Nat, x <= y
  PROVE  k * x <= k * y /\ k * x \in Nat /\ k * y \in Nat
  OBVIOUS

\* Quotients are compared by their products.
LEMMA QuotientBound ==
  ASSUME NEW x \in Nat, NEW q \in Nat, NEW y \in Nat \ {0}
  PROVE  /\ q <= x \div y <=> y * q <= x
         /\ x \div y <= q <=> x < y * (q + 1)
<1> DEFINE d == x \div y
           m == x % y
<1>1. d \in Nat /\ m \in 0..(y - 1) /\ x = y * d + m
  BY DivMod
<1>2. y * (d + 1) = y * d + y /\ y * (q + 1) = y * q + y /\ y * d \in Nat /\ y * q \in Nat
  BY <1>1
<1> HIDE DEF d, m
<1>3. ASSUME q <= d PROVE y * q <= x
  <2>1. y * q <= y * d
    BY <1>1, <1>3, TimesMono
  <2> QED BY <1>1, <1>2, <2>1
<1>4. ASSUME d + 1 <= q PROVE x < y * q
  <2>1. y * (d + 1) <= y * q
    BY <1>1, <1>4, TimesMono
  <2> QED BY <1>1, <1>2, <2>1
<1>5. ASSUME d <= q PROVE x < y * (q + 1)
  <2>1. y * d <= y * q
    BY <1>1, <1>5, TimesMono
  <2> QED BY <1>1, <1>2, <2>1
<1>6. ASSUME q + 1 <= d PROVE y * (q + 1) <= x
  <2>1. y * (q + 1) <= y * d
    BY <1>1, <1>6, TimesMono
  <2> QED BY <1>1, <1>2, <2>1
<1>7. q <= d <=> y * q <= x
  BY <1>1, <1>2, <1>3, <1>4
<1>8. d <= q <=> x < y * (q + 1)
  BY <1>1, <1>2, <1>5, <1>6
<1> QED BY <1>7, <1>8 DEF d

\* A number with this quotient and remainder.
LEMMA QuotientIs ==
  ASSUME NEW x \in Nat, NEW q \in Nat, NEW y \in Nat \ {0}, NEW r \in 0..(y - 1),
         x = y * q + r
  PROVE  x \div y = q
<1>1. y * q <= x /\ x < y * (q + 1)
  <2>1. y * (q + 1) = y * q + y /\ y * q \in Nat
    OBVIOUS
  <2> QED BY <2>1
<1>2. q <= x \div y /\ x \div y <= q
  BY <1>1, QuotientBound
<1>3. x \div y \in Nat
  BY DivMod
<1> QED BY <1>2, <1>3

\* Dividing twice is dividing by the product.
LEMMA DivDiv ==
  ASSUME NEW x \in Nat, NEW a \in Nat \ {0}, NEW b \in Nat \ {0}
  PROVE  (x \div a) \div b = x \div (b * a)
<1> DEFINE q == x \div a
           r == x % a
           d == q \div b
           m == q % b
           c == b * a
<1>1. q \in Nat /\ r \in 0..(a - 1) /\ x = a * q + r
  BY DivMod
<1>2. d \in Nat /\ m \in 0..(b - 1) /\ q = b * d + m
  BY <1>1, DivMod
<1> HIDE DEF q, r, d, m
<1>3. c \in Nat \ {0} /\ c = a * b
  OBVIOUS
<1>4. a * m \in Nat /\ a * m <= a * (b - 1) /\ a * (b - 1) = c - a
  <2>1. b - 1 \in Nat /\ m \in Nat /\ m <= b - 1
    BY <1>2
  <2>2. a * m <= a * (b - 1) /\ a * m \in Nat
    BY <2>1, TimesMono
  <2>3. a * (b - 1) = a * b - a
    OBVIOUS
  <2> QED BY <1>3, <2>2, <2>3
<1>5. x = c * d + (a * m + r)
  <2>1. a * (b * d + m) = a * (b * d) + a * m
    BY <1>2
  <2>2. a * (b * d) = (a * b) * d
    BY <1>2
  <2> QED BY <1>1, <1>2, <1>3, <2>1, <2>2
<1> HIDE DEF c
<1>6. a * m + r \in 0..(c - 1)
  BY <1>1, <1>3, <1>4
<1>7. x \div c = d
  BY <1>2, <1>3, <1>5, <1>6, QuotientIs
<1> QED BY <1>7 DEF q, d, c

\* Quotients of larger numbers are larger.
LEMMA DivMono ==
  ASSUME NEW x \in Nat, NEW y \in Nat, NEW k \in Nat \ {0}, x <= y
  PROVE  x \div k <= y \div k /\ x \div k <= x /\ x \div 1 = x
<1>1. x \div k \in Nat /\ y \div k \in Nat
  BY DivMod
<1>2. k * (x \div k) <= x
  BY <1>1, QuotientBound
<1>3. k * (x \div k) <= y
  <2>1. k * (x \div k) \in Nat
    BY <1>1
  <2> QED BY <1>2, <2>1
<1>4. x \div k <= y \div k
  BY <1>1, <1>3, QuotientBound
<1>5. 1 * (x \div k) <= k * (x \div k)
  <2>1. (x \div k) * 1 <= (x \div k) * k
    BY <1>1, TimesMono
  <2> QED BY <1>1, <2>1
<1>6. x \div k <= x
  BY <1>1, <1>2, <1>5
<1> QED BY <1>4, <1>6

\* A function on 0..n that is given by its first value and by each value from the
\* one before ...
Recursive(f, n, S, first, F) ==
  f \in [0..n -> S] /\ f[0] = first /\ \A i \in 1..n : f[i] = F[i][f[i - 1]]

Recursion(n, S, first, F) == \E f : Recursive(f, n, S, first, F)

\* ... exists.
LEMMA RecursionExists ==
  ASSUME NEW n \in Nat, NEW S, NEW first \in S, NEW F \in [1..n -> [S -> S]]
  PROVE  Recursion(n, S, first, F)
<1> DEFINE Upto(m, f) == f[0] = first /\ \A i \in 1..m : f[i] = F[i][f[i - 1]]
           T == {m \in 0..n : \E f \in [0..m -> S] : Upto(m, f)}
<1>1. 0 \in T
  <2> DEFINE f == [i \in 0..0 |-> first]
  <2>1. f \in [0..0 -> S] /\ Upto(0, f)
    OBVIOUS
  <2> HIDE DEF f
  <2>2. \E h \in [0..0 -> S] : Upto(0, h)
    BY <2>1
  <2> QED BY <2>2
<1>2. ASSUME NEW m \in 0..(n - 1), m \in T PROVE m + 1 \in T
  <2>1. PICK f \in [0..m -> S] : Upto(m, f)
    BY <1>2
  <2> DEFINE next == F[m + 1][f[m]]
             g == [i \in 0..(m + 1) |-> IF i = m + 1 THEN next ELSE f[i]]
  <2>2. m \in Nat /\ m + 1 \in 1..n /\ m + 1 \in 0..n
    BY <1>2
  <2>3. f[m] \in S
    BY <2>2
  <2>4. next \in S
    BY <2>2, <2>3
  <2> HIDE DEF next
  <2>5. g \in [0..(m + 1) -> S]
    BY <2>2, <2>4
  <2>6. g[0] = first
    BY <2>1, <2>2
  <2>7. \A i \in 1..m : g[i] = f[i] /\ g[i - 1] = f[i - 1]
    BY <2>2
  <2>8. g[m + 1] = F[m + 1][g[m]]
    BY <2>2 DEF next
  <2>9. \A i \in 1..(m + 1) : g[i] = F[i][g[i - 1]]
    <3>1. \A i \in 1..m : g[i] = F[i][g[i - 1]]
      BY <2>1, <2>7
    <3>2. \A i \in 1..(m + 1) : i \in 1..m \/ i = m + 1
      BY <2>2
    <3>3. (m + 1) - 1 = m
      BY <2>2
    <3> QED BY <2>8, <3>1, <3>2, <3>3
  <2> HIDE DEF g
  <2> QED BY <2>2, <2>5, <2>6, <2>9
<1> HIDE DEF T
<1>3. 0..n \subseteq T
  BY <1>1, <1>2, NatUpTo
<1>4. n \in T
  BY <1>3
<1> QED BY <1>4 DEF T, Recursion, Recursive

----------------------------------------------------------------------------
(* Sequences. *)

\* What Append does, position by position.
LEMMA Appended ==
  ASSUME NEW S, NEW ss \in Seq(S), NEW s \in S
  PROVE  /\ Append(ss, s) \in Seq(S)
         /\ Len(ss) \in Nat /\ DOMAIN ss = 1..Len(ss)
         /\ DOMAIN Append(ss, s) = 1..(Len(ss) + 1)
         /\ \A i \in 1..Len(ss) : Append(ss, s)[i] = ss[i] /\ ss[i] \in S
         /\ Append(ss, s)[Len(ss) + 1] = s
  OBVIOUS

\* What concatenation does, position by position.
LEMMA Concatenated ==
  ASSUME NEW S, NEW s \in Seq(S), NEW t \in Seq(S)
  PROVE  /\ s \o t \in Seq(S) /\ Len(s \o t) = Len(s) + Len(t)
         /\ Len(s) \in Nat /\ Len(t) \in Nat
         /\ DOMAIN (s \o t) = 1..(Len(s) + Len(t))
         /\ \A i \in 1..Len(s) : (s \o t)[i] = s[i]
         /\ \A i \in 1..Len(t) : (s \o t)[Len(s) + i] = t[i]
OBVIOUS

\* Sequences are equal that have the same length and the same elements.
LEMMA SameSequence ==
  ASSUME NEW S, NEW s \in Seq(S), NEW t \in Seq(S), Len(s) = Len(t),
         \A i \in 1..Len(s) : s[i] = t[i]
  PROVE  s = t
OBVIOUS

\* Appending to the second part appends to the whole.
LEMMA ConcatAppend ==
  ASSUME NEW S, NEW s \in Seq(S), NEW t \in Seq(S), NEW e \in S
  PROVE  s \o Append(t, e) = Append(s \o t, e)
<1> DEFINE u == s \o t
           v == Append(t, e)
           n == Len(s) + Len(t)
<1>1. /\ u \in Seq(S) /\ Len(u) = n /\ Len(s) \in Nat /\ Len(t) \in Nat
      /\ \A i \in 1..Len(s) : u[i] = s[i]
      /\ \A i \in 1..Len(t) : u[Len(s) + i] = t[i]
  BY Concatenated
<1>2. /\ v \in Seq(S) /\ Len(v) = Len(t) + 1 /\ v[Len(t) + 1] = e
      /\ \A i \in 1..Len(t) : v[i] = t[i]
  BY Appended
<1> HIDE DEF u, v
<1>3. /\ s \o v \in Seq(S) /\ Len(s \o v) = n + 1
      /\ \A i \in 1..Len(s) : (s \o v)[i] = s[i]
      /\ \A i \in 1..(Len(t) + 1) : (s \o v)[Len(s) + i] = v[i]
  <2>1. /\ s \o v \in Seq(S) /\ Len(s \o v) = Len(s) + Len(v)
        /\ \A i \in 1..Len(s) : (s \o v)[i] = s[i]
        /\ \A i \in 1..Len(v) : (s \o v)[Len(s) + i] = v[i]
    <3>1. v \in Seq(S)
      BY <1>2
    <3> QED BY <3>1, Concatenated
  <2> QED BY <1>1, <1>2, <2>1
<1>4. /\ Append(u, e) \in Seq(S) /\ Len(Append(u, e)) = n + 1 /\ Append(u, e)[n + 1] = e
      /\ \A i \in 1..n : Append(u, e)[i] = u[i]
  BY <1>1, Appended
<1>5. ASSUME NEW i \in 1..(n + 1) PROVE (s \o v)[i] = Append(u, e)[i]
  <2>1. CASE i \in 1..Len(s)
    BY <1>1, <1>3, <1>4, <2>1
  <2>2. CASE i = n + 1
    <3>1. Len(t) + 1 \in 1..(Len(t) + 1) /\ Len(s) + (Len(t) + 1) = n + 1
      BY <1>1
    <3> QED BY <1>2, <1>3, <1>4, <2>2, <3>1
  <2>3. CASE ~(i \in 1..Len(s)) /\ i # n + 1
    <3>1. i - Len(s) \in 1..Len(t) /\ Len(s) + (i - Len(s)) = i /\ i \in 1..n
      BY <1>1, <2>3
    <3>2. i - Len(s) \in 1..(Len(t) + 1)
      BY <1>1, <3>1
    <3>3. u[i] = t[i - Len(s)] /\ (s \o v)[i] = v[i - Len(s)] /\ v[i - Len(s)] = t[i - Len(s)]
      BY <1>1, <1>2, <1>3, <3>1, <3>2
    <3> QED BY <1>4, <3>1, <3>3
  <2> QED BY <2>1, <2>2, <2>3
<1>6. s \o v = Append(u, e)
  <2> DEFINE x == s \o v
             y == Append(u, e)
  <2>1. x \in Seq(S) /\ y \in Seq(S) /\ Len(x) = n + 1 /\ Len(y) = n + 1
        /\ \A i \in 1..(n + 1) : x[i] = y[i]
    BY <1>3, <1>4, <1>5
  <2> HIDE DEF x, y, n
  <2>2. x = y
    BY <2>1
  <2> QED BY <2>2 DEF x, y
<1> QED BY <1>6 DEF u, v

\* The elements of a sequence.
LEMMA ElementsOf ==
  ASSUME NEW S, NEW s \in Seq(S)
  PROVE  s \in Seq(ToSet(s)) /\ ToSet(s) \subseteq S
         /\ \A x \in ToSet(s) : \E i \in 1..Len(s) : s[i] = x
BY DEF ToSet

\* Concatenating one element appends it.
LEMMA OneMore ==
  ASSUME NEW S, NEW s \in Seq(S), NEW x \in S
  PROVE  s \o <<x>> = Append(s, x)
<1> DEFINE e == <<>>
<1>1. e \in Seq(S) /\ Append(e, x) = <<x>> /\ s \o e = s
  OBVIOUS
<1> HIDE DEF e
<1>2. s \o Append(e, x) = Append(s \o e, x)
  BY <1>1, ConcatAppend
<1> QED BY <1>1, <1>2

\* What Append does, as a statement about all sequences and elements.
LEMMA AppendIs ==
  ASSUME NEW S
  PROVE  \A s \in Seq(S), x \in S :
           /\ Append(s, x) \in Seq(S) /\ Len(Append(s, x)) = Len(s) + 1
           /\ Append(s, x)[Len(s) + 1] = x
           /\ \A i \in 1..Len(s) : Append(s, x)[i] = s[i]
OBVIOUS

\* A finite set as a sequence: every member once.
LEMMA SetToSeqIs ==
  ASSUME NEW S, IsFiniteSet(S)
  PROVE  /\ SetToSeq(S) \in Seq(S) /\ ToSet(SetToSeq(S)) = S /\ IsInjective(SetToSeq(S))
         /\ Len(SetToSeq(S)) = Cardinality(S)
<1> DEFINE n == Cardinality(S)
           f == SetToSeq(S)
<1>1. n \in Nat /\ ExistsBijection(1..n, S)
  BY FS_CardinalityType
<1>2. \E g \in [1..n -> S] : IsInjective(g)
  BY <1>1 DEF ExistsBijection, Bijection, Injection
<1>3. f \in [1..n -> S] /\ IsInjective(f)
  BY <1>2 DEF SetToSeq
<1> HIDE DEF n, f
<1>4. IsFiniteSet(1..n) /\ Cardinality(1..n) = n
  BY <1>1, FS_Interval
<1>5. f \in Surjection(1..n, S)
  <2>1. f \in Injection(1..n, S)
    BY <1>3 DEF Injection
  <2> QED BY <1>4, <2>1, FS_Injection DEF n
<1>6. f \in Seq(S) /\ Len(f) = n /\ DOMAIN f = 1..n
  BY <1>1, <1>3
<1>7. ToSet(f) = S
  <2>1. \A x \in S : \E i \in 1..n : f[i] = x
    BY <1>5 DEF Surjection
  <2> QED BY <1>3, <1>6, <2>1 DEF ToSet
<1> QED BY <1>3, <1>6, <1>7 DEF f, n

\* A sequence without repetition is as long as the set of its elements is large.
LEMMA InjectiveLength ==
  ASSUME NEW S, NEW s \in Seq(S), IsInjective(s)
  PROVE  IsFiniteSet(ToSet(s)) /\ Cardinality(ToSet(s)) = Len(s)
<1> DEFINE n == Len(s)
<1>1. n \in Nat /\ DOMAIN s = 1..n /\ s \in [1..n -> ToSet(s)]
  BY DEF ToSet
<1>2. s \in Injection(1..n, ToSet(s)) /\ s \in Surjection(1..n, ToSet(s))
  BY <1>1 DEF Injection, Surjection, ToSet
<1>3. ExistsBijection(1..n, ToSet(s))
  BY <1>2 DEF ExistsBijection, Bijection
<1> HIDE DEF n
<1>4. Cardinality(ToSet(s)) = n
  BY <1>1, <1>3, FS_CountingElements
<1>5. IsFiniteSet(ToSet(s))
  BY <1>1, <1>3, FS_NatBijection
<1> QED BY <1>4, <1>5 DEF n

\* A finite set has subsets of every smaller size.
LEMMA SubsetOfSize ==
  ASSUME NEW S, IsFiniteSet(S), NEW k \in 0..Cardinality(S)
  PROVE  \E T \in SUBSET S : IsFiniteSet(T) /\ Cardinality(T) = k
<1> DEFINE n == Cardinality(S)
           U == {m \in 0..n : \E T \in SUBSET S : IsFiniteSet(T) /\ Cardinality(T) = m}
<1>1. n \in Nat
  BY FS_CardinalityType
<1>2. 0 \in U
  BY <1>1, FS_EmptySet
<1>3. ASSUME NEW m \in 0..(n - 1), m \in U PROVE m + 1 \in U
  <2>1. PICK T \in SUBSET S : IsFiniteSet(T) /\ Cardinality(T) = m
    BY <1>3
  <2>2. PICK x \in S : x \notin T
    <3>1. T # S
      BY <1>1, <2>1
    <3> QED BY <3>1
  <2>3. IsFiniteSet(T \cup {x}) /\ Cardinality(T \cup {x}) = m + 1
    BY <2>1, <2>2, FS_AddElement
  <2> QED BY <1>1, <2>3
<1> HIDE DEF U, n
<1>4. 0..n \subseteq U
  BY <1>1, <1>2, <1>3, NatUpTo
<1> QED BY <1>4 DEF U, n

\* Two sequences without repetition and without a common element in a row.
LEMMA JoinInjective ==
  ASSUME NEW S, NEW s \in Seq(S), NEW t \in Seq(S), IsInjective(s), IsInjective(t),
         ToSet(s) \cap ToSet(t) = {}
  PROVE  /\ s \o t \in Seq(S) /\ IsInjective(s \o t)
         /\ ToSet(s \o t) = ToSet(s) \cup ToSet(t)
<1> DEFINE u == s \o t
<1>1. /\ u \in Seq(S) /\ DOMAIN u = 1..(Len(s) + Len(t)) /\ Len(s) \in Nat /\ Len(t) \in Nat
      /\ \A i \in 1..Len(s) : u[i] = s[i]
      /\ \A i \in 1..Len(t) : u[Len(s) + i] = t[i]
  BY Concatenated
<1>2. DOMAIN s = 1..Len(s) /\ DOMAIN t = 1..Len(t)
  OBVIOUS
<1> HIDE DEF u
<1>3. ASSUME NEW i \in DOMAIN u
      PROVE  \/ i \in DOMAIN s /\ u[i] = s[i] /\ u[i] \in ToSet(s)
             \/ i - Len(s) \in DOMAIN t /\ u[i] = t[i - Len(s)] /\ u[i] \in ToSet(t)
  <2>1. CASE i \in 1..Len(s)
    BY <1>1, <1>2, <2>1 DEF ToSet
  <2>2. CASE i \notin 1..Len(s)
    <3>1. i - Len(s) \in 1..Len(t) /\ i = Len(s) + (i - Len(s))
      BY <1>1, <2>2
    <3> QED BY <1>1, <1>2, <3>1 DEF ToSet
  <2> QED BY <2>1, <2>2
<1>4. IsInjective(u)
  <2>1. SUFFICES ASSUME NEW i \in DOMAIN u, NEW j \in DOMAIN u, u[i] = u[j] PROVE i = j
    BY DEF IsInjective
  <2>2. CASE i \in DOMAIN s /\ u[i] = s[i] /\ u[i] \in ToSet(s)
    <3>1. j \in DOMAIN s /\ u[j] = s[j]
      BY <1>3, <2>1, <2>2
    <3> QED BY <2>1, <2>2, <3>1 DEF IsInjective
  <2>3. CASE i - Len(s) \in DOMAIN t /\ u[i] = t[i - Len(s)] /\ u[i] \in ToSet(t)
    <3>1. j - Len(s) \in DOMAIN t /\ u[j] = t[j - Len(s)]
      BY <1>3, <2>1, <2>3
    <3>2. i - Len(s) = j - Len(s)
      BY <2>1, <2>3, <3>1 DEF IsInjective
    <3>3. i \in Int /\ j \in Int
      BY <1>1
    <3> QED BY <1>1, <3>2, <3>3
  <2> QED BY <1>3, <2>2, <2>3
<1>5. ToSet(u) = ToSet(s) \cup ToSet(t)
  <2>1. ToSet(u) \subseteq ToSet(s) \cup ToSet(t)
    BY <1>3 DEF ToSet
  <2>2. \A i \in DOMAIN s : i \in DOMAIN u /\ u[i] = s[i]
    BY <1>1, <1>2
  <2>3. \A i \in DOMAIN t : Len(s) + i \in DOMAIN u /\ u[Len(s) + i] = t[i]
    BY <1>1, <1>2
  <2>4. ToSet(s) \subseteq ToSet(u)
    BY <2>2 DEF ToSet
  <2>5. ToSet(t) \subseteq ToSet(u)
    BY <2>3 DEF ToSet
  <2> QED BY <2>1, <2>4, <2>5
<1> QED BY <1>1, <1>4, <1>5 DEF u

\* Changing one place of a sequence brings in no element but the new one.
LEMMA ChangedPlace ==
  ASSUME NEW S, NEW s \in Seq(S), NEW x \in S
  PROVE  /\ \A i \in DOMAIN s : RemoveAt(s, i) \in Seq(S)
         /\ \A i \in 1..(Len(s) + 1) : InsertAt(s, i, x) \in Seq(S)
         /\ \A i \in DOMAIN s : ReplaceAt(s, i, x) \in Seq(S)
         /\ \A i \in 1..(Len(s) - 1) : [s EXCEPT ![i] = s[i + 1], ![i + 1] = s[i]] \in Seq(S)
<1>1. Len(s) \in Nat /\ DOMAIN s = 1..Len(s)
  OBVIOUS
<1>2. \A i, j \in Int : 1 <= i /\ j <= Len(s) => SubSeq(s, i, j) \in Seq(S)
  BY <1>1
<1>3. ASSUME NEW i \in DOMAIN s PROVE RemoveAt(s, i) \in Seq(S)
  <2>1. SubSeq(s, 1, i - 1) \in Seq(S) /\ SubSeq(s, i + 1, Len(s)) \in Seq(S)
    BY <1>1, <1>2
  <2> QED BY <2>1, Concatenated DEF RemoveAt
<1>4. ASSUME NEW i \in 1..(Len(s) + 1) PROVE InsertAt(s, i, x) \in Seq(S)
  <2>1. SubSeq(s, 1, i - 1) \in Seq(S) /\ SubSeq(s, i, Len(s)) \in Seq(S) /\ <<x>> \in Seq(S)
    BY <1>1, <1>2
  <2> QED BY <2>1, Concatenated DEF InsertAt
<1>5. ASSUME NEW i \in DOMAIN s PROVE ReplaceAt(s, i, x) \in Seq(S)
  BY <1>1 DEF ReplaceAt
<1>6. ASSUME NEW i \in 1..(Len(s) - 1)
      PROVE  [s EXCEPT ![i] = s[i + 1], ![i + 1] = s[i]] \in Seq(S)
  <2>1. s[i] \in S /\ s[i + 1] \in S
    BY <1>1
  <2> QED BY <1>1, <2>1
<1> QED BY <1>3, <1>4, <1>5, <1>6

\* What Reverse does, position by position.
LEMMA ReverseIs ==
  ASSUME NEW S, NEW s \in Seq(S)
  PROVE  /\ Reverse(s) \in Seq(S) /\ Len(Reverse(s)) = Len(s) /\ Len(s) \in Nat
         /\ \A i \in 1..Len(s) : Reverse(s)[i] = s[(Len(s) - i) + 1]
<1> DEFINE n == Len(s)
           r == [i \in 1..n |-> s[(n - i) + 1]]
<1>1. Reverse(s) = r
  BY DEF Reverse
<1>2. n \in Nat /\ \A i \in 1..n : s[i] \in S
  OBVIOUS
<1> HIDE DEF n
<1>3. r \in Seq(S) /\ Len(r) = n /\ \A i \in 1..n : r[i] = s[(n - i) + 1]
  <2>1. \A i \in 1..n : (n - i) + 1 \in 1..n
    BY <1>2
  <2>2. r \in [1..n -> S]
    BY <1>2, <2>1
  <2>3. r \in Seq(S) /\ Len(r) = n
    <3> HIDE DEF r
    <3> QED BY <1>2, <2>2
  <2> QED BY <2>3
<1> HIDE DEF r
<1> QED BY <1>1, <1>2, <1>3 DEF n

\* Reversed, what is put in front comes at the end.
LEMMA ReverseFront ==
  ASSUME NEW S, NEW s \in Seq(S), NEW x \in S
  PROVE  /\ <<x>> \o s \in Seq(S)
         /\ Reverse(<<x>> \o s) = Append(Reverse(s), x)
<1> DEFINE t == <<x>> \o s
           n == Len(s)
           u == Reverse(t)
           v == Append(Reverse(s), x)
<1>1. <<x>> \in Seq(S) /\ Len(<<x>>) = 1 /\ <<x>>[1] = x
  OBVIOUS
<1>2. /\ t \in Seq(S) /\ Len(t) = n + 1 /\ n \in Nat /\ t[1] = x
      /\ \A i \in 1..n : t[1 + i] = s[i]
  <2>1. /\ t \in Seq(S) /\ Len(t) = 1 + Len(s) /\ Len(s) \in Nat
        /\ \A i \in 1..1 : t[i] = <<x>>[i]
        /\ \A i \in 1..Len(s) : t[1 + i] = s[i]
    <3> HIDE DEF t
    <3> QED BY <1>1, Concatenated DEF t
  <2> HIDE DEF t
  <2> QED BY <1>1, <2>1
<1> HIDE DEF t
<1>3. /\ u \in Seq(S) /\ Len(u) = n + 1
      /\ \A i \in 1..(n + 1) : u[i] = t[((n + 1) - i) + 1]
  BY <1>2, ReverseIs
<1>4. /\ Reverse(s) \in Seq(S) /\ Len(Reverse(s)) = n
      /\ \A i \in 1..n : Reverse(s)[i] = s[(n - i) + 1]
  BY ReverseIs
<1>5. /\ v \in Seq(S) /\ Len(v) = n + 1 /\ v[n + 1] = x
      /\ \A i \in 1..n : v[i] = Reverse(s)[i]
  BY <1>4, AppendIs
<1> HIDE DEF n, u, v
<1>6. ASSUME NEW i \in 1..(n + 1) PROVE u[i] = v[i]
  <2>1. CASE i = n + 1
    BY <1>2, <1>3, <1>5, <2>1
  <2>2. CASE i # n + 1
    <3> DEFINE k == (n - i) + 1
    <3>1. i \in 1..n /\ k \in 1..n /\ ((n + 1) - i) + 1 = 1 + k
      BY <1>2, <2>2
    <3> HIDE DEF k
    <3>2. u[i] = t[1 + k] /\ t[1 + k] = s[k]
      BY <1>2, <1>3, <3>1
    <3>3. v[i] = s[k]
      BY <1>4, <1>5, <3>1 DEF k
    <3> QED BY <3>2, <3>3
  <2> QED BY <2>1, <2>2
<1>7. u = v
  BY <1>3, <1>5, <1>6, SameSequence
<1> QED BY <1>2, <1>7 DEF t, u, v

\* Sequences without or with one element are their own reverse.
LEMMA ReverseShort == Reverse(<<>>) = <<>> /\ \A x : Reverse(<<x>>) = <<x>>
<1>1. Reverse(<<>>) = <<>>
  <2>1. <<>> \in Seq({}) /\ Len(<<>>) = 0
    OBVIOUS
  <2>2. Reverse(<<>>) \in Seq({}) /\ Len(Reverse(<<>>)) = 0
    BY <2>1, ReverseIs
  <2> QED BY <2>2
<1>2. ASSUME NEW x PROVE Reverse(<<x>>) = <<x>>
  <2>1. PICK w \in Seq({x}) : w = <<x>> /\ Len(w) = 1
    <3>1. <<x>> \in Seq({x}) /\ Len(<<x>>) = 1
      OBVIOUS
    <3> QED BY <3>1
  <2>2. /\ Reverse(w) \in Seq({x}) /\ Len(Reverse(w)) = 1
        /\ \A i \in 1..1 : Reverse(w)[i] = w[(1 - i) + 1]
    BY <2>1, ReverseIs
  <2>3. \A i \in 1..1 : Reverse(w)[i] = w[i]
    BY <2>2
  <2>4. Reverse(w) = w
    BY <2>1, <2>2, <2>3, SameSequence
  <2> QED BY <2>1, <2>4
<1> QED BY <1>1, <1>2
=============================================================================
