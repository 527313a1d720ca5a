--------------------------- MODULE CanonicalProofs ---------------------------
(***************************************************************************)
(* Proofs about Canonical, for texts of any length, strings of any length, *)
(* and any depth limit.                                                    *)
(***************************************************************************)
EXTENDS Canonical, SequenceLemmas

----------------------------------------------------------------------------
(* Functions of values, level by level. *)

\* v with its members in canonical order and without -0, when c has its items so.
CanonOver(c, v) ==
  LET place == IF v.kind = "object" THEN Sorted(v.keys) ELSE [n \in DOMAIN v.items |-> n]
  IN [kind |-> v.kind, x |-> IF v.x = MinusZero THEN Zero ELSE v.x, str |-> v.str,
      keys |-> [n \in DOMAIN v.keys |-> v.keys[place[n]]],
      items |-> [n \in DOMAIN v.items |-> c[v.items[place[n]]]]]

Canon[d \in 0..Levels] == [v \in Values[d] |-> CanonOver(Canon[d - 1], v)]

\* All of them: what level d is, when y is the level below.
OneLevel(what, d, y) ==
  CASE what = "values" -> IF d = 0 THEN {} ELSE ValuesOver(y)
    [] what = "text" -> [v \in Values[d] |-> TextOver(y, v)]
    [] what = "accepted" -> [v \in Values[d] |-> AcceptedOver(y, Levels - d, v)]
    [] what = "meaning" -> [v \in Values[d] |-> MeaningOver(y, v)]
    [] what = "reversed" -> [v \in Values[d] |-> ReversedOver(y, v)]
    [] what = "canon" -> [v \in Values[d] |-> CanonOver(y, v)]

LevelFunction(f, what, m) == f = [d \in 0..m |-> OneLevel(what, d, f[d - 1])]

\* Such a function satisfies its equation ...
LEMMA LevelIs ==
  ASSUME NEW f, NEW what, NEW m \in Nat, LevelFunction(f, what, m)
  PROVE  \A d \in 0..m : f[d] = OneLevel(what, d, f[d - 1])
<1> DEFINE Here(d) == OneLevel(what, d, f[d - 1])
<1>1. f = [d \in 0..m |-> Here(d)]
  BY DEF LevelFunction
<1> HIDE DEF Here
<1>2. \A d \in 0..m : f[d] = Here(d)
  BY <1>1
<1> QED BY <1>2 DEF Here

\* ... and exists if level 0 depends on nothing.
LEMMA LevelsExist ==
  ASSUME NEW what, NEW m \in Nat, \A y, z : OneLevel(what, 0, y) = OneLevel(what, 0, z)
  PROVE  \E f : LevelFunction(f, what, m)
<1> DEFINE T == {k \in Nat : \E f : LevelFunction(f, what, k)}
<1>1. 0 \in T
  <2> DEFINE f == [d \in 0..0 |-> OneLevel(what, d, 0)]
  <2>1. \A d \in 0..0 : d = 0
    OBVIOUS
  <2>2. \A d \in 0..0 : OneLevel(what, d, 0) = OneLevel(what, d, f[d - 1])
    BY <2>1
  <2>3. f = [d \in 0..0 |-> OneLevel(what, d, f[d - 1])]
    BY <2>2
  <2> HIDE DEF f
  <2>4. LevelFunction(f, what, 0)
    BY <2>3 DEF LevelFunction
  <2> QED BY <2>4
<1>2. ASSUME NEW k \in 0..(m - 1), k \in T PROVE k + 1 \in T
  <2>1. PICK f : LevelFunction(f, what, k)
    BY <1>2
  <2>2. k \in Nat /\ \A d \in 0..k : f[d] = OneLevel(what, d, f[d - 1])
    BY <2>1, LevelIs
  <2> DEFINE g == [d \in 0..(k + 1) |-> IF d = k + 1 THEN OneLevel(what, d, f[k]) ELSE f[d]]
  <2>3. \A d \in 0..k : g[d] = f[d]
    BY <2>2
  <2>4. g[k + 1] = OneLevel(what, k + 1, f[k]) /\ g = [d \in 0..(k + 1) |-> g[d]]
    BY <2>2
  <2> HIDE DEF g
  <2>5. ASSUME NEW d \in 0..(k + 1) PROVE g[d] = OneLevel(what, d, g[d - 1])
    <3>1. CASE d = 0
      <4>1. 0 \in 0..k
        BY <2>2
      <4>2. g[0] = OneLevel(what, 0, f[0 - 1])
        BY <2>2, <2>3, <4>1
      <4> QED BY <3>1, <4>2
    <3>2. CASE d # 0 /\ d # k + 1
      <4>1. d \in 0..k /\ d - 1 \in 0..k
        BY <2>2, <3>2
      <4> QED BY <2>2, <2>3, <4>1
    <3>3. CASE d = k + 1
      <4>1. d - 1 = k /\ k \in 0..k
        BY <2>2, <3>3
      <4> QED BY <2>3, <2>4, <3>3, <4>1
    <3> QED BY <3>1, <3>2, <3>3
  <2>6. g = [d \in 0..(k + 1) |-> OneLevel(what, d, g[d - 1])]
    BY <2>4, <2>5
  <2>7. LevelFunction(g, what, k + 1)
    BY <2>6 DEF LevelFunction
  <2> QED BY <2>2, <2>7
<1> HIDE DEF T
<1>3. m \in T
  <2>1. 0..m \subseteq T
    BY <1>1, <1>2, NatUpTo
  <2> QED BY <2>1
<1> QED BY <1>3 DEF T

\* The depth limit is a number.
LEMMA LevelFacts ==
  /\ MaxDepth \in Nat /\ Levels \in Nat /\ Levels = MaxDepth + 2
  /\ \A d \in 0..Levels : d \in Nat /\ d <= Levels
  BY CanonicalAssumption DEF Levels

\* Values of d levels are those over values of one level less.
LEMMA ValuesAre ==
  /\ Values[0] = {}
  /\ \A d \in 1..Levels : d - 1 \in 0..Levels /\ Values[d] = ValuesOver(Values[d - 1])
<1> DEFINE P(f) == LevelFunction(f, "values", Levels)
<1>1. \A y, z : OneLevel("values", 0, y) = OneLevel("values", 0, z)
  BY DEF OneLevel
<1>2. \E f : P(f)
  BY <1>1, LevelsExist, LevelFacts
<1>3. P(CHOOSE f : P(f))
  <2> HIDE DEF P
  <2> QED BY <1>2
<1>4. Values = CHOOSE f : P(f)
  BY DEF Values, LevelFunction, OneLevel
<1>5. \A d \in 0..Levels : Values[d] = OneLevel("values", d, Values[d - 1])
  BY <1>3, <1>4, LevelIs, LevelFacts
<1>6. \A d \in 0..Levels : Values[d] = IF d = 0 THEN {} ELSE ValuesOver(Values[d - 1])
  BY <1>5 DEF OneLevel
<1> QED BY <1>6, LevelFacts

\* The text of a value, from those of its items.
LEMMA WrittenIs ==
  \A d \in 0..Levels : Written[d] = [v \in Values[d] |-> TextOver(Written[d - 1], v)]
<1> DEFINE P(f) == LevelFunction(f, "text", Levels)
<1>1. \A y, z : OneLevel("text", 0, y) = OneLevel("text", 0, z)
  BY ValuesAre DEF OneLevel
<1>2. \E f : P(f)
  BY <1>1, LevelsExist, LevelFacts
<1>3. P(CHOOSE f : P(f))
  <2> HIDE DEF P
  <2> QED BY <1>2
<1>4. Written = CHOOSE f : P(f)
  BY DEF Written, LevelFunction, OneLevel
<1>5. \A d \in 0..Levels : Written[d] = OneLevel("text", d, Written[d - 1])
  BY <1>3, <1>4, LevelIs, LevelFacts
<1> QED BY <1>5 DEF OneLevel

\* Likewise whether a value is accepted, ...
LEMMA AcceptedIs ==
  \A d \in 0..Levels : Accepted[d] = [v \in Values[d] |-> AcceptedOver(Accepted[d - 1], Levels - d, v)]
<1> DEFINE P(f) == LevelFunction(f, "accepted", Levels)
<1>1. \A y, z : OneLevel("accepted", 0, y) = OneLevel("accepted", 0, z)
  BY ValuesAre DEF OneLevel
<1>2. \E f : P(f)
  BY <1>1, LevelsExist, LevelFacts
<1>3. P(CHOOSE f : P(f))
  <2> HIDE DEF P
  <2> QED BY <1>2
<1>4. Accepted = CHOOSE f : P(f)
  BY DEF Accepted, LevelFunction, OneLevel
<1>5. \A d \in 0..Levels : Accepted[d] = OneLevel("accepted", d, Accepted[d - 1])
  BY <1>3, <1>4, LevelIs, LevelFacts
<1> QED BY <1>5 DEF OneLevel

\* ... what it means, ...
LEMMA MeaningsIs ==
  \A d \in 0..Levels : Meanings[d] = [v \in Values[d] |-> MeaningOver(Meanings[d - 1], v)]
<1> DEFINE P(f) == LevelFunction(f, "meaning", Levels)
<1>1. \A y, z : OneLevel("meaning", 0, y) = OneLevel("meaning", 0, z)
  BY ValuesAre DEF OneLevel
<1>2. \E f : P(f)
  BY <1>1, LevelsExist, LevelFacts
<1>3. P(CHOOSE f : P(f))
  <2> HIDE DEF P
  <2> QED BY <1>2
<1>4. Meanings = CHOOSE f : P(f)
  BY DEF Meanings, LevelFunction, OneLevel
<1>5. \A d \in 0..Levels : Meanings[d] = OneLevel("meaning", d, Meanings[d - 1])
  BY <1>3, <1>4, LevelIs, LevelFacts
<1> QED BY <1>5 DEF OneLevel

\* ... the value with its members in the opposite order ...
LEMMA ReversedIs ==
  \A d \in 0..Levels : Reversed[d] = [v \in Values[d] |-> ReversedOver(Reversed[d - 1], v)]
<1> DEFINE P(f) == LevelFunction(f, "reversed", Levels)
<1>1. \A y, z : OneLevel("reversed", 0, y) = OneLevel("reversed", 0, z)
  BY ValuesAre DEF OneLevel
<1>2. \E f : P(f)
  BY <1>1, LevelsExist, LevelFacts
<1>3. P(CHOOSE f : P(f))
  <2> HIDE DEF P
  <2> QED BY <1>2
<1>4. Reversed = CHOOSE f : P(f)
  BY DEF Reversed, LevelFunction, OneLevel
<1>5. \A d \in 0..Levels : Reversed[d] = OneLevel("reversed", d, Reversed[d - 1])
  BY <1>3, <1>4, LevelIs, LevelFacts
<1> QED BY <1>5 DEF OneLevel

\* ... and in canonical order.
LEMMA CanonIs ==
  \A d \in 0..Levels : Canon[d] = [v \in Values[d] |-> CanonOver(Canon[d - 1], v)]
<1> DEFINE P(f) == LevelFunction(f, "canon", Levels)
<1>1. \A y, z : OneLevel("canon", 0, y) = OneLevel("canon", 0, z)
  BY ValuesAre DEF OneLevel
<1>2. \E f : P(f)
  BY <1>1, LevelsExist, LevelFacts
<1>3. P(CHOOSE f : P(f))
  <2> HIDE DEF P
  <2> QED BY <1>2
<1>4. Canon = CHOOSE f : P(f)
  BY DEF Canon, LevelFunction, OneLevel
<1>5. \A d \in 0..Levels : Canon[d] = OneLevel("canon", d, Canon[d - 1])
  BY <1>3, <1>4, LevelIs, LevelFacts
<1> QED BY <1>5 DEF OneLevel

----------------------------------------------------------------------------
(* The order of keys. *)

\* A strict total order, as a set of pairs.
StrictOrder(R, S) ==
  /\ \A x \in S : <<x, x>> \notin R
  /\ \A x, y, z \in S : <<x, y>> \in R /\ <<y, z>> \in R => <<x, z>> \in R
  /\ \A x, y \in S : x = y \/ <<x, y>> \in R \/ <<y, x>> \in R

\* The places of a sequence.
LEMMA PlacesOf ==
  ASSUME NEW S, NEW s \in Seq(S)
  PROVE  Len(s) \in Nat /\ DOMAIN s = 1..Len(s) /\ \A i \in 1..Len(s) : s[i] \in S
  OBVIOUS

\* The beginnings of a sequence.
LEMMA Beginning ==
  ASSUME NEW S, NEW s \in Seq(S), NEW k \in 0..Len(s)
  PROVE  /\ SubSeq(s, 1, k) \in Seq(S) /\ Len(SubSeq(s, 1, k)) = k
         /\ \A i \in 1..k : SubSeq(s, 1, k)[i] = s[i]
         /\ k < Len(s) => /\ k + 1 \in 1..Len(s) /\ s[k + 1] \in S
                          /\ SubSeq(s, 1, k + 1) = Append(SubSeq(s, 1, k), s[k + 1])
         /\ SubSeq(s, 1, 0) = <<>> /\ SubSeq(s, 1, Len(s)) = s
<1>1. Len(s) \in Nat /\ DOMAIN s = 1..Len(s) /\ \A i \in 1..Len(s) : s[i] \in S
  BY PlacesOf
<1>2. ASSUME NEW n \in 0..Len(s)
      PROVE  /\ SubSeq(s, 1, n) \in Seq(S) /\ Len(SubSeq(s, 1, n)) = n
             /\ \A i \in 1..n : SubSeq(s, 1, n)[i] = s[i]
  <2>1. n \in Nat /\ 1 <= n + 1 /\ n <= Len(s)
    BY <1>1
  <2> QED BY <1>1, <2>1
<1>3. ASSUME k < Len(s) PROVE SubSeq(s, 1, k + 1) = Append(SubSeq(s, 1, k), s[k + 1])
  <2> DEFINE t == SubSeq(s, 1, k)
             u == SubSeq(s, 1, k + 1)
  <2>1. k + 1 \in 0..Len(s) /\ k + 1 \in 1..Len(s)
    BY <1>1, <1>3
  <2>2. t \in Seq(S) /\ Len(t) = k /\ \A i \in 1..k : t[i] = s[i]
    BY <1>2
  <2>3. u \in Seq(S) /\ Len(u) = k + 1 /\ \A i \in 1..(k + 1) : u[i] = s[i]
    BY <1>2, <2>1
  <2> HIDE DEF t, u
  <2>4. /\ Append(t, s[k + 1]) \in Seq(S) /\ Len(Append(t, s[k + 1])) = k + 1
        /\ Append(t, s[k + 1])[k + 1] = s[k + 1]
        /\ \A i \in 1..k : Append(t, s[k + 1])[i] = t[i]
    <3>1. s[k + 1] \in S
      BY <1>1, <2>1
    <3> DEFINE e == s[k + 1]
    <3> HIDE DEF e
    <3>2. /\ Append(t, e) \in Seq(S) /\ Len(Append(t, e)) = Len(t) + 1
          /\ Append(t, e)[Len(t) + 1] = e
          /\ \A i \in 1..Len(t) : Append(t, e)[i] = t[i]
      BY <2>2, <3>1, AppendIs DEF e
    <3> QED BY <2>2, <3>2 DEF e
  <2>5. \A i \in 1..(k + 1) : i = k + 1 \/ i \in 1..k
    BY <1>1
  <2>6. \A i \in 1..(k + 1) : u[i] = Append(t, s[k + 1])[i]
    BY <2>2, <2>3, <2>4, <2>5
  <2>7. u = Append(t, s[k + 1])
    BY <2>3, <2>4, <2>6, SameSequence
  <2> QED BY <2>7 DEF t, u
<1>4. SubSeq(s, 1, 0) = <<>>
  OBVIOUS
<1>5. SubSeq(s, 1, Len(s)) = s
  <2>1. Len(s) \in 0..Len(s)
    BY <1>1
  <2> QED BY <1>2, <2>1, SameSequence
<1>6. k < Len(s) => k + 1 \in 1..Len(s)
  BY <1>1
<1> QED BY <1>1, <1>2, <1>3, <1>4, <1>5, <1>6

\* Precedes, place by place.
LEMMA PrecedesIs ==
  ASSUME NEW N, NEW u \in Seq(N), NEW w \in Seq(N)
  PROVE  Precedes(u, w) <=>
           \E n \in 0 .. Len(w) - 1 :
             /\ n <= Len(u) /\ \A i \in 1..n : u[i] = w[i]
             /\ n < Len(u) => u[n + 1] < w[n + 1]
<1>1. ASSUME NEW n \in 0 .. Len(w) - 1, n <= Len(u)
      PROVE  SubSeq(u, 1, n) = SubSeq(w, 1, n) <=> \A i \in 1..n : u[i] = w[i]
  <2> DEFINE a == SubSeq(u, 1, n)
             b == SubSeq(w, 1, n)
  <2>0. Len(u) \in Nat /\ Len(w) \in Nat
    OBVIOUS
  <2>1. n \in 0..Len(u) /\ n \in 0..Len(w)
    BY <1>1, <2>0
  <2>2. a \in Seq(N) /\ Len(a) = n /\ \A i \in 1..n : a[i] = u[i]
    BY <2>1, Beginning
  <2>3. b \in Seq(N) /\ Len(b) = n /\ \A i \in 1..n : b[i] = w[i]
    BY <2>1, Beginning
  <2> HIDE DEF a, b
  <2>4. ASSUME \A i \in 1..n : u[i] = w[i] PROVE a = b
    <3>1. Len(a) = Len(b) /\ \A i \in 1..Len(a) : a[i] = b[i]
      BY <2>2, <2>3, <2>4
    <3> QED BY <2>2, <2>3, <3>1, SameSequence
  <2>5. ASSUME a = b, NEW i \in 1..n PROVE u[i] = w[i]
    BY <2>2, <2>3, <2>5
  <2>6. a = b <=> \A i \in 1..n : u[i] = w[i]
    BY <2>4, <2>5
  <2> QED BY <2>6 DEF a, b
<1> QED BY <1>1 DEF Precedes

\* Precedes is a strict total order.
LEMMA PrecedesOrders ==
  ASSUME NEW N, N \subseteq Nat
  PROVE  /\ \A u \in Seq(N) : ~Precedes(u, u)
         /\ \A u, w, z \in Seq(N) : Precedes(u, w) /\ Precedes(w, z) => Precedes(u, z)
         /\ \A u, w \in Seq(N) : u = w \/ Precedes(u, w) \/ Precedes(w, u)
<1>0. ASSUME NEW s \in Seq(N)
      PROVE  Len(s) \in Nat /\ \A i \in 1..Len(s) : s[i] \in Nat
  BY PlacesOf
<1>1. ASSUME NEW u \in Seq(N), Precedes(u, u) PROVE FALSE
  <2>1. PICK n \in 0 .. Len(u) - 1 : n < Len(u) => u[n + 1] < u[n + 1]
    BY <1>1, PrecedesIs
  <2>2. Len(u) \in Nat /\ \A i \in 1..Len(u) : u[i] \in Nat
    BY <1>0
  <2>3. n < Len(u) /\ n + 1 \in 1..Len(u)
    BY <2>2
  <2>4. u[n + 1] \in Nat
    BY <2>2, <2>3
  <2> QED BY <2>1, <2>3, <2>4
<1>2. ASSUME NEW u \in Seq(N), NEW w \in Seq(N), NEW z \in Seq(N),
             Precedes(u, w), Precedes(w, z)
      PROVE  Precedes(u, z)
  <2>1. PICK n \in 0 .. Len(w) - 1 :
          /\ n <= Len(u) /\ \A i \in 1..n : u[i] = w[i]
          /\ n < Len(u) => u[n + 1] < w[n + 1]
    BY <1>2, PrecedesIs
  <2>2. PICK m \in 0 .. Len(z) - 1 :
          /\ m <= Len(w) /\ \A i \in 1..m : w[i] = z[i]
          /\ m < Len(w) => w[m + 1] < z[m + 1]
    BY <1>2, PrecedesIs
  <2>0. /\ Len(u) \in Nat /\ Len(w) \in Nat /\ Len(z) \in Nat
        /\ \A i \in 1..Len(u) : u[i] \in Nat
        /\ \A i \in 1..Len(w) : w[i] \in Nat
        /\ \A i \in 1..Len(z) : z[i] \in Nat
    BY <1>0
  <2>3. /\ Len(u) \in Nat /\ Len(w) \in Nat /\ Len(z) \in Nat /\ n \in Nat /\ m \in Nat
        /\ n < Len(w) /\ m < Len(z) /\ n <= Len(u) /\ m <= Len(w)
    <3>1. n \in 0 .. Len(w) - 1 /\ n <= Len(u) /\ m \in 0 .. Len(z) - 1 /\ m <= Len(w)
      BY <2>1, <2>2
    <3>2. Len(u) \in Nat /\ Len(w) \in Nat /\ Len(z) \in Nat
      BY <2>0
    <3> QED BY <3>1, <3>2
  <2>4. CASE n <= m
    <3>1. \A i \in 1..n : u[i] = z[i]
      BY <2>1, <2>2, <2>3, <2>4
    <3>2. n \in 0 .. Len(z) - 1
      BY <2>3, <2>4
    <3>3. ASSUME n < Len(u) PROVE u[n + 1] < z[n + 1]
      <4>1. u[n + 1] < w[n + 1] /\ n + 1 \in 1..Len(u) /\ n + 1 \in 1..Len(w)
            /\ n + 1 \in 1..Len(z)
        BY <2>1, <2>3, <3>2, <3>3
      <4>2. CASE n = m
        <5>1. w[n + 1] < z[n + 1]
          BY <2>2, <2>3, <4>1, <4>2
        <5>2. u[n + 1] \in Nat /\ w[n + 1] \in Nat /\ z[n + 1] \in Nat
          BY <2>0, <4>1
        <5> QED BY <4>1, <5>1, <5>2
      <4>3. CASE n < m
        <5>1. w[n + 1] = z[n + 1]
          BY <2>2, <2>3, <4>3
        <5> QED BY <4>1, <5>1
      <4> QED BY <2>3, <2>4, <4>2, <4>3
    <3> QED BY <2>1, <3>1, <3>2, <3>3, PrecedesIs
  <2>5. CASE m < n
    <3>1. \A i \in 1..m : u[i] = z[i]
      BY <2>1, <2>2, <2>3, <2>5
    <3>2. m <= Len(u) /\ m < Len(w) /\ m + 1 \in 1..n
      <4>1. n \in Nat /\ m \in Nat /\ Len(u) \in Nat /\ Len(w) \in Nat
        BY <2>3
      <4>2. n <= Len(u) /\ n < Len(w) /\ m < n
        BY <2>3, <2>5
      <4> QED BY <4>1, <4>2
    <3>3. u[m + 1] = w[m + 1] /\ w[m + 1] < z[m + 1]
      BY <2>1, <2>2, <3>2
    <3> QED BY <3>1, <3>2, <3>3, PrecedesIs
  <2> QED BY <2>3, <2>4, <2>5
<1>3. ASSUME NEW u \in Seq(N), NEW w \in Seq(N), u # w
      PROVE  Precedes(u, w) \/ Precedes(w, u)
  <2> DEFINE T == {n \in Nat : n = Len(u) \/ n = Len(w) \/ u[n + 1] # w[n + 1]}
  <2>1. Len(u) \in Nat /\ Len(w) \in Nat
    OBVIOUS
  <2>2. Len(u) \in T /\ T \subseteq Nat
    BY <2>1
  <2> HIDE DEF T
  <2>3. PICK n \in T : \A m \in T : n <= m
    BY <2>2, NatLeast
  <2>4. n \in Nat /\ (n = Len(u) \/ n = Len(w) \/ u[n + 1] # w[n + 1])
    BY <2>2, <2>3 DEF T
  <2>5. n <= Len(u) /\ n <= Len(w)
    <3>1. Len(w) \in T
      BY <2>1 DEF T
    <3> QED BY <2>2, <2>3, <3>1
  <2>6. ASSUME NEW i \in 1..n PROVE u[i] = w[i]
    <3>1. i - 1 \in Nat /\ i - 1 < n /\ (i - 1) + 1 = i
      BY <2>4
    <3>2. i - 1 \notin T
      BY <2>3, <2>4, <3>1
    <3> QED BY <3>1, <3>2 DEF T
  <2>7. CASE n = Len(u) /\ n = Len(w)
    BY <1>3, <2>6, <2>7, SameSequence
  <2>8. CASE n = Len(u) /\ n < Len(w)
    <3>1. n \in 0 .. Len(w) - 1 /\ ~(n < Len(u))
      BY <2>1, <2>4, <2>8
    <3> QED BY <2>5, <2>6, <3>1, PrecedesIs
  <2>9. CASE n < Len(u) /\ n = Len(w)
    <3>1. n \in 0 .. Len(u) - 1 /\ ~(n < Len(w))
      BY <2>1, <2>4, <2>9
    <3> QED BY <2>5, <2>6, <3>1, PrecedesIs
  <2>10. CASE n < Len(u) /\ n < Len(w)
    <3>1. n \in 0 .. Len(u) - 1 /\ n \in 0 .. Len(w) - 1
      BY <2>1, <2>4, <2>10
    <3>2. u[n + 1] \in Nat /\ w[n + 1] \in Nat /\ u[n + 1] # w[n + 1]
      <4>1. n + 1 \in 1..Len(u) /\ n + 1 \in 1..Len(w)
        BY <2>1, <2>4, <2>10
      <4> QED BY <1>0, <2>4, <2>10, <4>1
    <3>3. CASE u[n + 1] < w[n + 1]
      BY <2>5, <2>6, <3>1, <3>3, PrecedesIs
    <3>4. CASE w[n + 1] < u[n + 1]
      BY <2>5, <2>6, <3>1, <3>4, PrecedesIs
    <3> QED BY <3>2, <3>3, <3>4
  <2> QED BY <2>1, <2>4, <2>5, <2>7, <2>8, <2>9, <2>10
<1> QED BY <1>1, <1>2, <1>3

\* s ascends.
Ascending(s, R) == \A i, j \in DOMAIN s : i < j => <<s[i], s[j]>> \in R

\* The places of s in ascending order.
Sorts(order, s, R) ==
  /\ order \in Surjection(DOMAIN s, DOMAIN s)
  /\ \A i, j \in DOMAIN s : i < j => <<s[order[i]], s[order[j]]>> \in R

\* A sequence without repetition can be sorted: the place of an element is the
\* number of elements that do not come after it.
LEMMA SortExists ==
  ASSUME NEW S, NEW R, StrictOrder(R, S), NEW s \in Seq(S), IsInjective(s)
  PROVE  \E order : Sorts(order, s, R)
<1> DEFINE D == DOMAIN s
           n == Len(s)
           Upto(i) == {j \in D : j = i \/ <<s[j], s[i]>> \in R}
           rank == [i \in D |-> Cardinality(Upto(i))]
<1>1. n \in Nat /\ D = 1..n /\ \A i \in D : s[i] \in S /\ i \in Int
  OBVIOUS
<1> HIDE DEF D, n
<1>2. IsFiniteSet(D) /\ Cardinality(D) = n
  <2>1. IsFiniteSet(1..n) /\ Cardinality(1..n) = n
    BY <1>1, FS_Interval
  <2> QED BY <1>1, <2>1
<1>3. ASSUME NEW i \in D
      PROVE  IsFiniteSet(Upto(i)) /\ i \in Upto(i) /\ Upto(i) \subseteq D /\ rank[i] \in D
  <2>1. i \in Upto(i) /\ Upto(i) \in SUBSET D /\ Upto(i) # {}
    OBVIOUS
  <2> HIDE DEF Upto
  <2>2. IsFiniteSet(Upto(i)) /\ Cardinality(Upto(i)) <= n
    BY <1>2, <2>1, FS_Subset
  <2>3. Cardinality(Upto(i)) \in Nat /\ Cardinality(Upto(i)) # 0
    BY <2>1, <2>2, FS_CardinalityType, FS_EmptySet
  <2>4. rank[i] = Cardinality(Upto(i))
    OBVIOUS
  <2> QED BY <1>1, <2>1, <2>2, <2>3, <2>4
<1>4. ASSUME NEW i \in D, NEW j \in D, <<s[i], s[j]>> \in R PROVE rank[i] < rank[j]
  <2>1. s[i] \in S /\ s[j] \in S
    BY <1>1
  <2>2. Upto(i) \subseteq Upto(j)
    <3>1. SUFFICES ASSUME NEW k \in D, k = i \/ <<s[k], s[i]>> \in R
                   PROVE  <<s[k], s[j]>> \in R
      OBVIOUS
    <3>2. s[k] \in S
      BY <1>1
    <3> QED BY <1>4, <2>1, <3>1, <3>2 DEF StrictOrder
  <2>3. j \notin Upto(i)
    <3>1. SUFFICES ASSUME j = i \/ <<s[j], s[i]>> \in R PROVE FALSE
      OBVIOUS
    <3>2. <<s[j], s[j]>> \in R
      BY <1>4, <2>1, <3>1 DEF StrictOrder
    <3> QED BY <2>1, <3>2 DEF StrictOrder
  <2>4. j \in Upto(j)
    OBVIOUS
  <2>5. rank[i] = Cardinality(Upto(i)) /\ rank[j] = Cardinality(Upto(j))
    OBVIOUS
  <2>6. IsFiniteSet(Upto(i)) /\ IsFiniteSet(Upto(j)) /\ rank[i] \in Int /\ rank[j] \in Int
    BY <1>1, <1>3
  <2> HIDE DEF Upto, rank
  <2>7. Upto(i) \in SUBSET Upto(j) /\ Upto(i) # Upto(j)
    BY <2>2, <2>3, <2>4
  <2>8. rank[i] <= rank[j] /\ rank[i] # rank[j]
    BY <2>5, <2>6, <2>7, FS_Subset
  <2> QED BY <2>6, <2>8
<1>5. \A i \in D : rank[i] \in D /\ rank[i] \in Int
  BY <1>1, <1>3
<1>6. rank \in [D -> D]
  <2>1. rank = [i \in D |-> rank[i]]
    OBVIOUS
  <2> HIDE DEF rank
  <2> QED BY <1>5, <2>1
<1> HIDE DEF rank
<1>7. ASSUME NEW i \in D, NEW j \in D, i # j
      PROVE  <<s[i], s[j]>> \in R \/ <<s[j], s[i]>> \in R
  <2>1. s[i] # s[j] /\ s[i] \in S /\ s[j] \in S
    BY <1>1, <1>7 DEF IsInjective, D
  <2> QED BY <2>1 DEF StrictOrder
<1>14. ASSUME NEW i \in D, NEW j \in D, rank[i] = rank[j] PROVE i = j
  <2>1. SUFFICES ASSUME i # j PROVE FALSE
    OBVIOUS
  <2>2. rank[i] < rank[j] \/ rank[j] < rank[i]
    BY <1>4, <1>7, <2>1
  <2> QED BY <1>5, <1>14, <2>2
<1>8. rank \in Surjection(D, D)
  <2>2. rank \in Injection(D, D)
    BY <1>6, <1>14 DEF Injection, IsInjective
  <2> QED BY <1>2, <2>2, FS_Injection
<1> DEFINE order == [r \in D |-> CHOOSE i \in D : rank[i] = r]
<1>9. \A r \in D : order[r] \in D /\ rank[order[r]] = r
  <2>1. \A r \in D : \E i \in D : rank[i] = r
    BY <1>8 DEF Surjection
  <2> QED BY <2>1
<1>10. order = [r \in D |-> order[r]]
  OBVIOUS
<1> HIDE DEF order
<1>11. order \in Surjection(D, D)
  <2>1. order \in [D -> D]
    BY <1>9, <1>10
  <2>2. ASSUME NEW i \in D PROVE \E r \in D : order[r] = i
    <3>1. rank[i] \in D /\ order[rank[i]] \in D /\ rank[order[rank[i]]] = rank[i]
      BY <1>5, <1>9
    <3>2. order[rank[i]] = i
      BY <1>14, <3>1
    <3> QED BY <3>1, <3>2
  <2> QED BY <2>1, <2>2 DEF Surjection
<1>12. ASSUME NEW i \in D, NEW j \in D, i < j PROVE <<s[order[i]], s[order[j]]>> \in R
  <2>1. order[i] \in D /\ order[j] \in D /\ rank[order[i]] = i /\ rank[order[j]] = j
        /\ i \in Int /\ j \in Int
    BY <1>1, <1>9
  <2>2. order[i] # order[j]
    BY <1>12, <2>1
  <2>3. ~(<<s[order[j]], s[order[i]]>> \in R)
    <3>1. SUFFICES ASSUME <<s[order[j]], s[order[i]]>> \in R PROVE FALSE
      OBVIOUS
    <3>2. rank[order[j]] < rank[order[i]]
      BY <1>4, <2>1, <3>1
    <3> QED BY <1>12, <2>1, <3>2
  <2> QED BY <1>7, <2>1, <2>2, <2>3
<1> QED BY <1>11, <1>12 DEF Sorts, D

\* Two ascending sequences of the same length and elements are the same.
LEMMA AscendingIsUnique ==
  ASSUME NEW S, NEW R, StrictOrder(R, S), NEW s \in Seq(S), NEW t \in Seq(S),
         Len(s) = Len(t), Ascending(s, R), Ascending(t, R), ToSet(s) = ToSet(t)
  PROVE  s = t
<1> DEFINE n == Len(s)
           T == {i \in 1..n : s[i] # t[i]}
<1>1. /\ n \in Nat /\ DOMAIN s = 1..n /\ DOMAIN t = 1..n /\ Len(t) = n
      /\ \A i \in 1..n : s[i] \in S /\ t[i] \in S /\ i \in Nat
  OBVIOUS
<1> HIDE DEF n
<1>2. \A x, y \in S : ~(<<x, y>> \in R /\ <<y, x>> \in R)
  BY DEF StrictOrder
<1>3. SUFFICES ASSUME T # {} PROVE FALSE
  <2>1. ASSUME T = {} PROVE s = t
    <3>1. \A i \in 1..n : s[i] = t[i]
      BY <2>1
    <3> QED BY <1>1, <3>1, SameSequence
  <2> QED BY <2>1
<1>4. T \subseteq Nat
  BY <1>1
<1> HIDE DEF T
<1>5. PICK i \in T : \A j \in T : i <= j
  BY <1>3, <1>4, NatLeast
<1>6. i \in 1..n /\ s[i] # t[i] /\ \A j \in 1..n : j < i => s[j] = t[j]
  <2>1. \A j \in 1..n : j < i => j \notin T
    BY <1>1, <1>4, <1>5
  <2> QED BY <1>5, <2>1 DEF T
<1>7. s[i] \in ToSet(t) /\ t[i] \in ToSet(s)
  BY <1>1, <1>6 DEF ToSet
<1>8. PICK j \in 1..n : t[j] = s[i]
  BY <1>1, <1>7 DEF ToSet
<1>9. PICK k \in 1..n : s[k] = t[i]
  BY <1>1, <1>7 DEF ToSet
<1>10. \A a, b \in 1..n : a < b => <<s[a], s[b]>> \in R /\ <<t[a], t[b]>> \in R
  BY <1>1 DEF Ascending
<1>11. i < j
  <2>1. j # i
    BY <1>6, <1>8
  <2>2. ~(j < i)
    <3>1. SUFFICES ASSUME j < i PROVE FALSE
      OBVIOUS
    <3>2. s[j] = s[i] /\ <<s[j], s[i]>> \in R
      BY <1>6, <1>8, <1>10, <3>1
    <3> QED BY <1>1, <1>2, <1>6, <3>2
  <2> QED BY <1>1, <1>6, <2>1, <2>2
<1>12. i < k
  <2>1. k # i
    BY <1>6, <1>9
  <2>2. ~(k < i)
    <3>1. SUFFICES ASSUME k < i PROVE FALSE
      OBVIOUS
    <3>2. t[k] = t[i] /\ <<t[k], t[i]>> \in R
      BY <1>6, <1>9, <1>10, <3>1
    <3> QED BY <1>1, <1>2, <1>6, <3>2
  <2> QED BY <1>1, <1>6, <2>1, <2>2
<1>13. <<t[i], s[i]>> \in R /\ <<s[i], t[i]>> \in R
  BY <1>6, <1>8, <1>9, <1>10, <1>11, <1>12
<1> QED BY <1>1, <1>2, <1>6, <1>13

----------------------------------------------------------------------------
(* Sequences in a row. *)

\* A sequence of sequences, made one, part by part.
LEMMA FlattenIs ==
  ASSUME NEW S, NEW seqs \in Seq(Seq(S))
  PROVE  \E f \in [0..Len(seqs) -> Seq(S)] :
           /\ f[0] = <<>> /\ f[Len(seqs)] = FlattenSeq(seqs)
           /\ \A i \in 1..Len(seqs) : f[i] = f[i - 1] \o seqs[i]
<1> DEFINE n == Len(seqs)
           F == [i \in 1..n |-> [w \in Seq(S) |-> w \o seqs[i]]]
           Flat(f) == f = [i \in 1..n |-> IF i = 1 THEN seqs[i] ELSE f[i - 1] \o seqs[i]]
<1>1. n \in Nat /\ \A i \in 1..n : seqs[i] \in Seq(S)
  OBVIOUS
<1>2. <<>> \in Seq(S) /\ \A w \in Seq(S) : <<>> \o w = w
  OBVIOUS
<1>3. PICK f : Recursive(f, n, Seq(S), <<>>, F)
  <2>1. F \in [1..n -> [Seq(S) -> Seq(S)]]
    <3>1. \A i \in 1..n, w \in Seq(S) : w \o seqs[i] \in Seq(S)
      BY <1>1, Concatenated
    <3> QED BY <3>1
  <2> HIDE DEF F, n
  <2>2. Recursion(n, Seq(S), <<>>, F)
    BY <1>1, <1>2, <2>1, RecursionExists
  <2> QED BY <2>2 DEF Recursion
<1>4. f \in [0..n -> Seq(S)] /\ f[0] = <<>> /\ \A i \in 1..n : f[i] = f[i - 1] \o seqs[i]
  <2>1. \A i \in 1..n : i - 1 \in 0..n
    BY <1>1
  <2>2. f \in [0..n -> Seq(S)] /\ f[0] = <<>> /\ \A i \in 1..n : f[i] = F[i][f[i - 1]]
    BY <1>3 DEF Recursive
  <2>3. \A i \in 1..n : F[i][f[i - 1]] = f[i - 1] \o seqs[i]
    BY <2>1, <2>2
  <2> QED BY <2>2, <2>3
<1>5. CASE n = 0
  <2>1. FlattenSeq(seqs) = seqs /\ seqs = <<>>
    BY <1>5 DEF FlattenSeq
  <2> QED BY <1>4, <1>5, <2>1
<1>6. CASE n # 0
  <2> DEFINE g == CHOOSE h : Flat(h)
  <2>1. FlattenSeq(seqs) = g[n]
    BY <1>6 DEF FlattenSeq
  <2>2. \E h : Flat(h)
    <3> DEFINE h == [i \in 1..n |-> f[i]]
    <3>1. ASSUME NEW i \in 1..n
          PROVE  h[i] = IF i = 1 THEN seqs[i] ELSE h[i - 1] \o seqs[i]
      <4>1. CASE i = 1
        <5>1. f[1] = f[1 - 1] \o seqs[1] /\ h[1] = f[1]
          BY <1>4, <4>1, Zenon
        <5>2. f[1] = <<>> \o seqs[1]
          <6>1. 1 - 1 = 0
            OBVIOUS
          <6> QED BY <1>4, <5>1, <6>1, Zenon
        <5>3. seqs[1] \in Seq(S)
          BY <1>1, <4>1
        <5> HIDE DEF h
        <5> QED BY <1>2, <4>1, <5>1, <5>2, <5>3, Zenon
      <4>2. CASE i # 1
        <5>1. i - 1 \in 1..n
          BY <1>1, <4>2
        <5> QED BY <1>4, <4>2, <5>1
      <4> QED BY <4>1, <4>2
    <3>2. Flat(h)
      BY <3>1
    <3> QED BY <3>2
  <2>3. Flat(g)
    <3> HIDE DEF Flat
    <3> QED BY <2>2
  <2> HIDE DEF g
  <2>4. \A i \in 1..n : g[i] = IF i = 1 THEN seqs[i] ELSE g[i - 1] \o seqs[i]
    BY <2>3
  <2> HIDE DEF n, F, Flat
  <2> DEFINE T == {i \in 0..n : i = 0 \/ g[i] = f[i]}
  <2>5. 0 \in T
    BY <1>1
  <2>6. ASSUME NEW k \in 0..(n - 1), k \in T PROVE k + 1 \in T
    <3>1. k + 1 \in 1..n /\ (k + 1) - 1 = k /\ k + 1 \in 0..n
      BY <1>1
    <3>2. f[k + 1] = f[k] \o seqs[k + 1]
      BY <1>4, <3>1
    <3>3. CASE k = 0
      <4>1. k + 1 = 1
        BY <3>3
      <4>2. g[k + 1] = seqs[k + 1]
        BY <2>4, <3>1, <4>1, Zenon
      <4>3. f[k + 1] = seqs[k + 1]
        BY <1>1, <1>2, <1>4, <3>1, <3>2, <3>3, Zenon
      <4> QED BY <3>1, <4>2, <4>3
    <3>4. CASE k # 0
      <4>1. g[k] = f[k]
        BY <2>6, <3>4
      <4>2. k + 1 # 1
        BY <1>1, <3>4
      <4>3. g[k + 1] = g[(k + 1) - 1] \o seqs[k + 1]
        BY <2>4, <3>1, <4>2, Zenon
      <4> QED BY <3>1, <3>2, <4>1, <4>3
    <3> QED BY <3>3, <3>4
  <2> HIDE DEF T
  <2>7. n \in T
    <3>1. 0..n \subseteq T
      BY <1>1, <2>5, <2>6, NatUpTo
    <3> QED BY <1>1, <3>1
  <2>8. g[n] = f[n]
    BY <1>6, <2>7 DEF T
  <2> QED BY <1>4, <2>1, <2>8 DEF n
<1> QED BY <1>5, <1>6

\* One more part comes at the end.
LEMMA FlattenAppend ==
  ASSUME NEW S, NEW seqs \in Seq(Seq(S)), NEW last \in Seq(S)
  PROVE  /\ FlattenSeq(seqs) \in Seq(S)
         /\ FlattenSeq(Append(seqs, last)) = FlattenSeq(seqs) \o last
<1> DEFINE n == Len(seqs)
           more == Append(seqs, last)
<1>0. n \in Nat
  OBVIOUS
<1>1. more \in Seq(Seq(S)) /\ Len(more) = n + 1 /\ more[n + 1] = last
      /\ \A i \in 1..n : more[i] = seqs[i]
  BY AppendIs
<1>2. PICK f \in [0..n -> Seq(S)] :
        /\ f[0] = <<>> /\ f[n] = FlattenSeq(seqs)
        /\ \A i \in 1..n : f[i] = f[i - 1] \o seqs[i]
  BY FlattenIs
<1> HIDE DEF n, more
<1>3. PICK g \in [0..(n + 1) -> Seq(S)] :
        /\ g[0] = <<>> /\ g[n + 1] = FlattenSeq(more)
        /\ \A i \in 1..(n + 1) : g[i] = g[i - 1] \o more[i]
  <2>1. \E g \in [0..Len(more) -> Seq(S)] :
          /\ g[0] = <<>> /\ g[Len(more)] = FlattenSeq(more)
          /\ \A i \in 1..Len(more) : g[i] = g[i - 1] \o more[i]
    BY <1>1, FlattenIs
  <2> QED BY <1>1, <2>1, Zenon
<1> DEFINE T == {i \in 0..n : g[i] = f[i]}
<1>4. 0 \in T
  BY <1>0, <1>2, <1>3
<1>5. ASSUME NEW k \in 0..(n - 1), k \in T PROVE k + 1 \in T
  <2>1. k + 1 \in 1..n /\ k + 1 \in 1..(n + 1) /\ k + 1 \in 0..n /\ (k + 1) - 1 = k
    BY <1>0
  <2>2. g[k + 1] = g[k] \o more[k + 1] /\ f[k + 1] = f[k] \o seqs[k + 1] /\ g[k] = f[k]
    BY <1>2, <1>3, <1>5, <2>1
  <2>3. more[k + 1] = seqs[k + 1]
    BY <1>1, <2>1
  <2> QED BY <2>1, <2>2, <2>3
<1> HIDE DEF T
<1>6. n \in T
  <2>1. 0..n \subseteq T
    BY <1>0, <1>4, <1>5, NatUpTo
  <2> QED BY <1>0, <2>1
<1>7. g[n] = FlattenSeq(seqs)
  BY <1>2, <1>6 DEF T
<1>8. g[n + 1] = g[n] \o last
  <2>1. n + 1 \in 1..(n + 1) /\ (n + 1) - 1 = n
    BY <1>0
  <2> QED BY <1>1, <1>3, <2>1
<1>9. f[n] \in Seq(S)
  BY <1>0, <1>2
<1> QED BY <1>2, <1>3, <1>7, <1>8, <1>9 DEF more

\* A sequence that is not empty ends in its last element.
LEMMA LastOf ==
  ASSUME NEW S, NEW s \in Seq(S), s # <<>>
  PROVE  /\ Front(s) \in Seq(S) /\ Last(s) \in S /\ s = Append(Front(s), Last(s))
         /\ Len(Front(s)) = Len(s) - 1 /\ Len(s) \in Nat /\ Len(s) # 0
         /\ \A i \in 1..(Len(s) - 1) : Front(s)[i] = s[i]
<1>1. Len(s) \in Nat /\ Len(s) # 0 /\ Last(s) \in S
  BY DEF Last
<1>2. /\ Front(s) \in Seq(S) /\ Len(Front(s)) = Len(s) - 1
      /\ \A i \in 1..(Len(s) - 1) : Front(s)[i] = s[i]
  <2> DEFINE m == Len(s) - 1
  <2>1. m \in Nat /\ 1 <= m + 1 /\ m <= Len(s)
    BY <1>1
  <2> HIDE DEF m
  <2>2. /\ SubSeq(s, 1, m) \in Seq(S) /\ Len(SubSeq(s, 1, m)) = m
        /\ \A i \in 1..m : SubSeq(s, 1, m)[i] = s[i]
    BY <1>1, <2>1
  <2> QED BY <2>2 DEF m, Front
<1> DEFINE t == Append(Front(s), Last(s))
<1>3. t \in Seq(S) /\ Len(t) = Len(s) /\ \A i \in 1..Len(s) : t[i] = s[i]
  <2>1. /\ t \in Seq(S) /\ Len(t) = (Len(s) - 1) + 1 /\ t[(Len(s) - 1) + 1] = Last(s)
        /\ \A i \in 1..(Len(s) - 1) : t[i] = Front(s)[i]
    BY <1>1, <1>2, AppendIs
  <2> HIDE DEF t
  <2>2. ASSUME NEW i \in 1..Len(s) PROVE t[i] = s[i]
    <3>1. CASE i = Len(s)
      BY <1>1, <2>1, <3>1 DEF Last
    <3>2. CASE i # Len(s)
      <4>1. i \in 1..(Len(s) - 1)
        BY <1>1, <3>2
      <4> QED BY <1>2, <2>1, <4>1
    <3> QED BY <3>1, <3>2
  <2> QED BY <1>1, <2>1, <2>2
<1> HIDE DEF t
<1>4. s = t
  BY <1>3, SameSequence
<1> QED BY <1>1, <1>2, <1>4 DEF t

\* What is in front of the same end is the same.
LEMMA ConcatCancel ==
  ASSUME NEW S, NEW u \in Seq(S), NEW w \in Seq(S), NEW x \in Seq(S), u \o x = w \o x
  PROVE  u = w
<1>1. /\ Len(u \o x) = Len(u) + Len(x) /\ Len(w \o x) = Len(w) + Len(x)
      /\ Len(u) \in Nat /\ Len(w) \in Nat /\ Len(x) \in Nat
      /\ \A i \in 1..Len(u) : (u \o x)[i] = u[i]
      /\ \A i \in 1..Len(w) : (w \o x)[i] = w[i]
  BY Concatenated
<1>2. Len(u) = Len(w) /\ \A i \in 1..Len(u) : u[i] = w[i]
  BY <1>1
<1> QED BY <1>2, SameSequence

----------------------------------------------------------------------------
(* Keys by their UTF-16 units. *)

Units(c) == IF c = Astral THEN <<High, Low>> ELSE <<c>>

\* Which characters there are.
LEMMA CharIs ==
  /\ \A c \in Char : c \in Nat /\ c # High /\ c # Low
  /\ Astral \in Char /\ High \in Nat /\ Low \in Nat /\ High # Low
  BY CanonicalAssumption DEF Control, Tab, Quote, Slash, Letter, High, Low, Bmp, Astral

LEMMA UnitsAre ==
  ASSUME NEW c \in Char
  PROVE  /\ Units(c) \in Seq(Nat) /\ Units(c) # <<>>
         /\ Last(Units(c)) = IF c = Astral THEN Low ELSE c
  BY CharIs DEF Units, Last

\* Utf16, character by character.
LEMMA Utf16Is ==
  /\ Utf16(<<>>) = <<>>
  /\ \A s \in Seq(Char) : Utf16(s) \in Seq(Nat)
  /\ \A s \in Seq(Char), c \in Char : Utf16(Append(s, c)) = Utf16(s) \o Units(c)
<1> DEFINE U(s) == [i \in DOMAIN s |-> Units(s[i])]
<1>1. \A s : Utf16(s) = FlattenSeq(U(s))
  BY DEF Utf16, Units
<1>2. ASSUME NEW s \in Seq(Char) PROVE U(s) \in Seq(Seq(Nat)) /\ Len(U(s)) = Len(s)
  <2>1. DOMAIN s = 1..Len(s) /\ Len(s) \in Nat /\ \A i \in DOMAIN s : s[i] \in Char
    OBVIOUS
  <2>2. \A i \in 1..Len(s) : Units(s[i]) \in Seq(Nat)
    BY <2>1, UnitsAre
  <2>3. U(s) \in [1..Len(s) -> Seq(Nat)]
    BY <2>1, <2>2
  <2> HIDE DEF U
  <2> QED BY <2>1, <2>3
<1>3. Utf16(<<>>) = <<>>
  <2>1. U(<<>>) = <<>>
    OBVIOUS
  <2>2. FlattenSeq(<<>>) = <<>>
    BY DEF FlattenSeq
  <2> QED BY <1>1, <2>1, <2>2
<1>4. ASSUME NEW s \in Seq(Char) PROVE Utf16(s) \in Seq(Nat)
  <2> HIDE DEF U
  <2>1. U(s) \in Seq(Seq(Nat)) /\ <<>> \in Seq(Nat)
    BY <1>2
  <2> QED BY <1>1, <2>1, FlattenAppend
<1>5. ASSUME NEW s \in Seq(Char), NEW c \in Char
      PROVE  Utf16(Append(s, c)) = Utf16(s) \o Units(c)
  <2> DEFINE t == Append(s, c)
             n == Len(s)
  <2>1. t \in Seq(Char) /\ Len(t) = n + 1 /\ t[n + 1] = c /\ n \in Nat
        /\ \A i \in 1..n : t[i] = s[i]
    BY AppendIs
  <2>2. Units(c) \in Seq(Nat)
    BY UnitsAre
  <2>3. U(s) \in Seq(Seq(Nat)) /\ Len(U(s)) = n /\ U(t) \in Seq(Seq(Nat)) /\ Len(U(t)) = n + 1
    <3> HIDE DEF U, t
    <3> QED BY <1>2, <2>1 DEF n
  <2>4. /\ DOMAIN s = 1..n /\ DOMAIN t = 1..(n + 1)
    BY <2>1
  <2> HIDE DEF t, n
  <2>5. /\ \A i \in 1..n : U(s)[i] = Units(s[i])
        /\ \A i \in 1..(n + 1) : U(t)[i] = Units(t[i])
    BY <2>4
  <2> HIDE DEF U
  <2>6. /\ Append(U(s), Units(c)) \in Seq(Seq(Nat)) /\ Len(Append(U(s), Units(c))) = n + 1
        /\ Append(U(s), Units(c))[n + 1] = Units(c)
        /\ \A i \in 1..n : Append(U(s), Units(c))[i] = U(s)[i]
    BY <2>2, <2>3, AppendIs
  <2>7. \A i \in 1..(n + 1) : U(t)[i] = Append(U(s), Units(c))[i]
    <3>1. \A i \in 1..(n + 1) : i = n + 1 \/ i \in 1..n
      BY <2>1
    <3> QED BY <2>1, <2>5, <2>6, <3>1
  <2>8. U(t) = Append(U(s), Units(c))
    BY <2>3, <2>6, <2>7, SameSequence
  <2>9. FlattenSeq(U(t)) = FlattenSeq(U(s)) \o Units(c)
    BY <2>2, <2>3, <2>8, FlattenAppend
  <2> QED BY <1>1, <2>9 DEF t
<1> QED BY <1>3, <1>4, <1>5

\* Different keys have different units.
LEMMA Utf16Injective ==
  ASSUME NEW s \in Seq(Char), NEW t \in Seq(Char), Utf16(s) = Utf16(t)
  PROVE  s = t
<1> DEFINE T == {n \in Nat : \A u, w \in Seq(Char) :
                                Len(u) = n /\ Utf16(u) = Utf16(w) => u = w}
<1>1. ASSUME NEW u \in Seq(Char), u # <<>>
      PROVE  /\ Utf16(u) = Utf16(Front(u)) \o Units(Last(u)) /\ Utf16(u) # <<>>
             /\ Last(Utf16(u)) = IF Last(u) = Astral THEN Low ELSE Last(u)
             /\ Utf16(Front(u)) \in Seq(Nat) /\ Units(Last(u)) \in Seq(Nat)
  <2>1. Front(u) \in Seq(Char) /\ Last(u) \in Char /\ u = Append(Front(u), Last(u))
    BY <1>1, LastOf
  <2> DEFINE x == Utf16(Front(u))
             y == Units(Last(u))
  <2>2. x \in Seq(Nat) /\ y \in Seq(Nat) /\ y # <<>> /\ Utf16(u) = x \o y
        /\ Last(y) = IF Last(u) = Astral THEN Low ELSE Last(u)
    <3>1. Utf16(Append(Front(u), Last(u))) = x \o y
      BY <2>1, Utf16Is
    <3> HIDE DEF x, y
    <3>2. Utf16(u) = x \o y
      BY <2>1, <3>1
    <3> QED BY <2>1, <3>2, Utf16Is, UnitsAre DEF x, y
  <2> HIDE DEF x, y
  <2>3. Len(x \o y) = Len(x) + Len(y) /\ Len(x) \in Nat /\ Len(y) \in Nat /\ Len(y) # 0
        /\ \A i \in 1..Len(y) : (x \o y)[Len(x) + i] = y[i]
    BY <2>2, Concatenated
  <2>4. (x \o y)[Len(x) + Len(y)] = y[Len(y)]
    BY <2>3
  <2> QED BY <2>2, <2>3, <2>4 DEF Last, x, y
<1>2. 0 \in T
  <2>1. SUFFICES ASSUME NEW u \in Seq(Char), NEW w \in Seq(Char), Len(u) = 0,
                        Utf16(u) = Utf16(w)
                 PROVE  u = w
    OBVIOUS
  <2>2. u = <<>>
    BY <2>1
  <2> QED BY <1>1, <2>1, <2>2, Utf16Is
<1>3. ASSUME NEW n \in Nat, n \in T PROVE n + 1 \in T
  <2>1. SUFFICES ASSUME NEW u \in Seq(Char), NEW w \in Seq(Char), Len(u) = n + 1,
                        Utf16(u) = Utf16(w)
                 PROVE  u = w
    OBVIOUS
  <2>2. u # <<>>
    BY <2>1
  <2>3. w # <<>>
    BY <1>1, <2>1, <2>2, Utf16Is
  <2>4. /\ Front(u) \in Seq(Char) /\ Last(u) \in Char /\ u = Append(Front(u), Last(u))
        /\ Front(w) \in Seq(Char) /\ Last(w) \in Char /\ w = Append(Front(w), Last(w))
        /\ Len(Front(u)) = n
    <3>1. /\ Front(u) \in Seq(Char) /\ Last(u) \in Char /\ u = Append(Front(u), Last(u))
          /\ Len(Front(u)) = Len(u) - 1
      BY <2>2, LastOf
    <3>2. /\ Front(w) \in Seq(Char) /\ Last(w) \in Char /\ w = Append(Front(w), Last(w))
      BY <2>3, LastOf
    <3>3. Len(u) - 1 = n
      BY <2>1
    <3> QED BY <3>1, <3>2, <3>3, Zenon
  <2>5. Last(u) = Last(w)
    <3>1. (IF Last(u) = Astral THEN Low ELSE Last(u)) = IF Last(w) = Astral THEN Low ELSE Last(w)
      BY <1>1, <2>1, <2>2, <2>3
    <3> QED BY <2>4, <3>1, CharIs
  <2>6. Utf16(Front(u)) = Utf16(Front(w))
    <3>1. /\ Utf16(u) = Utf16(Front(u)) \o Units(Last(u))
          /\ Utf16(Front(u)) \in Seq(Nat) /\ Units(Last(u)) \in Seq(Nat)
      BY <1>1, <2>2
    <3>2. Utf16(w) = Utf16(Front(w)) \o Units(Last(w)) /\ Utf16(Front(w)) \in Seq(Nat)
      BY <1>1, <2>3
    <3>3. Utf16(Front(u)) \o Units(Last(u)) = Utf16(Front(w)) \o Units(Last(u))
      BY <2>1, <2>5, <3>1, <3>2, Zenon
    <3> QED BY <3>1, <3>2, <3>3, ConcatCancel
  <2>7. Front(u) = Front(w)
    BY <1>3, <2>4, <2>6
  <2> QED BY <2>4, <2>5, <2>7
<1>4. T \subseteq Nat
  OBVIOUS
<1> HIDE DEF T
<1>5. Len(s) \in T
  <2>1. Len(s) \in Nat
    OBVIOUS
  <2>2. 0..Len(s) \subseteq T
    BY <1>2, <1>3, <1>4, <2>1, NatUpTo
  <2> QED BY <2>1, <2>2
<1> QED BY <1>5 DEF T

\* The order of keys.
Order == {p \in Seq(Char) \X Seq(Char) : Before(p[1], p[2])}

LEMMA OrderIs ==
  /\ \A k, l \in Seq(Char) : <<k, l>> \in Order <=> Precedes(Utf16(k), Utf16(l))
  /\ StrictOrder(Order, Seq(Char))
<1>1. \A k, l \in Seq(Char) : <<k, l>> \in Order <=> Precedes(Utf16(k), Utf16(l))
  BY DEF Order, Before
<1>2. \A k \in Seq(Char) : Utf16(k) \in Seq(Nat)
  BY Utf16Is
<1>3. \A k, l \in Seq(Char) : Utf16(k) = Utf16(l) => k = l
  BY Utf16Injective
<1> DEFINE U == Seq(Nat)
<1>4. /\ \A u \in U : ~Precedes(u, u)
      /\ \A u, w, z \in U : Precedes(u, w) /\ Precedes(w, z) => Precedes(u, z)
      /\ \A u, w \in U : u = w \/ Precedes(u, w) \/ Precedes(w, u)
  BY PrecedesOrders
<1>5. \A k \in Seq(Char) : Utf16(k) \in U
  BY <1>2
<1> HIDE DEF U
<1>6. \A x \in Seq(Char) : <<x, x>> \notin Order
  BY <1>1, <1>4, <1>5
<1>7. \A x, y, z \in Seq(Char) : <<x, y>> \in Order /\ <<y, z>> \in Order => <<x, z>> \in Order
  BY <1>1, <1>4, <1>5
<1>8. \A x, y \in Seq(Char) : x = y \/ <<x, y>> \in Order \/ <<y, x>> \in Order
  BY <1>1, <1>3, <1>4, <1>5
<1> QED BY <1>1, <1>6, <1>7, <1>8 DEF StrictOrder

\* The writer's order of keys.
LEMMA SortedIs ==
  ASSUME NEW keys \in Seq(Seq(Char)), IsInjective(keys)
  PROVE  Sorts(Sorted(keys), keys, Order)
<1>1. PICK order : Sorts(order, keys, Order)
  BY OrderIs, SortExists
<1> DEFINE P(o) == o \in Surjection(DOMAIN keys, DOMAIN keys)
                   /\ \A i, j \in DOMAIN keys : i < j => Before(keys[o[i]], keys[o[j]])
           D == DOMAIN keys
<1>2. \A i \in D : keys[i] \in Seq(Char)
  OBVIOUS
<1>3. \A o : P(o) <=> Sorts(o, keys, Order)
  <2>1. ASSUME NEW o \in Surjection(D, D), NEW i \in D, NEW j \in D
        PROVE  Before(keys[o[i]], keys[o[j]]) <=> <<keys[o[i]], keys[o[j]]>> \in Order
    <3>1. o[i] \in D /\ o[j] \in D
      BY <2>1 DEF Surjection
    <3>2. keys[o[i]] \in Seq(Char) /\ keys[o[j]] \in Seq(Char)
      BY <1>2, <3>1
    <3> QED BY <3>2, OrderIs DEF Before
  <2> QED BY <2>1 DEF Sorts
<1>4. Sorted(keys) = CHOOSE o \in Surjection(D, D) :
        \A i, j \in D : i < j => Before(keys[o[i]], keys[o[j]])
  BY DEF Sorted
<1>5. P(Sorted(keys))
  <2>1. P(order)
    BY <1>1, <1>3
  <2> QED BY <1>4, <2>1
<1> HIDE DEF P
<1> QED BY <1>3, <1>5

\* The keys in the writer's order: the same ones, ascending.
InOrder(keys) == [n \in DOMAIN keys |-> keys[Sorted(keys)[n]]]

LEMMA InOrderIs ==
  ASSUME NEW keys \in Seq(Seq(Char)), IsInjective(keys)
  PROVE  /\ InOrder(keys) \in Seq(Seq(Char)) /\ Len(InOrder(keys)) = Len(keys)
         /\ Ascending(InOrder(keys), Order) /\ ToSet(InOrder(keys)) = ToSet(keys)
         /\ IsInjective(InOrder(keys))
         /\ DOMAIN Sorted(keys) = 1..Len(keys) /\ Len(keys) \in Nat
         /\ \A n \in 1..Len(keys) : /\ Sorted(keys)[n] \in 1..Len(keys)
                                    /\ InOrder(keys)[n] = keys[Sorted(keys)[n]]
         /\ \A i \in 1..Len(keys) : \E n \in 1..Len(keys) : Sorted(keys)[n] = i
<1> DEFINE m == Len(keys)
           o == Sorted(keys)
           s == InOrder(keys)
<1>1. m \in Nat /\ DOMAIN keys = 1..m /\ \A i \in 1..m : keys[i] \in Seq(Char)
  OBVIOUS
<1>2. Sorts(o, keys, Order)
  BY SortedIs
<1>3. s = [n \in 1..m |-> keys[o[n]]]
  BY <1>1 DEF InOrder
<1> HIDE DEF m, o, s
<1>4. /\ o \in [1..m -> 1..m] /\ \A i \in 1..m : \E n \in 1..m : o[n] = i
      /\ \A i, j \in 1..m : i < j => <<keys[o[i]], keys[o[j]]>> \in Order
  BY <1>1, <1>2 DEF Sorts, Surjection
<1>5. \A n \in 1..m : o[n] \in 1..m /\ s[n] = keys[o[n]]
  BY <1>3, <1>4
<1>6. s \in [1..m -> Seq(Char)] /\ DOMAIN s = 1..m
  BY <1>1, <1>3, <1>5
<1>7. s \in Seq(Seq(Char)) /\ Len(s) = m
  BY <1>1, <1>6
<1>8. Ascending(s, Order)
  <2>1. \A i, j \in 1..m : i < j => <<s[i], s[j]>> \in Order
    BY <1>4, <1>5
  <2> QED BY <1>6, <2>1 DEF Ascending
<1>9. ToSet(s) = ToSet(keys)
  <2>1. \A n \in 1..m : s[n] \in ToSet(keys)
    BY <1>1, <1>5 DEF ToSet
  <2>2. ASSUME NEW i \in 1..m PROVE keys[i] \in ToSet(s)
    <3>1. PICK n \in 1..m : o[n] = i
      BY <1>4
    <3>2. s[n] = keys[i]
      BY <1>5, <3>1
    <3> QED BY <1>6, <3>2 DEF ToSet
  <2> QED BY <1>1, <1>6, <2>1, <2>2 DEF ToSet
<1>10. IsInjective(s)
  <2>1. SUFFICES ASSUME NEW a \in 1..m, NEW b \in 1..m, s[a] = s[b] PROVE a = b
    BY <1>6 DEF IsInjective
  <2>2. ~(a < b) /\ ~(b < a)
    <3>1. \A x \in 1..m : <<s[x], s[x]>> \notin Order
      BY <1>6, OrderIs DEF StrictOrder
    <3>2. (a < b => <<s[a], s[b]>> \in Order) /\ (b < a => <<s[b], s[a]>> \in Order)
      BY <1>6, <1>8 DEF Ascending
    <3> QED BY <2>1, <3>1, <3>2
  <2> QED BY <1>1, <2>2
<1>11. DOMAIN o = 1..m
  BY <1>4
<1> QED BY <1>1, <1>4, <1>5, <1>7, <1>8, <1>9, <1>10, <1>11 DEF m, o, s

\* Two sequences of the same keys have the same keys in order.
LEMMA InOrderSame ==
  ASSUME NEW k \in Seq(Seq(Char)), NEW l \in Seq(Seq(Char)), IsInjective(k), IsInjective(l),
         Len(k) = Len(l), ToSet(k) = ToSet(l)
  PROVE  InOrder(k) = InOrder(l)
<1> DEFINE s == InOrder(k)
           t == InOrder(l)
<1>1. /\ s \in Seq(Seq(Char)) /\ t \in Seq(Seq(Char)) /\ Len(s) = Len(t)
      /\ Ascending(s, Order) /\ Ascending(t, Order) /\ ToSet(s) = ToSet(t)
  BY InOrderIs
<1> HIDE DEF s, t
<1>2. s = t
  BY <1>1, OrderIs, AscendingIsUnique
<1> QED BY <1>2 DEF s, t

----------------------------------------------------------------------------
(* Values. *)

\* A value of d levels and its parts.
LEMMA ValueIs ==
  ASSUME NEW d \in 0..Levels, NEW v \in Values[d]
  PROVE  /\ d \in 1..Levels /\ d - 1 \in 0..Levels /\ Values[d] = ValuesOver(Values[d - 1])
         /\ v.kind \in {"null", "number", "string", "array", "object"}
         /\ v.x \in {0} \cup ToSet(Parsed) /\ v.str \in Seq(Char)
         /\ v.keys \in Seq(Seq(Char)) /\ v.items \in Seq(Values[d - 1])
         /\ v.kind = "number" <=> v.x # 0
         /\ v.kind # "string" => v.str = <<>>
         /\ v.kind \notin {"array", "object"} => v.items = <<>>
         /\ v.kind = "object" => IsInjective(v.keys) /\ Len(v.keys) = Len(v.items)
         /\ v.kind # "object" => v.keys = <<>>
         /\ v = [kind |-> v.kind, x |-> v.x, str |-> v.str, keys |-> v.keys, items |-> v.items]
         /\ Len(v.items) \in Nat /\ DOMAIN v.items = 1..Len(v.items)
         /\ \A i \in 1..Len(v.items) : v.items[i] \in Values[d - 1]
<1>1. d # 0 /\ d \in 1..Levels
  BY ValuesAre, LevelFacts
<1>2. d - 1 \in 0..Levels /\ Values[d] = ValuesOver(Values[d - 1])
  BY <1>1, ValuesAre
<1>3. v \in ValuesOver(Values[d - 1])
  BY <1>2
<1>4. v.items \in Seq(Values[d - 1])
  BY <1>3 DEF ValuesOver
<1>5. /\ Len(v.items) \in Nat /\ DOMAIN v.items = 1..Len(v.items)
      /\ \A i \in 1..Len(v.items) : v.items[i] \in Values[d - 1]
  BY <1>4
<1> QED BY <1>1, <1>2, <1>3, <1>5 DEF ValuesOver

\* ... whose members are written in the same order of keys.
LEMMA OrderedMembers ==
  ASSUME NEW k \in Seq(Seq(Char)), NEW l \in Seq(Seq(Char)), IsInjective(k), IsInjective(l),
         Len(k) = Len(l), ToSet(k) = ToSet(l)
  PROVE  /\ DOMAIN Sorted(k) = 1..Len(k) /\ DOMAIN Sorted(l) = 1..Len(k)
         /\ \A n \in 1..Len(k) : /\ Sorted(k)[n] \in 1..Len(k) /\ Sorted(l)[n] \in 1..Len(k)
                                 /\ k[Sorted(k)[n]] = l[Sorted(l)[n]]
<1>1. InOrder(k) = InOrder(l)
  BY InOrderSame
<1>2. /\ DOMAIN Sorted(k) = 1..Len(k)
      /\ \A n \in 1..Len(k) : Sorted(k)[n] \in 1..Len(k) /\ InOrder(k)[n] = k[Sorted(k)[n]]
  BY InOrderIs
<1>3. /\ DOMAIN Sorted(l) = 1..Len(l)
      /\ \A n \in 1..Len(l) : Sorted(l)[n] \in 1..Len(l) /\ InOrder(l)[n] = l[Sorted(l)[n]]
  BY InOrderIs
<1> QED BY <1>1, <1>2, <1>3

\* w has the members of v, and what is written of them is the same.
SameMembers(text, v, w) ==
  /\ \A i \in DOMAIN w.keys : \E j \in DOMAIN v.keys :
       w.keys[i] = v.keys[j] /\ text[w.items[i]] = text[v.items[j]]
  /\ \A j \in DOMAIN v.keys : v.keys[j] \in ToSet(w.keys)

SameItems(text, v, w) == \A n \in DOMAIN v.items : text[v.items[n]] = text[w.items[n]]

\* Two values are written alike that differ in the order of members at most, and in
\* parts that are written alike.
LEMMA SameText ==
  ASSUME NEW S, NEW text, NEW v \in ValuesOver(S), NEW w \in ValuesOver(S),
         v.kind = w.kind, Shortest(v.x) = Shortest(w.x), v.str = w.str,
         Len(v.items) = Len(w.items),
         IF v.kind = "object" THEN SameMembers(text, v, w) ELSE SameItems(text, v, w)
  PROVE  TextOver(text, v) = TextOver(text, w)
<1>1. v.kind \in {"null", "number", "string", "array", "object"}
  BY DEF ValuesOver
<1>2. CASE v.kind = "null"
  BY <1>2 DEF TextOver
<1>3. CASE v.kind = "number"
  BY <1>3 DEF TextOver
<1>4. CASE v.kind = "string"
  BY <1>4 DEF TextOver
<1>5. CASE v.kind = "array"
  <2>1. DOMAIN v.items = DOMAIN w.items
    <3>1. v.items \in Seq(S) /\ w.items \in Seq(S)
      BY DEF ValuesOver
    <3> QED BY <3>1, PlacesOf
  <2>2. [n \in DOMAIN v.items |-> text[v.items[n]]] = [n \in DOMAIN w.items |-> text[w.items[n]]]
    BY <1>5, <2>1 DEF SameItems
  <2>3. /\ TextOver(text, v) = <<Mark("array")>> \o Join([n \in DOMAIN v.items |-> text[v.items[n]]])
                               \o <<Mark("endarray")>>
        /\ TextOver(text, w) = <<Mark("array")>> \o Join([n \in DOMAIN w.items |-> text[w.items[n]]])
                               \o <<Mark("endarray")>>
    BY <1>5 DEF TextOver
  <2> QED BY <2>2, <2>3
<1>6. CASE v.kind = "object"
  <2> DEFINE k == v.keys
             l == w.keys
             o == Sorted(k)
             p == Sorted(l)
             V(i) == WriteStr(v.keys[i]) \o <<Mark("colon")>> \o text[v.items[i]]
             W(i) == WriteStr(w.keys[i]) \o <<Mark("colon")>> \o text[w.items[i]]
             m == Len(v.items)
  <2>1. /\ k \in Seq(Seq(Char)) /\ l \in Seq(Seq(Char)) /\ IsInjective(k) /\ IsInjective(l)
        /\ Len(k) = m /\ Len(l) = m
    BY <1>6 DEF ValuesOver
  <2> HIDE DEF m
  <2>2. m \in Nat /\ DOMAIN k = 1..m /\ DOMAIN l = 1..m
    <3>1. k \in Seq(Seq(Char)) /\ l \in Seq(Seq(Char)) /\ Len(k) = m /\ Len(l) = m
      BY <2>1
    <3> HIDE DEF k, l
    <3>2. Len(k) \in Nat /\ DOMAIN k = 1..Len(k) /\ DOMAIN l = 1..Len(l)
      BY <3>1, PlacesOf
    <3> QED BY <3>1, <3>2
  <2>3. /\ \A i \in 1..m : \E j \in 1..m : l[i] = k[j] /\ text[w.items[i]] = text[v.items[j]]
        /\ \A j \in 1..m : k[j] \in ToSet(l)
    BY <1>6, <2>2 DEF SameMembers
  <2>4. ToSet(k) = ToSet(l)
    <3> HIDE DEF k, l
    <3>1. \A i \in 1..m : l[i] \in ToSet(k)
      BY <2>2, <2>3 DEF ToSet
    <3>2. ToSet(k) \subseteq ToSet(l)
      BY <2>2, <2>3 DEF ToSet
    <3>3. ToSet(l) \subseteq ToSet(k)
      BY <2>2, <3>1 DEF ToSet
    <3> QED BY <3>2, <3>3
  <2>5. /\ DOMAIN o = 1..m /\ DOMAIN p = 1..m
        /\ \A n \in 1..m : o[n] \in 1..m /\ p[n] \in 1..m /\ k[o[n]] = l[p[n]]
    <3> HIDE DEF k, l
    <3>1. Len(k) = m /\ Len(k) = Len(l)
      BY <2>1
    <3>2. /\ DOMAIN Sorted(k) = 1..Len(k) /\ DOMAIN Sorted(l) = 1..Len(k)
          /\ \A n \in 1..Len(k) : /\ Sorted(k)[n] \in 1..Len(k) /\ Sorted(l)[n] \in 1..Len(k)
                                  /\ k[Sorted(k)[n]] = l[Sorted(l)[n]]
      BY <2>1, <2>4, <3>1, OrderedMembers
    <3> QED BY <3>1, <3>2
  <2>6. ASSUME NEW n \in 1..m PROVE V(o[n]) = W(p[n])
    <3>1. o[n] \in 1..m /\ p[n] \in 1..m /\ k[o[n]] = l[p[n]]
      BY <2>5
    <3>2. PICK j \in 1..m : l[p[n]] = k[j] /\ text[w.items[p[n]]] = text[v.items[j]]
      BY <2>3, <3>1, Zenon
    <3>3. j = o[n]
      <4> HIDE DEF k, l, o, p
      <4>1. k[j] = k[o[n]] /\ j \in DOMAIN k /\ o[n] \in DOMAIN k
        BY <2>2, <3>1, <3>2
      <4> QED BY <2>1, <4>1 DEF IsInjective
    <3> QED BY <3>1, <3>2, <3>3
  <2>7. /\ TextOver(text, v) = <<Mark("object")>> \o Join([n \in DOMAIN o |-> V(o[n])]) \o <<Mark("endobject")>>
        /\ TextOver(text, w) = <<Mark("object")>> \o Join([n \in DOMAIN p |-> W(p[n])]) \o <<Mark("endobject")>>
    BY <1>6 DEF TextOver
  <2> HIDE DEF V, W, o, p
  <2>8. [n \in DOMAIN o |-> V(o[n])] = [n \in DOMAIN p |-> W(p[n])]
    BY <2>5, <2>6
  <2> QED BY <2>7, <2>8
<1> QED BY <1>1, <1>2, <1>3, <1>4, <1>5, <1>6

\* A sequence given place by place.
LEMMA MadeOf ==
  ASSUME NEW S, NEW m \in Nat, NEW t, DOMAIN t = 1..m, t = [n \in 1..m |-> t[n]],
         \A n \in 1..m : t[n] \in S
  PROVE  t \in Seq(S) /\ Len(t) = m
<1>1. t \in [1..m -> S]
  OBVIOUS
<1> QED BY <1>1

\* What is written of values of one level.
LEMMA WrittenOver ==
  ASSUME NEW d \in 0..Levels, NEW v \in Values[d]
  PROVE  Written[d][v] = TextOver(Written[d - 1], v)
  BY WrittenIs

\* The members in the opposite order: a value of as many levels, and written alike.
ReversedAlike(d) ==
  \A v \in Values[d] : Reversed[d][v] \in Values[d] /\ Written[d][Reversed[d][v]] = Written[d][v]

LEMMA ReversedStep ==
  ASSUME NEW d \in 0..Levels, d # 0, ReversedAlike(d - 1)
  PROVE  ReversedAlike(d)
<1>1. SUFFICES ASSUME NEW v \in Values[d]
               PROVE  Reversed[d][v] \in Values[d] /\ Written[d][Reversed[d][v]] = Written[d][v]
  BY DEF ReversedAlike
<1> DEFINE S == Values[d - 1]
           f == Reversed[d - 1]
           text == Written[d - 1]
           items == v.items
           keys == v.keys
           m == Len(items)
           t == [i \in DOMAIN items |-> f[items[i]]]
           r == Reversed[d][v]
<1>2. /\ Values[d] = ValuesOver(S) /\ v \in ValuesOver(S) /\ items \in Seq(S) /\ m \in Nat
      /\ keys \in Seq(Seq(Char))
      /\ v.kind = "object" => IsInjective(keys) /\ Len(keys) = m
      /\ v = [kind |-> v.kind, x |-> v.x, str |-> v.str, keys |-> keys, items |-> items]
  BY ValueIs
<1>3. r = ReversedOver(f, v)
  BY <1>1, ReversedIs
<1>4. \A x \in S : f[x] \in S /\ text[f[x]] = text[x]
  BY DEF ReversedAlike
<1>5. \A w \in Values[d] : Written[d][w] = TextOver(text, w)
  BY WrittenOver
<1> HIDE DEF S, f, text
<1>10. m \in Nat /\ DOMAIN items = 1..m /\ \A n \in 1..m : items[n] \in S
  BY <1>2, PlacesOf
<1>7. \A n \in 1..m : items[n] \in S
  BY <1>10
<1>6. t \in Seq(S) /\ Len(t) = m /\ DOMAIN items = 1..m /\ \A n \in 1..m : t[n] = f[items[n]]
  <2> HIDE DEF items, m
  <2>1. DOMAIN t = 1..m /\ t = [n \in 1..m |-> t[n]] /\ \A n \in 1..m : t[n] = f[items[n]]
    BY <1>10
  <2>2. \A n \in 1..m : t[n] \in S
    BY <1>4, <1>7, <2>1
  <2> HIDE DEF t
  <2>3. t \in Seq(S) /\ Len(t) = m
    BY <1>10, <2>1, <2>2, MadeOf
  <2> QED BY <1>10, <2>1, <2>3
<1> HIDE DEF t, r
<1>8. CASE v.kind # "object"
  <2>1. r = [v EXCEPT !.items = t]
    BY <1>3, <1>8 DEF ReversedOver, t
  <2>2. r = [kind |-> v.kind, x |-> v.x, str |-> v.str, keys |-> keys, items |-> t]
    BY <1>2, <2>1
  <2>3. r.kind = v.kind /\ r.x = v.x /\ r.str = v.str /\ r.keys = keys /\ r.items = t
    BY <2>2
  <2>4. items = <<>> => t = <<>>
    BY <1>6
  <2>5. r \in ValuesOver(S)
    BY <1>2, <1>6, <1>8, <2>2, <2>3, <2>4 DEF ValuesOver
  <2>6. SameItems(text, v, r)
    BY <1>4, <1>6, <1>7, <2>3 DEF SameItems
  <2>7. TextOver(text, v) = TextOver(text, r)
    <3>1. /\ v.kind = r.kind /\ Shortest(v.x) = Shortest(r.x) /\ v.str = r.str
          /\ Len(v.items) = Len(r.items)
      BY <1>6, <2>3
    <3>2. IF v.kind = "object" THEN SameMembers(text, v, r) ELSE SameItems(text, v, r)
      BY <1>8, <2>6
    <3> QED BY <1>2, <2>5, <3>1, <3>2, SameText
  <2> QED BY <1>2, <1>5, <2>5, <2>7 DEF r
<1>9. CASE v.kind = "object"
  <2> DEFINE k == Reverse(keys)
             u == Reverse(t)
  <2>1. r = [v EXCEPT !.keys = k, !.items = u]
    BY <1>3, <1>9 DEF ReversedOver, t
  <2>2. r = [kind |-> v.kind, x |-> v.x, str |-> v.str, keys |-> k, items |-> u]
    BY <1>2, <2>1
  <2>3. r.kind = v.kind /\ r.x = v.x /\ r.str = v.str /\ r.keys = k /\ r.items = u
    BY <2>2
  <2>4. /\ k \in Seq(Seq(Char)) /\ Len(k) = m /\ \A i \in 1..m : k[i] = keys[(m - i) + 1]
        /\ Len(keys) = m /\ IsInjective(keys)
    <3>1. keys \in Seq(Seq(Char)) /\ Len(keys) = m /\ IsInjective(keys)
      BY <1>2, <1>9
    <3> HIDE DEF keys, m
    <3> QED BY <3>1, ReverseIs
  <2>5. u \in Seq(S) /\ Len(u) = m /\ \A i \in 1..m : u[i] = t[(m - i) + 1]
    <3> HIDE DEF m
    <3> QED BY <1>6, ReverseIs
  <2>6. DOMAIN k = 1..m /\ DOMAIN keys = 1..m
    <3> HIDE DEF keys, k, m
    <3> QED BY <1>2, <2>4, PlacesOf
  <2> HIDE DEF k, u, m
  <2>7. \A i \in 1..m : (m - i) + 1 \in 1..m /\ (m - ((m - i) + 1)) + 1 = i
    BY <1>10
  <2>8. IsInjective(k)
    <3>1. SUFFICES ASSUME NEW a \in 1..m, NEW b \in 1..m, k[a] = k[b] PROVE a = b
      BY <2>6 DEF IsInjective
    <3>2. (m - a) + 1 = (m - b) + 1
      <4>1. (m - a) + 1 \in 1..m /\ (m - b) + 1 \in 1..m
        BY <2>7
      <4>2. keys[(m - a) + 1] = keys[(m - b) + 1]
        BY <2>4, <3>1
      <4> QED BY <2>4, <2>6, <4>1, <4>2 DEF IsInjective
    <3> QED BY <1>10, <3>2
  <2>9. r \in ValuesOver(S)
    <3>1. v.str = <<>> /\ v.x = 0 /\ v.x \in {0} \cup ToSet(Parsed) /\ v.str \in Seq(Char)
      BY <1>2, <1>9 DEF ValuesOver
    <3> HIDE DEF keys, items
    <3> QED BY <1>2, <1>9, <2>2, <2>3, <2>4, <2>5, <2>8, <3>1 DEF ValuesOver
  <2>10. SameMembers(text, v, r)
    <3>1. ASSUME NEW i \in 1..m
          PROVE  \E j \in 1..m : k[i] = keys[j] /\ text[u[i]] = text[items[j]]
      <4> DEFINE j == (m - i) + 1
      <4>1. j \in 1..m /\ k[i] = keys[j] /\ u[i] = t[j]
        BY <2>4, <2>5, <2>7
      <4> HIDE DEF j
      <4>2. text[t[j]] = text[items[j]]
        BY <1>4, <1>6, <1>7, <4>1
      <4> QED BY <4>1, <4>2
    <3>2. ASSUME NEW j \in 1..m PROVE keys[j] \in ToSet(k)
      <4>1. (m - j) + 1 \in 1..m /\ k[(m - j) + 1] = keys[j]
        BY <2>4, <2>7
      <4> QED BY <2>6, <4>1 DEF ToSet
    <3>3. DOMAIN r.keys = 1..m /\ DOMAIN v.keys = 1..m
      BY <2>3, <2>6
    <3>4. ASSUME NEW i \in 1..m
          PROVE  \E j \in 1..m : r.keys[i] = v.keys[j] /\ text[r.items[i]] = text[v.items[j]]
      BY <2>3, <3>1
    <3>5. ASSUME NEW j \in 1..m PROVE v.keys[j] \in ToSet(r.keys)
      BY <2>3, <3>2
    <3> QED BY <3>3, <3>4, <3>5 DEF SameMembers
  <2>11. TextOver(text, v) = TextOver(text, r)
    <3>1. /\ v.kind = r.kind /\ Shortest(v.x) = Shortest(r.x) /\ v.str = r.str
          /\ Len(v.items) = Len(r.items)
      BY <2>3, <2>5 DEF m
    <3>2. IF v.kind = "object" THEN SameMembers(text, v, r) ELSE SameItems(text, v, r)
      BY <1>9, <2>10
    <3> QED BY <1>2, <2>9, <3>1, <3>2, SameText
  <2> QED BY <1>2, <1>5, <2>9, <2>11 DEF r
<1> QED BY <1>8, <1>9

\* Whatever the order of its members, a value is written alike.
LEMMA ReversedValues == \A d \in 0..Levels : ReversedAlike(d)
<1> DEFINE T == {d \in 0..Levels : ReversedAlike(d)}
<1>1. 0 \in T
  BY ValuesAre, LevelFacts DEF ReversedAlike
<1>2. ASSUME NEW d \in 0..(Levels - 1), d \in T PROVE d + 1 \in T
  <2>1. d + 1 \in 0..Levels /\ d + 1 # 0 /\ (d + 1) - 1 = d
    BY LevelFacts
  <2>2. ReversedAlike((d + 1) - 1)
    BY <1>2, <2>1
  <2> QED BY <2>1, <2>2, ReversedStep
<1> HIDE DEF T
<1>3. 0..Levels \subseteq T
  BY <1>1, <1>2, LevelFacts, NatUpTo
<1> QED BY <1>3 DEF T

\* The canonical order of the members: a value of as many levels, written alike and
\* of the same meaning.
CanonAlike(d) ==
  \A v \in Values[d] : /\ Canon[d][v] \in Values[d]
                       /\ Written[d][Canon[d][v]] = Written[d][v]
                       /\ Meanings[d][Canon[d][v]] = Meanings[d][v]

\* Its parts.
LEMMA CanonParts ==
  ASSUME NEW d \in 0..Levels, NEW v \in Values[d]
  PROVE  LET c == Canon[d][v]
             m == Len(v.items)
             o == Sorted(v.keys)
         IN /\ c = [kind |-> v.kind, x |-> IF v.x = MinusZero THEN Zero ELSE v.x,
                    str |-> v.str, keys |-> c.keys, items |-> c.items]
            /\ c.kind = v.kind /\ c.str = v.str
            /\ c.x = (IF v.x = MinusZero THEN Zero ELSE v.x)
            /\ m \in Nat /\ DOMAIN c.items = 1..m
            /\ c.items = [n \in 1..m |-> c.items[n]]
            /\ v.kind = "object" => /\ c.keys = InOrder(v.keys)
                               /\ \A n \in 1..m : c.items[n] = Canon[d - 1][v.items[o[n]]]
            /\ v.kind # "object" => /\ c.keys = <<>>
                               /\ \A n \in 1..m : c.items[n] = Canon[d - 1][v.items[n]]
<1> DEFINE c == Canon[d][v]
           m == Len(v.items)
           place == IF v.kind = "object" THEN Sorted(v.keys) ELSE [n \in DOMAIN v.items |-> n]
           keys == [n \in DOMAIN v.keys |-> v.keys[place[n]]]
           items == [n \in DOMAIN v.items |-> Canon[d - 1][v.items[place[n]]]]
<1>1. c = CanonOver(Canon[d - 1], v)
  BY CanonIs
<1>2. c = [kind |-> v.kind, x |-> IF v.x = MinusZero THEN Zero ELSE v.x, str |-> v.str,
           keys |-> keys, items |-> items]
  BY <1>1 DEF CanonOver
<1>3. m \in Nat /\ DOMAIN v.items = 1..m
  BY ValueIs
<1> HIDE DEF c, m
<1>4. DOMAIN items = 1..m /\ items = [n \in 1..m |-> items[n]]
      /\ \A n \in 1..m : items[n] = Canon[d - 1][v.items[place[n]]]
  BY <1>3
<1>5. ASSUME v.kind # "object"
      PROVE  keys = <<>> /\ \A n \in 1..m : items[n] = Canon[d - 1][v.items[n]]
  <2>1. v.keys = <<>>
    BY <1>5, ValueIs
  <2>2. keys = <<>>
    BY <2>1
  <2>3. \A n \in 1..m : place[n] = n
    BY <1>3, <1>5
  <2> QED BY <1>4, <2>2, <2>3
<1>6. ASSUME v.kind = "object"
      PROVE  /\ keys = InOrder(v.keys)
             /\ \A n \in 1..m : items[n] = Canon[d - 1][v.items[Sorted(v.keys)[n]]]
  <2>1. place = Sorted(v.keys)
    BY <1>6
  <2> HIDE DEF place
  <2>2. keys = InOrder(v.keys)
    BY <2>1 DEF InOrder
  <2> QED BY <1>4, <2>1, <2>2
<1> HIDE DEF keys, items
<1>7. c.kind = v.kind /\ c.str = v.str /\ c.x = (IF v.x = MinusZero THEN Zero ELSE v.x)
      /\ c.keys = keys /\ c.items = items
  BY <1>2
<1>8. c = [kind |-> v.kind, x |-> IF v.x = MinusZero THEN Zero ELSE v.x,
           str |-> v.str, keys |-> c.keys, items |-> c.items]
  BY <1>2, <1>7
<1> QED BY <1>3, <1>4, <1>5, <1>6, <1>7, <1>8 DEF c, m

\* Numbers without -0.
LEMMA CanonNumber ==
  ASSUME NEW y \in {0} \cup ToSet(Parsed)
  PROVE  LET x == IF y = MinusZero THEN Zero ELSE y
         IN /\ x \in {0} \cup ToSet(Parsed) /\ (x = 0 <=> y = 0) /\ Shortest(x) = Shortest(y)
            /\ (IF x = MinusZero THEN Zero ELSE x) = x
<1>1. Parsed[1] = Zero /\ 1 \in DOMAIN Parsed
  BY DEF Parsed
<1>2. Zero \in ToSet(Parsed)
  BY <1>1 DEF ToSet
<1>3. Zero # 0 /\ MinusZero # 0 /\ Zero # MinusZero /\ Zero # One /\ MinusZero # One
  BY DEF Zero, MinusZero, One
<1> QED BY <1>2, <1>3 DEF Shortest

LEMMA CanonStep ==
  ASSUME NEW d \in 0..Levels, d # 0, CanonAlike(d - 1)
  PROVE  CanonAlike(d)
<1>1. SUFFICES ASSUME NEW v \in Values[d]
               PROVE  /\ Canon[d][v] \in Values[d]
                      /\ Written[d][Canon[d][v]] = Written[d][v]
                      /\ Meanings[d][Canon[d][v]] = Meanings[d][v]
  BY DEF CanonAlike
<1> DEFINE S == Values[d - 1]
           f == Canon[d - 1]
           text == Written[d - 1]
           sense == Meanings[d - 1]
           m == Len(v.items)
           o == Sorted(v.keys)
           c == Canon[d][v]
           x == IF v.x = MinusZero THEN Zero ELSE v.x
<1>2. /\ Values[d] = ValuesOver(S) /\ v \in ValuesOver(S) /\ v.items \in Seq(S)
      /\ v.keys \in Seq(Seq(Char))
      /\ v.kind = "object" => IsInjective(v.keys) /\ Len(v.keys) = m
      /\ v.x \in {0} \cup ToSet(Parsed) /\ v.str \in Seq(Char)
      /\ v.kind \in {"null", "number", "string", "array", "object"}
      /\ v.kind = "number" <=> v.x # 0
      /\ v.kind # "string" => v.str = <<>>
      /\ v.kind \notin {"array", "object"} => v.items = <<>>
  BY ValueIs
<1>3. /\ c = [kind |-> v.kind, x |-> x, str |-> v.str, keys |-> c.keys, items |-> c.items]
      /\ c.kind = v.kind /\ c.str = v.str /\ c.x = x
      /\ m \in Nat /\ DOMAIN c.items = 1..m /\ c.items = [n \in 1..m |-> c.items[n]]
      /\ v.kind = "object" => c.keys = InOrder(v.keys) /\ \A n \in 1..m : c.items[n] = f[v.items[o[n]]]
      /\ v.kind # "object" => c.keys = <<>> /\ \A n \in 1..m : c.items[n] = f[v.items[n]]
  BY CanonParts
<1>4. \A y \in S : f[y] \in S /\ text[f[y]] = text[y] /\ sense[f[y]] = sense[y]
  BY DEF CanonAlike
<1>5. \A w \in Values[d] : /\ Written[d][w] = TextOver(text, w)
                           /\ Meanings[d][w] = MeaningOver(sense, w)
  BY WrittenIs, MeaningsIs
<1>6. x \in {0} \cup ToSet(Parsed) /\ (x = 0 <=> v.x = 0) /\ Shortest(x) = Shortest(v.x)
      /\ (IF x = MinusZero THEN Zero ELSE x) = x
  BY <1>2, CanonNumber
<1> HIDE DEF S, f, text, sense, c
<1>7. DOMAIN v.items = 1..m /\ \A n \in 1..m : v.items[n] \in S
  BY <1>2, PlacesOf
<1> HIDE DEF m, o
<1>8. CASE v.kind # "object"
  <2>1. /\ c.items \in Seq(S) /\ Len(c.items) = m
        /\ \A n \in 1..m : text[c.items[n]] = text[v.items[n]]
                           /\ sense[c.items[n]] = sense[v.items[n]]
    <3>1. \A n \in 1..m : c.items[n] \in S
      BY <1>3, <1>4, <1>7, <1>8
    <3> DEFINE t == c.items
    <3>2. t \in Seq(S) /\ Len(t) = m
      <4>1. DOMAIN t = 1..m /\ t = [n \in 1..m |-> t[n]] /\ m \in Nat /\ \A n \in 1..m : t[n] \in S
        BY <1>3, <3>1
      <4> HIDE DEF t
      <4> QED BY <4>1, MadeOf
    <3>3. ASSUME NEW n \in 1..m
          PROVE  text[c.items[n]] = text[v.items[n]] /\ sense[c.items[n]] = sense[v.items[n]]
      <4>1. c.items[n] = f[v.items[n]] /\ v.items[n] \in S
        BY <1>3, <1>7, <1>8
      <4> QED BY <1>4, <4>1
    <3> QED BY <3>2, <3>3
  <2>2. v.items = <<>> => c.items = <<>>
    BY <2>1 DEF m
  <2>3. c \in ValuesOver(S)
    <3> HIDE DEF x
    <3>1. c.items \in Seq(S) /\ c.keys = <<>> /\ c.x \in {0} \cup ToSet(Parsed) /\ c.str \in Seq(Char)
      BY <1>2, <1>3, <1>6, <1>8, <2>1
    <3> QED BY <1>2, <1>3, <1>6, <1>8, <2>2, <3>1 DEF ValuesOver
  <2>4. TextOver(text, v) = TextOver(text, c)
    <3>1. SameItems(text, v, c)
      BY <1>7, <2>1 DEF SameItems
    <3>2. IF v.kind = "object" THEN SameMembers(text, v, c) ELSE SameItems(text, v, c)
      BY <1>8, <3>1
    <3>3. v.kind = c.kind /\ Shortest(v.x) = Shortest(c.x) /\ v.str = c.str
          /\ Len(v.items) = Len(c.items)
      BY <1>3, <1>6, <2>1 DEF m
    <3> QED BY <1>2, <2>3, <3>2, <3>3, SameText
  <2>5. MeaningOver(sense, v) = MeaningOver(sense, c)
    <3>1. [i \in DOMAIN v.items |-> sense[v.items[i]]] = [i \in DOMAIN c.items |-> sense[c.items[i]]]
      BY <1>3, <1>7, <2>1
    <3>2. (IF c.x = MinusZero THEN Zero ELSE c.x) = IF v.x = MinusZero THEN Zero ELSE v.x
      BY <1>3, <1>6
    <3> QED BY <1>3, <1>8, <3>1, <3>2 DEF MeaningOver
  <2> QED BY <1>2, <1>5, <2>3, <2>4, <2>5 DEF c
<1>9. CASE v.kind = "object"
  <2>1. /\ c.keys \in Seq(Seq(Char)) /\ Len(c.keys) = m /\ IsInjective(c.keys)
        /\ DOMAIN c.keys = 1..m /\ DOMAIN v.keys = 1..m
        /\ \A n \in 1..m : o[n] \in 1..m /\ c.keys[n] = v.keys[o[n]]
        /\ \A i \in 1..m : \E n \in 1..m : o[n] = i
    <3>1. v.keys \in Seq(Seq(Char)) /\ IsInjective(v.keys) /\ Len(v.keys) = m
      BY <1>2, <1>9
    <3>2. /\ InOrder(v.keys) \in Seq(Seq(Char)) /\ Len(InOrder(v.keys)) = Len(v.keys)
          /\ IsInjective(InOrder(v.keys))
          /\ \A n \in 1..Len(v.keys) : /\ Sorted(v.keys)[n] \in 1..Len(v.keys)
                                       /\ InOrder(v.keys)[n] = v.keys[Sorted(v.keys)[n]]
          /\ \A i \in 1..Len(v.keys) : \E n \in 1..Len(v.keys) : Sorted(v.keys)[n] = i
      BY <3>1, InOrderIs
    <3>3. c.keys = InOrder(v.keys)
      BY <1>3, <1>9
    <3>4. c.keys \in Seq(Seq(Char)) /\ Len(c.keys) = m /\ IsInjective(c.keys)
      BY <3>1, <3>2, <3>3
    <3>5. DOMAIN c.keys = 1..m /\ DOMAIN v.keys = 1..m
      BY <3>1, <3>4, PlacesOf
    <3> QED BY <3>1, <3>2, <3>3, <3>4, <3>5 DEF o
  <2>2. /\ c.items \in Seq(S) /\ Len(c.items) = m
        /\ \A n \in 1..m : text[c.items[n]] = text[v.items[o[n]]]
                           /\ sense[c.items[n]] = sense[v.items[o[n]]]
    <3>3. ASSUME NEW n \in 1..m
          PROVE  /\ c.items[n] \in S
                 /\ text[c.items[n]] = text[v.items[o[n]]] /\ sense[c.items[n]] = sense[v.items[o[n]]]
      <4>1. c.items[n] = f[v.items[o[n]]]
        BY <1>3, <1>9
      <4>2. v.items[o[n]] \in S
        BY <1>7, <2>1
      <4> QED BY <1>4, <4>1, <4>2
    <3>1. \A n \in 1..m : c.items[n] \in S
      BY <3>3
    <3> DEFINE t == c.items
    <3>2. t \in Seq(S) /\ Len(t) = m
      <4>1. DOMAIN t = 1..m /\ t = [n \in 1..m |-> t[n]] /\ m \in Nat /\ \A n \in 1..m : t[n] \in S
        BY <1>3, <3>1
      <4> HIDE DEF t
      <4> QED BY <4>1, MadeOf
    <3> QED BY <3>2, <3>3
  <2>3. c \in ValuesOver(S)
    <3> HIDE DEF x
    <3>1. c.items \in Seq(S) /\ c.x \in {0} \cup ToSet(Parsed) /\ c.str \in Seq(Char)
      BY <1>2, <1>3, <1>6, <1>9, <2>2
    <3> QED BY <1>2, <1>3, <1>6, <1>9, <2>1, <2>2, <3>1 DEF ValuesOver
  <2>4. TextOver(text, v) = TextOver(text, c)
    <3>1. SameMembers(text, v, c)
      <4>1. ASSUME NEW j \in 1..m PROVE v.keys[j] \in ToSet(c.keys)
        <5>1. PICK n \in 1..m : o[n] = j
          BY <2>1
        <5> QED BY <2>1, <5>1 DEF ToSet
      <4>2. ASSUME NEW i \in 1..m
            PROVE  \E j \in 1..m : c.keys[i] = v.keys[j] /\ text[c.items[i]] = text[v.items[j]]
        BY <2>1, <2>2
      <4>3. DOMAIN c.keys = 1..m /\ DOMAIN v.keys = 1..m
        BY <2>1
      <4> QED BY <4>1, <4>2, <4>3 DEF SameMembers
    <3>2. IF v.kind = "object" THEN SameMembers(text, v, c) ELSE SameItems(text, v, c)
      BY <1>9, <3>1
    <3>3. v.kind = c.kind /\ Shortest(v.x) = Shortest(c.x) /\ v.str = c.str
          /\ Len(v.items) = Len(c.items)
      BY <1>3, <1>6, <2>2 DEF m
    <3> QED BY <1>2, <2>3, <3>2, <3>3, SameText
  <2>5. MeaningOver(sense, v) = MeaningOver(sense, c)
    <3> DEFINE V == {<<v.keys[i], sense[v.items[i]]>> : i \in DOMAIN v.keys}
               C == {<<c.keys[i], sense[c.items[i]]>> : i \in DOMAIN c.keys}
    <3>1. \A i \in 1..m : <<c.keys[i], sense[c.items[i]]>> = <<v.keys[o[i]], sense[v.items[o[i]]]>>
      BY <2>1, <2>2
    <3>6. DOMAIN c.keys = 1..m /\ DOMAIN v.keys = 1..m
      BY <2>1
    <3>2. C \subseteq V
      <4>1. ASSUME NEW i \in 1..m PROVE <<c.keys[i], sense[c.items[i]]>> \in V
        <5>1. o[i] \in 1..m
          BY <2>1
        <5>2. <<v.keys[o[i]], sense[v.items[o[i]]]>> \in V
          BY <3>6, <5>1
        <5> QED BY <3>1, <5>2
      <4> HIDE DEF V
      <4> QED BY <3>6, <4>1
    <3>3. V \subseteq C
      <4>1. ASSUME NEW j \in 1..m PROVE <<v.keys[j], sense[v.items[j]]>> \in C
        <5>1. PICK n \in 1..m : o[n] = j
          BY <2>1
        <5>2. <<c.keys[n], sense[c.items[n]]>> \in C
          BY <3>6
        <5> QED BY <3>1, <5>1, <5>2
      <4> HIDE DEF C
      <4> QED BY <3>6, <4>1
    <3>4. MeaningOver(sense, v) = <<"object", V>> /\ MeaningOver(sense, c) = <<"object", C>>
      BY <1>3, <1>9 DEF MeaningOver
    <3> HIDE DEF V, C
    <3>5. V = C
      BY <3>2, <3>3
    <3> QED BY <3>4, <3>5
  <2> QED BY <1>2, <1>5, <2>3, <2>4, <2>5 DEF c
<1> QED BY <1>8, <1>9

\* What is written of a value is that of its canonical form, and means the same.
LEMMA CanonValues == \A d \in 0..Levels : CanonAlike(d)
<1> DEFINE T == {d \in 0..Levels : CanonAlike(d)}
<1>1. 0 \in T
  BY ValuesAre, LevelFacts DEF CanonAlike
<1>2. ASSUME NEW d \in 0..(Levels - 1), d \in T PROVE d + 1 \in T
  <2>1. d + 1 \in 0..Levels /\ d + 1 # 0 /\ (d + 1) - 1 = d
    BY LevelFacts
  <2>2. CanonAlike((d + 1) - 1)
    BY <1>2, <2>1
  <2> QED BY <2>1, <2>2, CanonStep
<1> HIDE DEF T
<1>3. 0..Levels \subseteq T
  BY <1>1, <1>2, LevelFacts, NatUpTo
<1> QED BY <1>3 DEF T

----------------------------------------------------------------------------
(* The parser. *)

Opens == UNION {Open(d) : d \in 0..Levels}

\* An array or object the parser is in, the i-th from outside: its items have been
\* accepted, and are not too deep.
Frame(i, v) ==
  /\ v \in Open(Levels - i)
  /\ IF v.kind = "object"
     THEN IsInjective(v.keys) /\ Len(v.keys) \in {Len(v.items), Len(v.items) + 1}
     ELSE v.keys = <<>>
  /\ \A n \in DOMAIN v.items : Accepted[Levels - i][v.items[n]]

\* A value may be the next in v; a key, or the end, may.
Awaits(v) == v.kind = "object" => Len(v.keys) = Len(v.items) + 1
Settled(v) == v.kind = "object" => Len(v.keys) = Len(v.items)

\* A value may be the next, in the last one or as the whole.
Expects(s) == s # <<>> => Awaits(Last(s))

\* All but the last are waiting for the value that the next one will be.
GoodStack(s) ==
  /\ s \in Seq(Opens) /\ Len(s) <= MaxDepth + 1
  /\ \A i \in 1..Len(s) : Frame(i, s[i])
  /\ \A i \in 1..(Len(s) - 1) : Awaits(s[i])

\* What the parser's mode says of the last one.
ModeInv ==
  /\ mode \in {"value", "first"} => Expects(stack)
  /\ mode = "first" => In("array")
  /\ mode \in {"key", "firstkey"} => In("object") /\ Settled(Last(stack))
  /\ mode = "colon" => In("object") /\ Awaits(Last(stack))
  /\ mode = "after" => IF stack = <<>> THEN value # Nothing ELSE Settled(Last(stack))
  /\ mode \in {"string", "low"} =>
       IsKey \/ (Within(Len(stack)) /\ Expects(stack))
  /\ mode = "done" => value # Nothing

ValueInv ==
  value # Nothing => value \in Values[Levels] /\ FromValueAccepts(value)

ParserInv ==
  /\ mode \in {"value", "first", "key", "firstkey", "colon", "after", "string", "low",
               "done", "refused"}
  /\ str \in Seq(Char)
  /\ GoodStack(stack) /\ ModeInv /\ ValueInv

TextInv ==
  /\ source \in Seq(Tokens) /\ count \in Nat
  /\ IF source = <<>> THEN sent = Nothing
     ELSE sent \in Values[Levels] /\ FromValueAccepts(sent) /\ source = Write(sent)

Inv == ParserInv /\ TextInv

\* What a token is.
LEMMA TokenIs ==
  ASSUME NEW t \in Tokens
  PROVE  /\ t.kind \in {"array", "endarray", "object", "endobject", "comma", "colon", "quote", "space", "null",
                        "number", "raw", "short", "hex"}
         /\ t.kind = "number" => t.x \in DOMAIN Parsed
         /\ t.kind \in {"raw", "short"} => t.x \in Char
         /\ t.kind = "hex" => t.x \in {High, Low} \/ t.x \in Char
  BY DEF Tokens, Mark, Token

\* The parser is not deeper than there are levels.
LEMMA StackDepth ==
  ASSUME NEW s, GoodStack(s)
  PROVE  /\ Len(s) \in Nat /\ Len(s) < Levels /\ DOMAIN s = 1..Len(s)
         /\ s = <<>> \/ (s # <<>> /\ Len(s) \in 1..Len(s) /\ Last(s) = s[Len(s)] /\ Frame(Len(s), Last(s)))
         /\ \A i \in 1..Len(s) : Levels - i \in 0..Levels /\ Levels - i + 1 \in 0..Levels
<1>1. s \in Seq(Opens) /\ Len(s) <= MaxDepth + 1 /\ \A i \in 1..Len(s) : Frame(i, s[i])
  BY DEF GoodStack
<1>2. Len(s) \in Nat /\ DOMAIN s = 1..Len(s)
  BY <1>1, PlacesOf
<1>3. Len(s) < Levels
  BY <1>1, <1>2, LevelFacts
<1>4. \A i \in 1..Len(s) : Levels - i \in 0..Levels /\ Levels - i + 1 \in 0..Levels
  BY <1>2, <1>3, LevelFacts
<1>5. ASSUME s # <<>> PROVE Len(s) \in 1..Len(s) /\ Last(s) = s[Len(s)]
  <2>1. Len(s) # 0
    BY <1>1, <1>5, LastOf
  <2> QED BY <1>2, <2>1 DEF Last
<1> QED BY <1>1, <1>2, <1>3, <1>4, <1>5

\* An array or object.
LEMMA OpenIs ==
  ASSUME NEW d \in 0..Levels, NEW v \in Open(d)
  PROVE  /\ v.kind \in {"array", "object"} /\ v.x = 0 /\ v.str = <<>>
         /\ v.keys \in Seq(Seq(Char)) /\ v.items \in Seq(Values[d])
         /\ v = [kind |-> v.kind, x |-> 0, str |-> <<>>, keys |-> v.keys, items |-> v.items]
         /\ v \in Opens
  BY DEF Open, Opens

\* The last one of a stack, changed.
LEMMA InLastGood ==
  ASSUME NEW s, GoodStack(s), s # <<>>, NEW v, Frame(Len(s), v)
  PROVE  GoodStack(InLast(s, v)) /\ InLast(s, v) # <<>> /\ Last(InLast(s, v)) = v
         /\ Len(InLast(s, v)) = Len(s)
<1> DEFINE n == Len(s)
           t == InLast(s, v)
<1>1. n \in Nat /\ n \in 1..n /\ n <= MaxDepth + 1 /\ Levels - n \in 0..Levels
  BY StackDepth, LevelFacts DEF GoodStack
<1>2. /\ s \in Seq(Opens)
      /\ \A i \in 1..n : Frame(i, s[i])
      /\ \A i \in 1..(n - 1) : Awaits(s[i])
  BY DEF GoodStack
<1>3. v \in Opens
  BY <1>1, OpenIs DEF Frame
<1>4. Front(s) \in Seq(Opens) /\ Len(Front(s)) = n - 1 /\ \A i \in 1..(n - 1) : Front(s)[i] = s[i]
  BY <1>2, LastOf
<1> HIDE DEF n
<1>5. /\ t \in Seq(Opens) /\ Len(t) = n /\ t[n] = v
      /\ \A i \in 1..(n - 1) : t[i] = s[i]
  <2>1. /\ t \in Seq(Opens) /\ Len(t) = (n - 1) + 1 /\ t[(n - 1) + 1] = v
        /\ \A i \in 1..(n - 1) : t[i] = Front(s)[i]
    BY <1>3, <1>4, AppendIs DEF InLast
  <2> HIDE DEF t
  <2>2. (n - 1) + 1 = n
    BY <1>1
  <2> QED BY <1>4, <2>1, <2>2
<1> HIDE DEF t
<1>6. \A i \in 1..n : Frame(i, t[i])
  <2>1. \A i \in 1..n : i = n \/ i \in 1..(n - 1)
    BY <1>1
  <2>2. Frame(n, v)
    BY DEF n
  <2> QED BY <1>2, <1>5, <2>1, <2>2
<1>7. GoodStack(t)
  BY <1>1, <1>2, <1>5, <1>6 DEF GoodStack
<1>8. t # <<>> /\ Last(t) = v
  BY <1>1, <1>5 DEF Last
<1> QED BY <1>5, <1>7, <1>8 DEF t, n

\* The arrays and objects around the last one.
LEMMA FrontGood ==
  ASSUME NEW s, GoodStack(s), s # <<>>
  PROVE  /\ GoodStack(Front(s)) /\ Len(Front(s)) = Len(s) - 1
         /\ Expects(Front(s))
<1> DEFINE n == Len(s)
           t == Front(s)
<1>1. n \in Nat /\ n \in 1..n /\ n <= MaxDepth + 1
  BY StackDepth, LevelFacts DEF GoodStack
<1>2. /\ s \in Seq(Opens)
      /\ \A i \in 1..n : Frame(i, s[i])
      /\ \A i \in 1..(n - 1) : Awaits(s[i])
  BY DEF GoodStack
<1>3. t \in Seq(Opens) /\ Len(t) = n - 1 /\ \A i \in 1..(n - 1) : t[i] = s[i]
  BY <1>2, LastOf
<1> HIDE DEF n, t
<1>4. GoodStack(t)
  <2>1. \A i \in 1..(n - 1) : i \in 1..n
    BY <1>1
  <2>2. \A i \in 1..((n - 1) - 1) : i \in 1..(n - 1)
    BY <1>1
  <2>3. n - 1 <= MaxDepth + 1
    BY <1>1, LevelFacts
  <2> QED BY <1>2, <1>3, <2>1, <2>2, <2>3 DEF GoodStack
<1>5. Expects(t)
  <2>1. SUFFICES ASSUME t # <<>> PROVE Awaits(Last(t))
    BY DEF Expects
  <2>2. Len(t) \in 1..Len(t) /\ Last(t) = t[Len(t)]
    BY <1>4, <2>1, StackDepth
  <2>3. Len(t) \in 1..(n - 1) /\ Last(t) = s[Len(t)]
    BY <1>3, <2>2
  <2>4. Awaits(s[Len(t)])
    BY <1>2, <2>3
  <2> QED BY <2>3, <2>4
<1> QED BY <1>3, <1>4, <1>5 DEF n, t

\* One more array or object.
LEMMA PushGood ==
  ASSUME NEW s, GoodStack(s), Len(s) <= MaxDepth, Expects(s),
         NEW kind, kind \in {"array", "object"}
  PROVE  LET t == Append(s, Value(kind, 0, <<>>))
         IN /\ GoodStack(t) /\ t # <<>> /\ Last(t) = Value(kind, 0, <<>>)
            /\ Settled(Last(t)) /\ Last(t).kind = kind
<1> DEFINE n == Len(s)
           v == Value(kind, 0, <<>>)
           t == Append(s, v)
<1>1. n \in Nat
  BY StackDepth
<1>2. s \in Seq(Opens) /\ \A i \in 1..n : Frame(i, s[i])
  BY DEF GoodStack
<1>3. \A i \in 1..(n - 1) : Awaits(s[i])
  BY DEF GoodStack
<1>4. n + 1 <= MaxDepth + 1 /\ Levels - (n + 1) \in 0..Levels
  BY <1>1, LevelFacts
<1>5. v = [kind |-> kind, x |-> 0, str |-> <<>>, keys |-> <<>>, items |-> <<>>]
  BY DEF Value
<1>6. v.kind = kind /\ v.x = 0 /\ v.str = <<>> /\ v.keys = <<>> /\ v.items = <<>>
  BY <1>5
<1> DEFINE S == Values[Levels - (n + 1)]
<1>7. v \in Open(Levels - (n + 1))
  <2>1. <<>> \in Seq(S) /\ <<>> \in Seq(Seq(Char))
    OBVIOUS
  <2> HIDE DEF S, v
  <2> QED BY <1>5, <2>1 DEF Open, S
<1> HIDE DEF v, S
<1>8. v \in Opens
  BY <1>4, <1>7, OpenIs
<1>9. Frame(n + 1, v)
  <2>1. IsInjective(v.keys) /\ Len(v.keys) = Len(v.items) /\ DOMAIN v.items = {}
    BY <1>6 DEF IsInjective
  <2> QED BY <1>6, <1>7, <2>1 DEF Frame
<1>10. t \in Seq(Opens) /\ Len(t) = n + 1 /\ t[n + 1] = v /\ \A i \in 1..n : t[i] = s[i]
  <2>1. s \in Seq(Opens)
    BY <1>2
  <2> HIDE DEF t
  <2> QED BY <1>8, <2>1, AppendIs DEF t
<1>11. s = <<>> \/ (n # 0 /\ Last(s) = s[n])
  BY StackDepth
<1> HIDE DEF n, t
<1>12. \A i \in 1..(n + 1) : Frame(i, t[i])
  <2>1. \A i \in 1..(n + 1) : i = n + 1 \/ i \in 1..n
    BY <1>1
  <2> QED BY <1>2, <1>9, <1>10, <2>1
<1>13. \A i \in 1..((n + 1) - 1) : Awaits(t[i])
  <2>1. ASSUME NEW i \in 1..n PROVE Awaits(t[i])
    <3>1. CASE i # n
      <4>1. i \in 1..(n - 1)
        BY <1>1, <3>1
      <4> QED BY <1>3, <1>10, <4>1
    <3>2. CASE i = n
      <4>1. s # <<>>
        BY <1>1, <3>2 DEF n
      <4> QED BY <1>10, <1>11, <3>2, <4>1 DEF Expects
    <3> QED BY <3>1, <3>2
  <2>2. (n + 1) - 1 = n
    BY <1>1
  <2> QED BY <2>1, <2>2
<1>14. GoodStack(t)
  BY <1>4, <1>10, <1>12, <1>13 DEF GoodStack
<1>15. t # <<>> /\ Last(t) = v
  <2>1. n + 1 # 0
    BY <1>1
  <2> QED BY <1>10, <2>1 DEF Last
<1>16. Settled(v)
  BY <1>6 DEF Settled
<1> QED BY <1>6, <1>14, <1>15, <1>16 DEF t, v

\* A value without items.
LEMMA LeafIsValue ==
  ASSUME NEW d \in 1..Levels, Levels - d <= MaxDepth,
         NEW kind, kind \in {"null", "number", "string"},
         NEW x \in {0} \cup ToSet(Parsed), x # Infinite, kind = "number" <=> x # 0,
         NEW s \in Seq(Char), kind # "string" => s = <<>>
  PROVE  Value(kind, x, s) \in Values[d] /\ Accepted[d][Value(kind, x, s)]
<1> DEFINE v == Value(kind, x, s)
           S == Values[d - 1]
<1>1. v = [kind |-> kind, x |-> x, str |-> s, keys |-> <<>>, items |-> <<>>]
  BY DEF Value
<1>2. v.kind = kind /\ v.x = x /\ v.str = s /\ v.keys = <<>> /\ v.items = <<>>
  BY <1>1
<1>3. <<>> \in Seq(S) /\ <<>> \in Seq(Seq(Char))
  OBVIOUS
<1> HIDE DEF v, S
<1>4. v \in ValuesOver(S)
  BY <1>1, <1>2, <1>3 DEF ValuesOver
<1>5. d \in 0..Levels /\ Values[d] = ValuesOver(S)
  BY ValuesAre, LevelFacts DEF S
<1>6. Accepted[d][v] = AcceptedOver(Accepted[d - 1], Levels - d, v)
  <2>1. Accepted[d] = [w \in Values[d] |-> AcceptedOver(Accepted[d - 1], Levels - d, w)]
    BY <1>5, AcceptedIs
  <2> QED BY <1>4, <1>5, <2>1
<1>7. AcceptedOver(Accepted[d - 1], Levels - d, v)
  <2>1. DOMAIN v.items = {}
    BY <1>2
  <2> QED BY <1>2, <2>1 DEF AcceptedOver
<1> QED BY <1>4, <1>5, <1>6, <1>7 DEF v

\* An array or object that ends.
LEMMA FrameIsValue ==
  ASSUME NEW i \in 1..(MaxDepth + 1), NEW v, Frame(i, v), Settled(v)
  PROVE  v \in Values[Levels - (i - 1)] /\ Accepted[Levels - (i - 1)][v]
<1> DEFINE d == Levels - (i - 1)
           S == Values[Levels - i]
<1>1. d \in 0..Levels /\ d \in 1..Levels /\ d - 1 = Levels - i /\ Levels - i \in 0..Levels
      /\ Levels - d = i - 1 /\ i - 1 <= MaxDepth
  BY LevelFacts
<1> HIDE DEF d
<1>2. /\ v.kind \in {"array", "object"} /\ v.x = 0 /\ v.str = <<>>
      /\ v.keys \in Seq(Seq(Char)) /\ v.items \in Seq(S)
      /\ v = [kind |-> v.kind, x |-> 0, str |-> <<>>, keys |-> v.keys, items |-> v.items]
  BY <1>1, OpenIs DEF Frame
<1>3. IF v.kind = "object" THEN IsInjective(v.keys) /\ Len(v.keys) = Len(v.items)
      ELSE v.keys = <<>>
  BY DEF Frame, Settled
<1> HIDE DEF S
<1>4. v \in ValuesOver(S)
  <2>1. <<>> \in Seq(Char)
    OBVIOUS
  <2> QED BY <1>2, <1>3, <2>1 DEF ValuesOver
<1>5. Values[d] = ValuesOver(S)
  BY <1>1, ValuesAre DEF S
<1>6. Accepted[d][v] = AcceptedOver(Accepted[Levels - i], i - 1, v)
  <2>1. v \in Values[d]
    BY <1>4, <1>5
  <2>2. Accepted[d][v] = AcceptedOver(Accepted[d - 1], Levels - d, v)
    BY <1>1, <2>1, AcceptedIs
  <2> QED BY <1>1, <2>2
<1>7. AcceptedOver(Accepted[Levels - i], i - 1, v)
  BY <1>1, <1>2 DEF AcceptedOver, Within, Frame
<1> QED BY <1>4, <1>5, <1>6, <1>7 DEF d

\* A value that is complete.
LEMMA CompleteStep ==
  ASSUME NEW open, GoodStack(open), Expects(open), Len(open) <= MaxDepth,
         NEW v, v \in Values[Levels - Len(open)], Accepted[Levels - Len(open)][v],
         ValueInv, Complete(v, open)
  PROVE  ParserInv'
<1>1. mode' = "after" /\ str' = <<>>
  BY DEF Complete
<1>2. mode' \in {"value", "first", "key", "firstkey", "colon", "after", "string", "low",
                 "done", "refused"}
      /\ str' \in Seq(Char)
  BY <1>1
<1>3. CASE open = <<>>
  <2>1. stack' = <<>> /\ value' = v
    BY <1>3 DEF Complete
  <2>2. v \in Values[Levels] /\ FromValueAccepts(v)
    <3>1. Levels - Len(open) = Levels
      BY <1>3, LevelFacts
    <3> QED BY <3>1 DEF FromValueAccepts
  <2>3. value' # Nothing
    <3> Levels \in 0..Levels
      BY LevelFacts
    <3>1. v.kind # "none"
      BY <2>2, ValueIs
    <3> QED BY <2>1, <3>1 DEF Nothing, Value
  <2>4. GoodStack(stack')
    BY <1>3, <2>1
  <2>5. ModeInv'
    BY <1>1, <2>1, <2>3 DEF ModeInv
  <2>6. ValueInv'
    BY <2>1, <2>2 DEF ValueInv
  <2> QED BY <1>2, <2>4, <2>5, <2>6 DEF ParserInv
<1>4. CASE open # <<>>
  <2> DEFINE n == Len(open)
             u == Last(open)
             w == [u EXCEPT !.items = Append(@, v)]
             S == Values[Levels - n]
  <2>1. stack' = InLast(open, w) /\ value' = value
    BY <1>4 DEF Complete
  <2>2. n \in 1..n /\ Frame(n, u) /\ Awaits(u) /\ Levels - n \in 0..Levels
    BY <1>4, StackDepth DEF Expects
  <2>3. /\ u.kind \in {"array", "object"} /\ u.items \in Seq(S)
        /\ u = [kind |-> u.kind, x |-> 0, str |-> <<>>, keys |-> u.keys, items |-> u.items]
        /\ u.keys \in Seq(Seq(Char))
    BY <2>2, OpenIs DEF Frame
  <2> DEFINE more == Append(u.items, v)
  <2>4. w = [kind |-> u.kind, x |-> 0, str |-> <<>>, keys |-> u.keys, items |-> more]
    <3> HIDE DEF u
    <3> DEFINE k == u.kind
               l == u.keys
               e == u.items
    <3>1. u = [kind |-> k, x |-> 0, str |-> <<>>, keys |-> l, items |-> e]
      BY <2>3
    <3> HIDE DEF k, l, e
    <3>2. w = [kind |-> k, x |-> 0, str |-> <<>>, keys |-> l, items |-> Append(e, v)]
      BY <3>1
    <3> QED BY <3>2 DEF k, l, e
  <2>5. w.kind = u.kind /\ w.keys = u.keys /\ w.items = more
    BY <2>4
  <2>6. /\ more \in Seq(S) /\ Len(more) = Len(u.items) + 1 /\ more[Len(u.items) + 1] = v
        /\ \A k \in 1..Len(u.items) : more[k] = u.items[k]
        /\ Len(u.items) \in Nat /\ DOMAIN u.items = 1..Len(u.items)
        /\ DOMAIN more = 1..Len(more)
    <3>1. u.items \in Seq(S) /\ v \in S
      BY <2>3
    <3> HIDE DEF u, S
    <3> DEFINE e == u.items
    <3>2. e \in Seq(S)
      BY <3>1
    <3> HIDE DEF e
    <3>3. /\ Append(e, v) \in Seq(S) /\ Len(Append(e, v)) = Len(e) + 1 /\ Append(e, v)[Len(e) + 1] = v
          /\ \A k \in 1..Len(e) : Append(e, v)[k] = e[k]
      BY <3>1, <3>2, AppendIs
    <3>4. Len(e) \in Nat /\ DOMAIN e = 1..Len(e) /\ DOMAIN Append(e, v) = 1..Len(Append(e, v))
      BY <3>2, <3>3, PlacesOf
    <3> QED BY <3>3, <3>4 DEF e
  <2> HIDE DEF more, w, u, S
  <2>7. w \in Open(Levels - n)
    BY <2>3, <2>4, <2>6 DEF Open, S
  <2>8. IF w.kind = "object" THEN IsInjective(w.keys) /\ Len(w.keys) = Len(w.items)
        ELSE w.keys = <<>>
    BY <2>2, <2>5, <2>6 DEF Frame, Awaits
  <2>9. \A k \in DOMAIN w.items : Accepted[Levels - n][w.items[k]]
    <3>1. SUFFICES ASSUME NEW k \in 1..(Len(u.items) + 1) PROVE Accepted[Levels - n][more[k]]
      BY <2>5, <2>6
    <3>2. CASE k = Len(u.items) + 1
      BY <2>6, <3>2
    <3>3. CASE k # Len(u.items) + 1
      <4>1. k \in 1..Len(u.items)
        BY <2>6, <3>3
      <4> QED BY <2>2, <2>6, <4>1 DEF Frame
    <3> QED BY <3>2, <3>3
  <2>10. Frame(n, w) /\ Settled(w)
    <3>1. w.kind = "object" => Len(w.keys) \in {Len(w.items), Len(w.items) + 1}
      BY <2>8
    <3> QED BY <2>7, <2>8, <2>9, <3>1 DEF Frame, Settled
  <2>11. GoodStack(stack') /\ stack' # <<>> /\ Last(stack') = w
    BY <1>4, <2>1, <2>10, InLastGood
  <2>12. ModeInv'
    BY <1>1, <2>10, <2>11 DEF ModeInv
  <2>13. ValueInv'
    BY <2>1 DEF ValueInv
  <2> QED BY <1>2, <2>11, <2>12, <2>13 DEF ParserInv
<1> QED BY <1>3, <1>4

\* When a token fits.
LEMMA FitsIs ==
  ASSUME NEW t \in Tokens, Fits(t)
  PROVE  /\ t.kind \in {"null", "array", "object", "number"} => AtValue
         /\ t.kind = "number" => Parsed[t.x] # Infinite
         /\ t.kind = "endarray" => mode = "first" \/ (mode = "after" /\ In("array"))
         /\ t.kind = "endobject" => mode = "firstkey" \/ (mode = "after" /\ In("object"))
         /\ t.kind = "comma" => mode = "after" /\ stack # <<>>
         /\ t.kind = "colon" => mode = "colon"
         /\ t.kind = "quote" =>
              \/ AtValue
              \/ mode \in {"key", "firstkey"}
              \/ mode = "string" /\ (IsKey => IsFresh(str))
         /\ t.kind \in {"raw", "short", "hex"} => mode \in {"string", "low"}
  BY TokenIs DEF Fits, FitsString

\* Only the mode changes.
LEMMA GotoStep ==
  ASSUME ParserInv, NEW m,
         m \in {"value", "first", "key", "firstkey", "colon", "after", "string", "low", "done"},
         Goto(m),
         m \in {"value", "first"} => Expects(stack),
         m = "first" => In("array"),
         m \in {"key", "firstkey"} => In("object") /\ Settled(Last(stack)),
         m = "colon" => In("object") /\ Awaits(Last(stack)),
         m = "after" => IF stack = <<>> THEN value # Nothing ELSE Settled(Last(stack)),
         m \in {"string", "low"} => IsKey \/ (Within(Len(stack)) /\ Expects(stack)),
         m = "done" => value # Nothing
  PROVE  ParserInv'
<1>1. mode' = m /\ UNCHANGED <<stack, str, value>>
  BY DEF Goto
<1>2. ModeInv'
  BY <1>1 DEF ModeInv, In, IsKey
<1>3. ValueInv' /\ GoodStack(stack')
  BY <1>1 DEF ParserInv, ValueInv
<1> QED BY <1>1, <1>2, <1>3 DEF ParserInv

LEMMA LeafStep ==
  ASSUME ParserInv, NEW t \in Tokens, Fits(t), Leaf(t)
  PROVE  ParserInv'
<1> DEFINE d == Levels - Len(stack)
<1>1. t.kind \in {"null", "number"} /\ AtValue
  BY FitsIs DEF Leaf
<1>2. Len(stack) <= MaxDepth /\ Expects(stack) /\ GoodStack(stack) /\ ValueInv
  BY <1>1 DEF AtValue, Within, ParserInv, ModeInv
<1>3. d \in 1..Levels /\ Levels - d <= MaxDepth
  BY <1>2, StackDepth, LevelFacts
<1> HIDE DEF d
<1>4. <<>> \in Seq(Char)
  OBVIOUS
<1>5. CASE t.kind = "null"
  <2>1. Complete(Value("null", 0, <<>>), stack)
    BY <1>5 DEF Leaf
  <2>2. Value("null", 0, <<>>) \in Values[d] /\ Accepted[d][Value("null", 0, <<>>)]
    <3>1. 0 \in {0} \cup ToSet(Parsed) /\ 0 # Infinite
      BY DEF Infinite
    <3>2. "null" \in {"null", "number", "string"} /\ ("null" = "number" <=> 0 # 0)
      OBVIOUS
    <3> QED BY <1>3, <1>4, <3>1, <3>2, LeafIsValue
  <2> QED BY <1>2, <2>1, <2>2, CompleteStep DEF d
<1>6. CASE t.kind = "number"
  <2> DEFINE x == Parsed[t.x]
  <2>1. Complete(Value("number", x, <<>>), stack)
    BY <1>6 DEF Leaf
  <2>2. x # Infinite /\ x # 0 /\ x \in ToSet(Parsed)
    <3>1. t.x \in DOMAIN Parsed /\ x # Infinite
      BY <1>6, FitsIs, TokenIs
    <3>2. \A n \in DOMAIN Parsed : Parsed[n] # 0
      BY DEF Parsed, Zero, MinusZero, One, Infinite
    <3> QED BY <3>1, <3>2 DEF ToSet
  <2> HIDE DEF x
  <2>3. Value("number", x, <<>>) \in Values[d] /\ Accepted[d][Value("number", x, <<>>)]
    BY <1>3, <1>4, <2>2, LeafIsValue
  <2> QED BY <1>2, <2>1, <2>3, CompleteStep DEF d
<1> QED BY <1>1, <1>5, <1>6

LEMMA EnterStep ==
  ASSUME ParserInv, NEW t \in Tokens, Fits(t), Enter(t)
  PROVE  ParserInv'
<1> DEFINE v == Value(t.kind, 0, <<>>)
<1>1. t.kind \in {"array", "object"} /\ AtValue
  BY FitsIs DEF Enter
<1>2. /\ stack' = Append(stack, v) /\ str' = str /\ value' = value
      /\ mode' = IF t.kind = "array" THEN "first" ELSE "firstkey"
  BY DEF Enter
<1>3. Len(stack) <= MaxDepth /\ Expects(stack) /\ GoodStack(stack) /\ ValueInv
  BY <1>1 DEF AtValue, Within, ParserInv, ModeInv
<1>4. GoodStack(stack') /\ stack' # <<>> /\ Last(stack') = v /\ Settled(v) /\ v.kind = t.kind
  <2> HIDE DEF v
  <2> QED BY <1>1, <1>2, <1>3, PushGood DEF v
<1> HIDE DEF v
<1>5. ModeInv'
  BY <1>1, <1>2, <1>4 DEF ModeInv, In, Expects, Awaits
<1>6. ValueInv'
  BY <1>2, <1>3 DEF ValueInv
<1> QED BY <1>2, <1>4, <1>5, <1>6 DEF ParserInv

LEMMA LeaveStep ==
  ASSUME ParserInv, NEW t \in Tokens, Fits(t), Leave(t)
  PROVE  ParserInv'
<1> DEFINE n == Len(stack)
<1>1. t.kind \in {"endarray", "endobject"} /\ Complete(Last(stack), Front(stack))
  BY DEF Leave
<1>2. GoodStack(stack) /\ ValueInv
  BY DEF ParserInv
<1>3. stack # <<>> /\ Settled(Last(stack))
  <2>1. \/ mode = "first" \/ mode = "firstkey" \/ (mode = "after" /\ stack # <<>>)
    BY <1>1, FitsIs DEF In
  <2> QED BY <2>1 DEF ParserInv, ModeInv, In, Settled
<1>4. n \in 1..(MaxDepth + 1) /\ Frame(n, Last(stack))
  BY <1>2, <1>3, StackDepth, LevelFacts
<1>5. GoodStack(Front(stack)) /\ Len(Front(stack)) = n - 1 /\ Expects(Front(stack))
  BY <1>2, <1>3, FrontGood
<1> HIDE DEF n
<1>6. Last(stack) \in Values[Levels - (n - 1)] /\ Accepted[Levels - (n - 1)][Last(stack)]
  BY <1>3, <1>4, FrameIsValue
<1>7. n - 1 <= MaxDepth
  BY <1>4, LevelFacts
<1> QED BY <1>1, <1>2, <1>5, <1>6, <1>7, CompleteStep

LEMMA SeparateStep ==
  ASSUME ParserInv, NEW t \in Tokens, Fits(t), Separate(t)
  PROVE  ParserInv'
<1>1. ModeInv /\ GoodStack(stack)
  BY DEF ParserInv
<1>2. CASE t.kind = "comma"
  <2>1. mode = "after" /\ stack # <<>> /\ Settled(Last(stack))
    BY <1>1, <1>2, FitsIs DEF ModeInv
  <2>2. Goto(IF In("object") THEN "key" ELSE "value")
    BY <1>2 DEF Separate
  <2>3. CASE In("object")
    <3>1. Goto("key")
      BY <2>2, <2>3
    <3> QED BY <2>1, <2>3, <3>1, GotoStep
  <2>4. CASE ~In("object")
    <3>1. Goto("value")
      BY <2>2, <2>4
    <3>2. Expects(stack)
      BY <2>1, <2>4 DEF Expects, Awaits, In
    <3> QED BY <3>1, <3>2, GotoStep
  <2> QED BY <2>3, <2>4
<1>3. CASE t.kind = "colon"
  <2>1. Goto("value") /\ mode = "colon"
    BY <1>3, FitsIs DEF Separate
  <2>2. Expects(stack)
    BY <1>1, <2>1 DEF ModeInv, Expects
  <2> QED BY <2>1, <2>2, GotoStep
<1>4. CASE t.kind = "space"
  <2>1. mode' = mode /\ UNCHANGED <<stack, str, value>>
    BY <1>4 DEF Separate, Goto
  <2> QED BY <2>1 DEF ParserInv, ModeInv, ValueInv, In, IsKey
<1> QED BY <1>2, <1>3, <1>4 DEF Separate

LEMMA ReadCharStep ==
  ASSUME ParserInv, NEW t \in Tokens, Fits(t), ReadChar(t)
  PROVE  ParserInv'
<1>1. t.kind \in {"raw", "short", "hex"} /\ mode \in {"string", "low"}
  BY FitsIs DEF ReadChar
<1>2. IsKey \/ (Within(Len(stack)) /\ Expects(stack))
  BY <1>1 DEF ParserInv, ModeInv
<1>3. CASE t.x = High
  <2>1. Goto("low")
    BY <1>3 DEF ReadChar
  <2> QED BY <1>2, <2>1, GotoStep
<1>4. CASE t.x # High
  <2> DEFINE c == IF t.x = Low THEN Astral ELSE t.x
  <2>1. mode' = "string" /\ str' = Append(str, c) /\ UNCHANGED <<stack, value>>
    BY <1>4 DEF ReadChar
  <2>2. c \in Char
    <3>1. t.x \in {High, Low} \cup Char
      BY <1>1, TokenIs
    <3> QED BY <1>4, <3>1, CanonicalAssumption
  <2> HIDE DEF c
  <2>3. str' \in Seq(Char)
    BY <2>1, <2>2 DEF ParserInv
  <2>4. ModeInv'
    BY <1>2, <2>1 DEF ModeInv, In, IsKey
  <2> QED BY <2>1, <2>3, <2>4 DEF ParserInv, ValueInv
<1> QED BY <1>3, <1>4

\* One more key.
LEMMA OneMoreKey ==
  ASSUME NEW s, GoodStack(s), s # <<>>, Last(s).kind = "object", Settled(Last(s)),
         NEW key \in Seq(Char), key \notin ToSet(Last(s).keys)
  PROVE  LET u == [Last(s) EXCEPT !.keys = Append(@, key)]
             t == InLast(s, u)
         IN GoodStack(t) /\ t # <<>> /\ Last(t).kind = "object" /\ Awaits(Last(t))
<1> DEFINE n == Len(s)
           v == Last(s)
           l == v.keys
           more == Append(l, key)
           u == [v EXCEPT !.keys = Append(@, key)]
           S == Values[Levels - n]
<1>1. n \in 1..n /\ Frame(n, v) /\ Levels - n \in 0..Levels
  BY StackDepth
<1>2. v = [kind |-> "object", x |-> 0, str |-> <<>>, keys |-> l, items |-> v.items]
      /\ l \in Seq(Seq(Char)) /\ v.items \in Seq(S)
  BY <1>1, OpenIs DEF Frame
<1>3. IsInjective(l) /\ Len(l) = Len(v.items)
  BY <1>1 DEF Frame, Settled
<1>4. /\ more \in Seq(Seq(Char)) /\ Len(more) = Len(l) + 1 /\ more[Len(l) + 1] = key
      /\ \A i \in 1..Len(l) : more[i] = l[i]
      /\ Len(l) \in Nat /\ DOMAIN l = 1..Len(l) /\ DOMAIN more = 1..Len(more)
  <2> DEFINE e == l
             K == Seq(Char)
  <2>1. e \in Seq(K) /\ key \in K
    BY <1>2
  <2> HIDE DEF e, K
  <2>2. /\ Append(e, key) \in Seq(K) /\ Len(Append(e, key)) = Len(e) + 1 /\ Append(e, key)[Len(e) + 1] = key
        /\ \A k \in 1..Len(e) : Append(e, key)[k] = e[k]
    BY <2>1, AppendIs
  <2>3. Len(e) \in Nat /\ DOMAIN e = 1..Len(e) /\ DOMAIN Append(e, key) = 1..Len(Append(e, key))
    BY <2>1, <2>2, PlacesOf
  <2> QED BY <2>2, <2>3 DEF e, K
<1>5. IsInjective(more)
  <2>1. \A i \in 1..Len(l) : l[i] # key
    BY <1>4 DEF ToSet
  <2> HIDE DEF more, l
  <2>2. \A i, j \in 1..Len(l) : l[i] = l[j] => i = j
    BY <1>3, <1>4 DEF IsInjective
  <2>3. SUFFICES ASSUME NEW i \in 1..(Len(l) + 1), NEW j \in 1..(Len(l) + 1), more[i] = more[j]
                 PROVE  i = j
    BY <1>4 DEF IsInjective
  <2>4. \A k \in 1..(Len(l) + 1) : k = Len(l) + 1 \/ k \in 1..Len(l)
    BY <1>4
  <2> QED BY <1>4, <2>1, <2>2, <2>3, <2>4
<1>6. u = [kind |-> "object", x |-> 0, str |-> <<>>, keys |-> more, items |-> v.items]
  <2> DEFINE e == v.items
  <2>1. v = [kind |-> "object", x |-> 0, str |-> <<>>, keys |-> l, items |-> e]
    BY <1>2
  <2>2. u = [v EXCEPT !.keys = more]
    OBVIOUS
  <2> HIDE DEF l, e, v, more, u
  <2> QED BY <2>1, <2>2 DEF e
<1>7. u.kind = "object" /\ u.keys = more /\ u.items = v.items
  BY <1>6
<1> HIDE DEF n, more, u, S
<1>8. Frame(n, u)
  <2>1. u \in Open(Levels - n)
    BY <1>2, <1>4, <1>6 DEF Open, S
  <2>2. \A i \in DOMAIN u.items : Accepted[Levels - n][u.items[i]]
    BY <1>1, <1>7 DEF Frame
  <2>3. Len(u.keys) \in {Len(u.items), Len(u.items) + 1}
    BY <1>3, <1>4, <1>7
  <2> QED BY <1>5, <1>7, <2>1, <2>2, <2>3 DEF Frame
<1>9. Awaits(u)
  BY <1>3, <1>4, <1>7 DEF Awaits
<1>10. GoodStack(InLast(s, u)) /\ InLast(s, u) # <<>> /\ Last(InLast(s, u)) = u
  BY <1>8, InLastGood DEF n
<1> QED BY <1>7, <1>9, <1>10 DEF u

LEMMA EndStringStep ==
  ASSUME ParserInv, NEW t \in Tokens, Fits(t), EndString(t)
  PROVE  ParserInv'
<1>1. t.kind = "quote"
  BY DEF EndString
<1>2. GoodStack(stack) /\ ModeInv /\ ValueInv /\ str \in Seq(Char)
  BY DEF ParserInv
<1>3. CASE mode # "string"
  <2>1. Goto("string")
    BY <1>3 DEF EndString
  <2>2. AtValue \/ mode \in {"key", "firstkey"}
    BY <1>1, <1>3, FitsIs
  <2>3. IsKey \/ (Within(Len(stack)) /\ Expects(stack))
    BY <1>2, <2>2 DEF AtValue, ModeInv, IsKey, In, Settled
  <2> QED BY <2>1, <2>3, GotoStep
<1>4. CASE mode = "string" /\ IsKey
  <2> DEFINE u == [Last(stack) EXCEPT !.keys = Append(@, str)]
  <2>1. stack' = InLast(stack, u) /\ mode' = "colon" /\ str' = <<>> /\ value' = value
    BY <1>4 DEF EndString
  <2>2. IsFresh(str)
    BY <1>1, <1>4, FitsIs DEF AtValue
  <2>3. stack # <<>> /\ Last(stack).kind = "object" /\ Settled(Last(stack))
    BY <1>4 DEF IsKey, In, Settled
  <2>4. GoodStack(stack') /\ stack' # <<>> /\ Last(stack').kind = "object" /\ Awaits(Last(stack'))
    BY <1>2, <2>1, <2>2, <2>3, OneMoreKey DEF IsFresh
  <2> HIDE DEF u
  <2>5. ModeInv'
    BY <2>1, <2>4 DEF ModeInv, In
  <2>6. ValueInv'
    BY <1>2, <2>1 DEF ValueInv
  <2> QED BY <2>1, <2>4, <2>5, <2>6 DEF ParserInv
<1>5. CASE mode = "string" /\ ~IsKey
  <2> DEFINE d == Levels - Len(stack)
             v == Value("string", 0, str)
  <2>1. Complete(v, stack)
    BY <1>5 DEF EndString
  <2>2. Len(stack) <= MaxDepth /\ Expects(stack)
    BY <1>2, <1>5 DEF ModeInv, Within
  <2>3. d \in 1..Levels /\ Levels - d <= MaxDepth
    BY <1>2, <2>2, StackDepth, LevelFacts
  <2> HIDE DEF d
  <2>4. v \in Values[d] /\ Accepted[d][v]
    <3>1. 0 \in {0} \cup ToSet(Parsed) /\ 0 # Infinite
      BY DEF Infinite
    <3>2. "string" \in {"null", "number", "string"} /\ ("string" = "number" <=> 0 # 0)
      OBVIOUS
    <3> QED BY <1>2, <2>3, <3>1, <3>2, LeafIsValue
  <2> HIDE DEF v
  <2> QED BY <1>2, <2>1, <2>2, <2>4, CompleteStep DEF d
<1> QED BY <1>3, <1>4, <1>5

LEMMA RefuseStep ==
  ASSUME ParserInv, Refuse
  PROVE  ParserInv'
<1>1. mode' = "refused" /\ stack' = <<>> /\ str' = <<>> /\ value' = Nothing
  BY DEF Refuse
<1>2. GoodStack(<<>>)
  BY LevelFacts DEF GoodStack
<1>3. ModeInv' /\ ValueInv'
  BY <1>1 DEF ModeInv, ValueInv
<1> QED BY <1>1, <1>2, <1>3 DEF ParserInv

LEMMA ReadStep ==
  ASSUME ParserInv, NEW t \in Tokens, Read(t)
  PROVE  ParserInv'
  BY LeafStep, EnterStep, LeaveStep, SeparateStep, ReadCharStep, EndStringStep, RefuseStep DEF Read

LEMMA EndOfTextStep ==
  ASSUME ParserInv, EndOfText
  PROVE  ParserInv'
<1>1. CASE mode = "after" /\ stack = <<>> /\ Goto("done")
  <2>1. value # Nothing
    BY <1>1 DEF ParserInv, ModeInv
  <2> QED BY <1>1, <2>1, GotoStep
<1>2. CASE Refuse
  BY <1>2, RefuseStep
<1> QED BY <1>1, <1>2 DEF EndOfText

----------------------------------------------------------------------------
(* The text of a value. *)

\* Three sequences in a row.
LEMMA ThreeParts ==
  ASSUME NEW S, NEW a \in Seq(S), NEW b \in Seq(S), NEW c \in Seq(S)
  PROVE  /\ a \o b \o c \in Seq(S) /\ Len(a \o b \o c) = Len(a) + Len(b) + Len(c)
         /\ a \o b \o c = a \o (b \o c) /\ <<>> \o a = a /\ a \o <<>> = a
         /\ Len(a) \in Nat /\ Len(b) \in Nat /\ Len(c) \in Nat
<1> DEFINE u == a \o b
           w == b \o c
<1>1. /\ u \in Seq(S) /\ Len(u) = Len(a) + Len(b) /\ Len(a) \in Nat /\ Len(b) \in Nat /\ Len(c) \in Nat
      /\ \A i \in 1..Len(a) : u[i] = a[i]
      /\ \A i \in 1..Len(b) : u[Len(a) + i] = b[i]
  BY Concatenated
<1>2. /\ w \in Seq(S) /\ Len(w) = Len(b) + Len(c)
      /\ \A i \in 1..Len(b) : w[i] = b[i]
      /\ \A i \in 1..Len(c) : w[Len(b) + i] = c[i]
  BY Concatenated
<1> HIDE DEF u, w
<1>3. /\ u \o c \in Seq(S) /\ Len(u \o c) = Len(u) + Len(c)
      /\ \A i \in 1..Len(u) : (u \o c)[i] = u[i]
      /\ \A i \in 1..Len(c) : (u \o c)[Len(u) + i] = c[i]
  <2>1. u \in Seq(S)
    BY <1>1
  <2> QED BY <2>1, Concatenated
<1>4. /\ a \o w \in Seq(S) /\ Len(a \o w) = Len(a) + Len(w)
      /\ \A i \in 1..Len(a) : (a \o w)[i] = a[i]
      /\ \A i \in 1..Len(w) : (a \o w)[Len(a) + i] = w[i]
  <2>1. w \in Seq(S)
    BY <1>2
  <2> QED BY <2>1, Concatenated
<1>5. ASSUME NEW i \in 1..(Len(a) + Len(b) + Len(c)) PROVE (u \o c)[i] = (a \o w)[i]
  <2>1. CASE i \in 1..Len(a)
    BY <1>1, <1>3, <1>4, <2>1
  <2>2. CASE i - Len(a) \in 1..Len(b)
    <3>1. i = Len(a) + (i - Len(a)) /\ i \in 1..Len(u) /\ i - Len(a) \in 1..Len(w)
      BY <1>1, <1>2, <2>2
    <3>2. (u \o c)[i] = u[i] /\ u[i] = b[i - Len(a)]
      BY <1>1, <1>3, <2>2, <3>1
    <3>3. (a \o w)[i] = w[i - Len(a)] /\ w[i - Len(a)] = b[i - Len(a)]
      BY <1>2, <1>4, <2>2, <3>1
    <3> QED BY <3>2, <3>3
  <2>3. CASE i - (Len(a) + Len(b)) \in 1..Len(c)
    <3> DEFINE k == i - (Len(a) + Len(b))
    <3>1. i = Len(u) + k /\ i = Len(a) + (Len(b) + k) /\ Len(b) + k \in 1..Len(w)
      BY <1>1, <1>2, <2>3
    <3>2. k \in 1..Len(c)
      BY <2>3
    <3> HIDE DEF k
    <3>3. (u \o c)[i] = c[k]
      BY <1>3, <3>1, <3>2
    <3>4. (a \o w)[i] = w[Len(b) + k] /\ w[Len(b) + k] = c[k]
      BY <1>2, <1>4, <3>1, <3>2
    <3> QED BY <3>3, <3>4
  <2>4. Len(a) \in Nat /\ Len(b) \in Nat /\ Len(c) \in Nat
    BY <1>1
  <2>5. i \in 1..Len(a) \/ i - Len(a) \in 1..Len(b) \/ i - (Len(a) + Len(b)) \in 1..Len(c)
    BY <2>4
  <2> QED BY <2>1, <2>2, <2>3, <2>5
<1>6. Len(u \o c) = Len(a) + Len(b) + Len(c) /\ Len(a \o w) = Len(a) + Len(b) + Len(c)
  BY <1>1, <1>2, <1>3, <1>4
<1>7. u \o c = a \o w
  BY <1>3, <1>4, <1>5, <1>6, SameSequence
<1>8. <<>> \o a = a /\ a \o <<>> = a
  OBVIOUS
<1> QED BY <1>1, <1>3, <1>6, <1>7, <1>8 DEF u, w

LEMMA TextsRegroup ==
  ASSUME NEW u \in Seq(Tokens), NEW w \in Seq(Tokens), NEW y \in Seq(Tokens)
  PROVE  (u \o w) \o y = u \o (w \o y)
BY ThreeParts

LEMMA MarkIsToken ==
  \A k \in {"array", "endarray", "object", "endobject", "comma", "colon", "quote", "space", "null"} :
    Mark(k) \in Tokens /\ Mark(k).kind = k /\ <<Mark(k)>> \in Seq(Tokens)
<1>1. \A k \in {"array", "endarray", "object", "endobject", "comma", "colon", "quote", "space", "null"} :
        Mark(k) \in Tokens /\ Mark(k).kind = k
  BY DEF Tokens, Mark, Token
<1>2. \A t \in Tokens : <<t>> \in Seq(Tokens)
  OBVIOUS
<1> QED BY <1>1, <1>2

\* A character is written as one token.
LEMMA WriteCharIs ==
  ASSUME NEW c \in Char
  PROVE  /\ WriteChar(c) \in Tokens
         /\ WriteChar(c).kind \in {"raw", "short", "hex"} /\ WriteChar(c).x = c
         /\ WriteChar(c).kind = "raw" => c \notin {Control, Tab}
         /\ WriteChar(c).kind = "short" => c \in {Tab, Quote, Slash}
<1>1. c \in {Control, Tab, Quote, Slash, Letter, Bmp, Astral}
  BY CanonicalAssumption
<1>2. CASE c \in {Tab, Quote}
  <2>1. WriteChar(c) = [kind |-> "short", x |-> c]
    BY <1>2 DEF WriteChar, Token
  <2> QED BY <1>2, <2>1 DEF Tokens, Token
<1>3. CASE c \notin {Tab, Quote} /\ c < Quote
  <2>1. WriteChar(c) = [kind |-> "hex", x |-> c]
    BY <1>3 DEF WriteChar, Token
  <2>2. c # Astral
    BY <1>3 DEF Quote, Astral
  <2> QED BY <2>1, <2>2 DEF Tokens, Token
<1>4. CASE c \notin {Tab, Quote} /\ ~(c < Quote)
  <2>1. WriteChar(c) = [kind |-> "raw", x |-> c]
    BY <1>4 DEF WriteChar, Token
  <2>2. c # Control /\ c # Quote /\ c # Tab
    BY <1>1, <1>4 DEF Quote, Control, Tab
  <2> QED BY <2>1, <2>2 DEF Tokens, Token
<1> QED BY <1>2, <1>3, <1>4

\* The characters of a string are.
Spelt(s) == [i \in DOMAIN s |-> WriteChar(s[i])]

LEMMA SpeltIs ==
  ASSUME NEW s \in Seq(Char)
  PROVE  /\ Spelt(s) \in Seq(Tokens) /\ Len(Spelt(s)) = Len(s) /\ Len(s) \in Nat
         /\ \A i \in 1..Len(s) : Spelt(s)[i] = WriteChar(s[i]) /\ s[i] \in Char
         /\ WriteStr(s) = <<Mark("quote")>> \o Spelt(s) \o <<Mark("quote")>>
         /\ WriteStr(s) \in Seq(Tokens)
<1>1. Len(s) \in Nat /\ DOMAIN s = 1..Len(s) /\ \A i \in 1..Len(s) : s[i] \in Char
  BY PlacesOf
<1> DEFINE m == Len(s)
           t == Spelt(s)
<1>2. DOMAIN t = 1..m /\ t = [i \in 1..m |-> t[i]] /\ \A i \in 1..m : t[i] = WriteChar(s[i])
  BY <1>1 DEF Spelt
<1>3. \A i \in 1..m : t[i] \in Tokens
  BY <1>1, <1>2, WriteCharIs
<1> HIDE DEF t, m
<1>4. m \in Nat
  BY <1>1 DEF m
<1>5. t \in Seq(Tokens) /\ Len(t) = m
  BY <1>2, <1>3, <1>4, MadeOf
<1>6. WriteStr(s) = <<Mark("quote")>> \o t \o <<Mark("quote")>>
  BY DEF WriteStr, Spelt, t
<1>7. <<Mark("quote")>> \o t \o <<Mark("quote")>> \in Seq(Tokens)
  BY <1>5, MarkIsToken, Concatenated
<1> QED BY <1>1, <1>2, <1>5, <1>6, <1>7 DEF t, m

\* The items of v in the order of its text, ...
Item(v, n) == v.items[IF v.kind = "object" THEN Sorted(v.keys)[n] ELSE n]

\* ... and what is written of each.
Part(d, v, n) ==
  (IF n > 1 THEN <<Mark("comma")>> ELSE <<>>)
    \o (IF v.kind = "object" THEN WriteStr(InOrder(v.keys)[n]) \o <<Mark("colon")>> ELSE <<>>)
    \o Written[d - 1][Item(v, n)]

LEMMA ItemIs ==
  ASSUME NEW d \in 0..Levels, NEW v \in Values[d], NEW n \in 1..Len(v.items)
  PROVE  /\ Item(v, n) \in Values[d - 1]
         /\ v.kind = "object" =>
              n \in 1..Len(v.keys) /\ InOrder(v.keys)[n] \in Seq(Char)
<1>1. \A i \in 1..Len(v.items) : v.items[i] \in Values[d - 1]
  BY ValueIs
<1>2. CASE v.kind = "object"
  <2>1. v.keys \in Seq(Seq(Char)) /\ IsInjective(v.keys) /\ Len(v.keys) = Len(v.items)
    BY <1>2, ValueIs
  <2>2. /\ \A i \in 1..Len(v.keys) : Sorted(v.keys)[i] \in 1..Len(v.keys)
        /\ InOrder(v.keys) \in Seq(Seq(Char)) /\ Len(InOrder(v.keys)) = Len(v.keys)
    BY <2>1, InOrderIs
  <2>3. InOrder(v.keys)[n] \in Seq(Char)
    BY <2>1, <2>2, PlacesOf
  <2> QED BY <1>1, <1>2, <2>1, <2>2, <2>3 DEF Item
<1>3. CASE v.kind # "object"
  BY <1>1, <1>3 DEF Item
<1> QED BY <1>2, <1>3

\* The text of an array or object.
Encloses(d, v, f) ==
  /\ f \in [0..Len(v.items) -> Seq(Tokens)]
  /\ f[0] = <<>>
  /\ \A n \in 1..Len(v.items) : Part(d, v, n) \in Seq(Tokens) /\ f[n] = f[n - 1] \o Part(d, v, n)
  /\ Written[d][v] =
       <<Mark(v.kind)>> \o f[Len(v.items)] \o <<Mark(IF v.kind = "array" THEN "endarray" ELSE "endobject")>>

LEMMA TextOfParts ==
  ASSUME NEW d \in 0..Levels, NEW v \in Values[d], v.kind \in {"array", "object"},
         \A w \in Values[d - 1] : Written[d - 1][w] \in Seq(Tokens)
  PROVE  \E f : Encloses(d, v, f)
<1> DEFINE m == Len(v.items)
           K(n) == IF v.kind = "object" THEN WriteStr(InOrder(v.keys)[n]) \o <<Mark("colon")>> ELSE <<>>
           C(n) == IF n > 1 THEN <<Mark("comma")>> ELSE <<>>
           text == Written[d - 1]
           parts == [n \in 1..m |-> K(n) \o text[Item(v, n)]]
           seqs == [n \in 1..m |-> C(n) \o parts[n]]
<1>1. m \in Nat
  BY ValueIs
<1> HIDE DEF m
<1>2. ASSUME NEW n \in 1..m
      PROVE  /\ K(n) \in Seq(Tokens) /\ C(n) \in Seq(Tokens) /\ text[Item(v, n)] \in Seq(Tokens)
             /\ parts[n] \in Seq(Tokens) /\ seqs[n] \in Seq(Tokens) /\ seqs[n] = Part(d, v, n)
  <2>1. n \in 1..Len(v.items)
    BY DEF m
  <2>2. text[Item(v, n)] \in Seq(Tokens)
    BY <2>1, ItemIs
  <2>3. <<>> \in Seq(Tokens) /\ <<Mark("comma")>> \in Seq(Tokens) /\ <<Mark("colon")>> \in Seq(Tokens)
    BY MarkIsToken
  <2>4. K(n) \in Seq(Tokens)
    <3>1. CASE v.kind = "object"
      <4>1. WriteStr(InOrder(v.keys)[n]) \in Seq(Tokens)
        BY <2>1, <3>1, ItemIs, SpeltIs
      <4> QED BY <2>3, <3>1, <4>1, Concatenated
    <3>2. CASE v.kind # "object"
      BY <2>3, <3>2
    <3> QED BY <3>1, <3>2
  <2>5. C(n) \in Seq(Tokens)
    BY <2>3
  <2> HIDE DEF K, C, text
  <2>6. parts[n] = K(n) \o text[Item(v, n)] /\ seqs[n] = C(n) \o parts[n]
    OBVIOUS
  <2> HIDE DEF parts, seqs
  <2>7. parts[n] \in Seq(Tokens) /\ seqs[n] \in Seq(Tokens)
    BY <2>2, <2>4, <2>5, <2>6, Concatenated
  <2>8. Part(d, v, n) = C(n) \o K(n) \o text[Item(v, n)]
    BY DEF Part, C, K, text
  <2>9. C(n) \o K(n) \o text[Item(v, n)] = C(n) \o (K(n) \o text[Item(v, n)])
    <3> DEFINE a == C(n)
               b == K(n)
               c == text[Item(v, n)]
    <3>1. a \in Seq(Tokens) /\ b \in Seq(Tokens) /\ c \in Seq(Tokens)
      BY <2>2, <2>4, <2>5
    <3> HIDE DEF a, b, c
    <3>2. \A x, y, z \in Seq(Tokens) : x \o y \o z = x \o (y \o z)
      BY ThreeParts
    <3>3. a \o b \o c = a \o (b \o c)
      BY <3>1, <3>2
    <3> QED BY <3>3 DEF a, b, c
  <2> QED BY <2>2, <2>4, <2>5, <2>6, <2>7, <2>8, <2>9
<1>3. parts = [n \in 1..m |-> parts[n]] /\ DOMAIN parts = 1..m
      /\ seqs = [n \in 1..m |-> seqs[n]] /\ DOMAIN seqs = 1..m
  OBVIOUS
<1>4. Join(parts) = FlattenSeq(seqs)
  BY DEF Join
<1>5. Written[d][v] = <<Mark(v.kind)>> \o Join(parts)
                      \o <<Mark(IF v.kind = "array" THEN "endarray" ELSE "endobject")>>
  <2>1. Written[d][v] = TextOver(text, v)
    BY WrittenOver
  <2>2. DOMAIN v.items = 1..m
    BY ValueIs DEF m
  <2>3. CASE v.kind = "array"
    <3>1. TextOver(text, v) = <<Mark("array")>> \o Join([n \in DOMAIN v.items |-> text[v.items[n]]])
                              \o <<Mark("endarray")>>
      BY <2>3 DEF TextOver
    <3>2. ASSUME NEW n \in 1..m PROVE parts[n] = text[v.items[n]]
      <4>1. parts[n] = <<>> \o text[v.items[n]]
        BY <2>3 DEF Item
      <4>2. text[v.items[n]] \in Seq(Tokens)
        BY <1>2, <2>3 DEF Item
      <4> HIDE DEF parts, text
      <4> QED BY <4>1, <4>2, ThreeParts
    <3> HIDE DEF parts, text
    <3>3. [n \in DOMAIN v.items |-> text[v.items[n]]] = parts
      BY <1>3, <2>2, <3>2
    <3> QED BY <2>1, <2>3, <3>1, <3>3
  <2>4. CASE v.kind = "object"
    <3> DEFINE o == Sorted(v.keys)
               Member(i) == WriteStr(v.keys[i]) \o <<Mark("colon")>> \o text[v.items[i]]
    <3>1. TextOver(text, v) = <<Mark("object")>> \o Join([n \in DOMAIN o |-> Member(o[n])])
                              \o <<Mark("endobject")>>
      BY <2>4 DEF TextOver
    <3>2. v.keys \in Seq(Seq(Char)) /\ IsInjective(v.keys) /\ Len(v.keys) = m
      BY <2>4, ValueIs DEF m
    <3>3. DOMAIN o = 1..m /\ \A n \in 1..m : InOrder(v.keys)[n] = v.keys[o[n]]
      BY <3>2, InOrderIs
    <3>4. ASSUME NEW n \in 1..m PROVE parts[n] = Member(o[n])
      BY <2>4, <3>3 DEF Item
    <3> HIDE DEF parts, Member, o
    <3>5. [n \in DOMAIN o |-> Member(o[n])] = parts
      BY <1>3, <3>3, <3>4
    <3> QED BY <2>1, <2>4, <3>1, <3>5
  <2> QED BY <2>3, <2>4
<1> HIDE DEF K, C, parts, seqs
<1>6. seqs \in Seq(Seq(Tokens)) /\ Len(seqs) = m
  BY <1>1, <1>2, <1>3, MadeOf
<1>7. PICK f \in [0..m -> Seq(Tokens)] :
        /\ f[0] = <<>> /\ f[m] = FlattenSeq(seqs)
        /\ \A i \in 1..m : f[i] = f[i - 1] \o seqs[i]
  <2>1. \E f \in [0..Len(seqs) -> Seq(Tokens)] :
          /\ f[0] = <<>> /\ f[Len(seqs)] = FlattenSeq(seqs)
          /\ \A i \in 1..Len(seqs) : f[i] = f[i - 1] \o seqs[i]
    BY <1>6, FlattenIs
  <2> QED BY <1>6, <2>1
<1>8. Encloses(d, v, f)
  <2>1. \A n \in 1..m : Part(d, v, n) \in Seq(Tokens) /\ f[n] = f[n - 1] \o Part(d, v, n)
    BY <1>2, <1>7
  <2> QED BY <1>4, <1>5, <1>7, <2>1 DEF Encloses, m
<1> QED BY <1>8

\* What is written is a sequence of tokens, and not empty.
TextTyped(d) == \A v \in Values[d] : Written[d][v] \in Seq(Tokens) /\ Written[d][v] # <<>>

LEMMA TextStep ==
  ASSUME NEW d \in 0..Levels, d # 0, TextTyped(d - 1)
  PROVE  TextTyped(d)
<1>1. SUFFICES ASSUME NEW v \in Values[d]
               PROVE  Written[d][v] \in Seq(Tokens) /\ Written[d][v] # <<>>
  BY DEF TextTyped
<1>2. Written[d][v] = TextOver(Written[d - 1], v)
  BY WrittenOver
<1>3. v.kind \in {"null", "number", "string", "array", "object"}
  BY ValueIs
<1>4. CASE v.kind = "null"
  BY <1>2, <1>4, MarkIsToken DEF TextOver
<1>5. CASE v.kind = "number"
  <2>1. Shortest(v.x) \in DOMAIN Parsed
    BY DEF Shortest, Parsed
  <2>2. Token("number", Shortest(v.x)) \in Tokens
    BY <2>1 DEF Tokens
  <2> QED BY <1>2, <1>5, <2>2 DEF TextOver
<1>6. CASE v.kind = "string"
  <2>1. v.str \in Seq(Char) /\ Written[d][v] = WriteStr(v.str)
    BY <1>2, <1>6, ValueIs DEF TextOver
  <2> DEFINE a == <<Mark("quote")>>
             b == Spelt(v.str)
  <2>2. WriteStr(v.str) \in Seq(Tokens) /\ WriteStr(v.str) = a \o b \o a
        /\ a \in Seq(Tokens) /\ b \in Seq(Tokens) /\ Len(a) = 1
    BY <2>1, SpeltIs, MarkIsToken
  <2> HIDE DEF a, b
  <2>3. Len(a \o b \o a) = (1 + Len(b)) + 1 /\ Len(b) \in Nat
    <3>1. a \in Seq(Tokens) /\ b \in Seq(Tokens)
      BY <2>2
    <3>2. Len(a \o b \o a) = Len(a) + Len(b) + Len(a) /\ Len(b) \in Nat
      BY <3>1, ThreeParts
    <3> QED BY <2>2, <3>2
  <2> QED BY <2>1, <2>2, <2>3
<1>7. CASE v.kind \in {"array", "object"}
  <2>1. PICK f : Encloses(d, v, f)
    BY <1>7, TextOfParts DEF TextTyped
  <2> DEFINE a == <<Mark(v.kind)>>
             b == f[Len(v.items)]
             c == <<Mark(IF v.kind = "array" THEN "endarray" ELSE "endobject")>>
  <2>2. Len(v.items) \in 0..Len(v.items)
    BY ValueIs
  <2>3. Written[d][v] = a \o b \o c /\ b \in Seq(Tokens)
    BY <2>1, <2>2 DEF Encloses
  <2>4. a \in Seq(Tokens) /\ c \in Seq(Tokens) /\ Len(a) = 1 /\ Len(c) = 1
    BY <1>7, MarkIsToken
  <2> HIDE DEF a, b, c
  <2>5. a \o b \o c \in Seq(Tokens) /\ Len(a \o b \o c) = (1 + Len(b)) + 1 /\ Len(b) \in Nat
    <3>1. a \in Seq(Tokens) /\ b \in Seq(Tokens) /\ c \in Seq(Tokens)
      BY <2>3, <2>4
    <3>2. a \o b \o c \in Seq(Tokens) /\ Len(a \o b \o c) = Len(a) + Len(b) + Len(c) /\ Len(b) \in Nat
      BY <3>1, ThreeParts
    <3> QED BY <2>4, <3>2
  <2> QED BY <2>3, <2>5
<1> QED BY <1>3, <1>4, <1>5, <1>6, <1>7

LEMMA TextsAre == \A d \in 0..Levels : TextTyped(d)
<1> DEFINE T == {d \in 0..Levels : TextTyped(d)}
<1>1. 0 \in T
  BY ValuesAre, LevelFacts DEF TextTyped
<1>2. ASSUME NEW d \in 0..(Levels - 1), d \in T PROVE d + 1 \in T
  <2>1. d + 1 \in 0..Levels /\ d + 1 # 0 /\ (d + 1) - 1 = d
    BY LevelFacts
  <2>2. TextTyped((d + 1) - 1)
    BY <1>2, <2>1
  <2> QED BY <2>1, <2>2, TextStep
<1> HIDE DEF T
<1>3. 0..Levels \subseteq T
  BY <1>1, <1>2, LevelFacts, NatUpTo
<1> QED BY <1>3 DEF T

----------------------------------------------------------------------------
(* The parser's and the writer's values. *)

LEMMA StartsInv ==
  ASSUME stack' = <<>>, mode' = "value", str' = <<>>, value' = Nothing
  PROVE  ParserInv'
<1>1. GoodStack(<<>>)
  BY LevelFacts DEF GoodStack
<1>2. ModeInv' /\ ValueInv'
  BY DEF ModeInv, ValueInv, Expects
<1> QED BY <1>1, <1>2 DEF ParserInv

LEMMA InitInv == Init => Inv
<1> SUFFICES ASSUME Init PROVE Inv
  OBVIOUS
<1>1. stack = <<>> /\ mode = "value" /\ str = <<>> /\ value = Nothing
      /\ count = 0 /\ source = <<>> /\ sent = Nothing
  BY DEF Init
<1>2. GoodStack(<<>>)
  BY LevelFacts DEF GoodStack
<1>3. ModeInv /\ ValueInv
  BY <1>1 DEF ModeInv, ValueInv, Expects
<1>4. TextInv
  BY <1>1 DEF TextInv
<1> QED BY <1>1, <1>2, <1>3, <1>4 DEF Inv, ParserInv

LEMMA NextInv == Inv /\ [Next]_vars => Inv'
<1> SUFFICES ASSUME Inv, [Next]_vars PROVE Inv'
  OBVIOUS
<1>1. ParserInv /\ TextInv
  BY DEF Inv
<1>2. CASE Sends
  <2>1. UNCHANGED <<source, sent>>
    BY <1>2 DEF Sends
  <2>2. ParserInv' /\ count' \in Nat
    <3>1. CASE EndOfText /\ UNCHANGED count
      BY <1>1, <3>1, EndOfTextStep DEF TextInv
    <3>2. ASSUME NEW t \in Tokens, Read(t), count' = IF t.kind = "space" THEN count ELSE count + 1
          PROVE  ParserInv' /\ count' \in Nat
      BY <1>1, <3>2, ReadStep DEF TextInv
    <3> QED BY <1>2, <3>1, <3>2 DEF Sends
  <2> QED BY <1>1, <2>1, <2>2 DEF Inv, TextInv
<1>3. CASE Canonicalize
  <2>1. /\ mode = "done" /\ source' = Write(value) /\ sent' = value
        /\ stack' = <<>> /\ mode' = "value" /\ str' = <<>> /\ value' = Nothing /\ count' = 0
    BY <1>3 DEF Canonicalize
  <2>2. value \in Values[Levels] /\ FromValueAccepts(value)
    BY <1>1, <2>1 DEF ParserInv, ModeInv, ValueInv
  <2>3. Write(value) \in Seq(Tokens) /\ Write(value) # <<>>
    BY <2>2, TextsAre, LevelFacts DEF Write, TextTyped
  <2>4. TextInv'
    BY <2>1, <2>2, <2>3 DEF TextInv, FromValueAccepts
  <2> QED BY <2>1, <2>4, StartsInv DEF Inv
<1>4. CASE Rereads
  <2>1. UNCHANGED <<source, sent>>
    BY <1>4 DEF Rereads
  <2>2. source \in Seq(Tokens) /\ count \in Nat
    BY <1>1 DEF TextInv
  <2>3. CASE count < Len(source) /\ Read(source[count + 1]) /\ count' = count + 1
    <3>1. source[count + 1] \in Tokens
      BY <2>2, <2>3
    <3>2. ParserInv'
      BY <1>1, <2>3, <3>1, ReadStep
    <3> QED BY <1>1, <2>1, <2>2, <2>3, <3>2 DEF Inv, TextInv
  <2>4. CASE EndOfText /\ UNCHANGED count
    BY <1>1, <2>1, <2>4, EndOfTextStep DEF Inv, TextInv
  <2> QED BY <1>4, <2>3, <2>4 DEF Rereads
<1>5. CASE UNCHANGED vars
  BY <1>1, <1>5 DEF Inv, ParserInv, ModeInv, ValueInv, TextInv, vars, parser, In, IsKey
<1> QED BY <1>2, <1>3, <1>4, <1>5 DEF Next

LEMMA InvType == Inv => TypeOK
<1> SUFFICES ASSUME Inv PROVE TypeOK
  OBVIOUS
<1>1. GoodStack(stack) /\ ValueInv /\ TextInv
  BY DEF Inv, ParserInv
<1>2. {value, sent} \subseteq {Nothing} \cup Values[Levels]
  BY <1>1 DEF ValueInv, TextInv
<1>3. Len(stack) <= Levels /\ DOMAIN stack = 1..Len(stack)
  BY <1>1, StackDepth, LevelFacts
<1>4. ASSUME NEW i \in DOMAIN stack PROVE Frame(i, stack[i])
  BY <1>1, <1>3 DEF GoodStack
<1>5. \A i \in DOMAIN stack : LET v == stack[i] IN
        /\ v \in Open(Levels - i)
        /\ IF v.kind = "object"
           THEN IsInjective(v.keys) /\ Len(v.keys) \in {Len(v.items), Len(v.items) + 1}
           ELSE v.keys = <<>>
  BY <1>4 DEF Frame
<1>6. /\ mode \in {"value", "first", "key", "firstkey", "colon", "after", "string", "low",
                   "done", "refused"}
      /\ str \in Seq(Char) /\ source \in Seq(Tokens) /\ count \in Nat
  BY <1>1 DEF Inv, ParserInv, TextInv
<1> QED BY <1>2, <1>3, <1>5, <1>6 DEF TypeOK

LEMMA InvEntries == Inv => EntriesAgree
<1> SUFFICES ASSUME Inv, mode = "done"
             PROVE  FromValueAccepts(value) /\ Write(Reordered(value)) = Write(value)
  BY DEF EntriesAgree
<1>1. value \in Values[Levels] /\ FromValueAccepts(value)
  BY DEF Inv, ParserInv, ModeInv, ValueInv
<1>2. Written[Levels][Reversed[Levels][value]] = Written[Levels][value]
  BY <1>1, ReversedValues, LevelFacts DEF ReversedAlike
<1> QED BY <1>1, <1>2 DEF Write, Reordered

\* What the parser holds is well formed wherever it stands, what it has accepted is a
\* value that from_value accepts, and a text that is parsed again was written of one
\* (Parser::value, from_value, write).
THEOREM Invariance == Spec => []Inv
BY InitInv, NextInv, PTL DEF Spec

\* Whatever a client sends, of any length and to any depth, every array and object the
\* parser is in holds well-formed values and keys that differ, and what it has
\* accepted is a well-formed value (Parser::value, Parser::string).
THEOREM CanonicalTypeOK == Spec => []TypeOK
BY Invariance, InvType, PTL

\* canonicalize and canonicalize_str agree: a value that the strict parser accepts is
\* accepted by from_value, and is written alike in whatever order the members
\* come.
THEOREM WaysInAgree == Spec => []EntriesAgree
BY Invariance, InvEntries, PTL

----------------------------------------------------------------------------
(* Reading a canonical text. *)

\* The parser's variables, and those of one that has just completed v.
At(s, m, k, v) == [stack |-> s, mode |-> m, str |-> k, value |-> v]

Holds(open, v) == InLast(open, [Last(open) EXCEPT !.items = Append(@, v)])

Has(open, x, v) ==
  IF open = <<>> THEN At(<<>>, "after", <<>>, v) ELSE At(Holds(open, v), "after", <<>>, x)

Begins(p) == p.mode \in {"value", "first"} /\ Within(Len(p.stack))

IsIn(p, kind) == p.stack # <<>> /\ Last(p.stack).kind = kind

AtKey(p) == IsIn(p, "object") /\ Len(Last(p.stack).keys) = Len(Last(p.stack).items)

\* How the parser moves, with the tokens a canonical text is made of.
Moves(p, t, q) ==
  \/ t.kind = "null" /\ Begins(p) /\ q = Has(p.stack, p.value, Value("null", 0, <<>>))
  \/ /\ t.kind = "number" /\ Begins(p) /\ Parsed[t.x] # Infinite
     /\ q = Has(p.stack, p.value, Value("number", Parsed[t.x], <<>>))
  \/ /\ t.kind \in {"array", "object"} /\ Begins(p)
     /\ q = At(Append(p.stack, Value(t.kind, 0, <<>>)),
               IF t.kind = "array" THEN "first" ELSE "firstkey", p.str, p.value)
  \/ /\ \/ t.kind = "endarray" /\ IsIn(p, "array") /\ p.mode \in {"first", "after"}
        \/ t.kind = "endobject" /\ IsIn(p, "object") /\ p.mode \in {"firstkey", "after"}
     /\ q = Has(Front(p.stack), p.value, Last(p.stack))
  \/ /\ t.kind = "comma" /\ p.mode = "after" /\ p.stack # <<>>
     /\ q = [p EXCEPT !.mode = IF IsIn(p, "object") THEN "key" ELSE "value"]
  \/ t.kind = "colon" /\ p.mode = "colon" /\ q = [p EXCEPT !.mode = "value"]
  \/ \E c \in Char : t = WriteChar(c) /\ p.mode = "string" /\ q = [p EXCEPT !.str = Append(@, c)]
  \/ /\ t.kind = "quote" /\ p.mode # "string"
     /\ Begins(p) \/ p.mode \in {"key", "firstkey"}
     /\ q = [p EXCEPT !.mode = "string"]
  \/ /\ t.kind = "quote" /\ p.mode = "string" /\ AtKey(p)
     /\ p.str \notin ToSet(Last(p.stack).keys)
     /\ q = At(InLast(p.stack, [Last(p.stack) EXCEPT !.keys = Append(@, p.str)]), "colon", <<>>, p.value)
  \/ /\ t.kind = "quote" /\ p.mode = "string" /\ ~AtKey(p)
     /\ q = Has(p.stack, p.value, Value("string", 0, p.str))

Variables == At(stack, mode, str, value)

\* That is what the parser does.
LEMMA CompleteIs ==
  ASSUME NEW v, NEW open, Complete(v, open)
  PROVE  Variables' = Has(open, value, v)
<1>1. mode' = "after" /\ str' = <<>>
  BY DEF Complete
<1>2. CASE open = <<>>
  BY <1>1, <1>2 DEF Complete, Variables, Has
<1>3. CASE open # <<>>
  <2>1. stack' = Holds(open, v) /\ value' = value
    BY <1>3 DEF Complete, Holds
  <2> QED BY <1>1, <1>3, <2>1 DEF Variables, Has
<1> QED BY <1>2, <1>3

LEMMA MovesIs ==
  ASSUME NEW t \in Tokens, NEW q, Moves(Variables, t, q), Read(t)
  PROVE  Variables' = q
<1> DEFINE p == Variables
<1>1. p.stack = stack /\ p.mode = mode /\ p.str = str /\ p.value = value
  BY DEF Variables, At
<1>2. /\ Begins(p) <=> AtValue
      /\ AtKey(p) <=> IsKey
      /\ \A kind : IsIn(p, kind) <=> In(kind)
  BY <1>1 DEF Begins, AtValue, AtKey, IsKey, IsIn, In
<1>3. p = [stack |-> stack, mode |-> mode, str |-> str, value |-> value]
  BY DEF Variables, At
<1> HIDE DEF p
<1>4. CASE t.kind = "null" /\ Begins(p) /\ q = Has(stack, value, Value("null", 0, <<>>))
  <2>1. Fits(t)
    BY <1>2, <1>4 DEF Fits
  <2>2. Complete(Value("null", 0, <<>>), stack)
    BY <1>4, <2>1 DEF Read, Leaf, Enter, Leave, Separate, ReadChar, EndString
  <2> QED BY <1>4, <2>2, CompleteIs
<1>5. CASE /\ t.kind = "number" /\ Begins(p) /\ Parsed[t.x] # Infinite
           /\ q = Has(stack, value, Value("number", Parsed[t.x], <<>>))
  <2>1. Fits(t)
    BY <1>2, <1>5 DEF Fits
  <2>2. Complete(Value("number", Parsed[t.x], <<>>), stack)
    BY <1>5, <2>1 DEF Read, Leaf, Enter, Leave, Separate, ReadChar, EndString
  <2> QED BY <1>5, <2>2, CompleteIs
<1>6. CASE /\ t.kind \in {"array", "object"} /\ Begins(p)
           /\ q = At(Append(stack, Value(t.kind, 0, <<>>)),
                     IF t.kind = "array" THEN "first" ELSE "firstkey", str, value)
  <2>1. Fits(t)
    BY <1>2, <1>6 DEF Fits
  <2>2. Enter(t)
    BY <1>6, <2>1 DEF Read, Leaf, Leave, Separate, ReadChar, EndString
  <2> QED BY <1>6, <2>2 DEF Enter, Variables, At
<1>7. CASE /\ \/ t.kind = "endarray" /\ IsIn(p, "array") /\ mode \in {"first", "after"}
              \/ t.kind = "endobject" /\ IsIn(p, "object") /\ mode \in {"firstkey", "after"}
           /\ q = Has(Front(stack), value, Last(stack))
  <2>1. Fits(t)
    BY <1>2, <1>7 DEF Fits
  <2>2. Complete(Last(stack), Front(stack))
    BY <1>7, <2>1 DEF Read, Leaf, Enter, Leave, Separate, ReadChar, EndString
  <2> QED BY <1>7, <2>2, CompleteIs
<1>8. CASE /\ t.kind = "comma" /\ mode = "after" /\ stack # <<>>
           /\ q = [p EXCEPT !.mode = IF IsIn(p, "object") THEN "key" ELSE "value"]
  <2>1. Fits(t)
    BY <1>8 DEF Fits
  <2>2. Goto(IF In("object") THEN "key" ELSE "value")
    BY <1>8, <2>1 DEF Read, Leaf, Enter, Leave, Separate, ReadChar, EndString
  <2>3. q = At(stack, IF In("object") THEN "key" ELSE "value", str, value)
    BY <1>2, <1>3, <1>8 DEF At
  <2> QED BY <2>2, <2>3 DEF Goto, Variables
<1>9. CASE t.kind = "colon" /\ mode = "colon" /\ q = [p EXCEPT !.mode = "value"]
  <2>1. Fits(t)
    BY <1>9 DEF Fits
  <2>2. Goto("value")
    BY <1>9, <2>1 DEF Read, Leaf, Enter, Leave, Separate, ReadChar, EndString
  <2>3. q = At(stack, "value", str, value)
    BY <1>3, <1>9 DEF At
  <2> QED BY <2>2, <2>3 DEF Goto, Variables
<1>10. ASSUME NEW c \in Char, t = WriteChar(c), mode = "string", q = [p EXCEPT !.str = Append(@, c)]
       PROVE  Variables' = q
  <2>1. /\ t.kind \in {"raw", "short", "hex"} /\ t.x = c
        /\ t.kind = "raw" => c \notin {Control, Tab}
        /\ t.kind = "short" => c \in {Tab, Quote, Slash}
    BY <1>10, WriteCharIs
  <2>2. c # High /\ c # Low
    BY CharIs
  <2>3. FitsString(t)
    BY <1>10, <2>1, <2>2 DEF FitsString
  <2>4. Fits(t)
    BY <2>1, <2>3 DEF Fits
  <2>5. ReadChar(t)
    BY <2>1, <2>4 DEF Read, Leaf, Enter, Leave, Separate, EndString
  <2>6. mode' = "string" /\ str' = Append(str, c) /\ UNCHANGED <<stack, value>>
    BY <2>1, <2>2, <2>5 DEF ReadChar
  <2>7. q = At(stack, "string", Append(str, c), value)
    <3> DEFINE more == Append(str, c)
    <3>1. q = [p EXCEPT !.str = more]
      BY <1>1, <1>10
    <3> HIDE DEF more
    <3>2. q = At(stack, "string", more, value)
      BY <1>3, <1>10, <3>1 DEF At
    <3> QED BY <3>2 DEF more
  <2> QED BY <2>6, <2>7 DEF Variables
<1>11. CASE /\ t.kind = "quote" /\ mode # "string"
            /\ Begins(p) \/ mode \in {"key", "firstkey"}
            /\ q = [p EXCEPT !.mode = "string"]
  <2>1. Fits(t)
    BY <1>2, <1>11 DEF Fits
  <2>2. Goto("string")
    BY <1>11, <2>1 DEF Read, Leaf, Enter, Leave, Separate, ReadChar, EndString
  <2>3. q = At(stack, "string", str, value)
    BY <1>3, <1>11 DEF At
  <2> QED BY <2>2, <2>3 DEF Goto, Variables
<1>12. CASE /\ t.kind = "quote" /\ mode = "string" /\ AtKey(p)
            /\ str \notin ToSet(Last(stack).keys)
            /\ q = At(InLast(stack, [Last(stack) EXCEPT !.keys = Append(@, str)]), "colon", <<>>, value)
  <2>1. Fits(t)
    BY <1>12 DEF Fits, IsFresh
  <2>2. EndString(t)
    BY <1>12, <2>1 DEF Read, Leaf, Enter, Leave, Separate, ReadChar
  <2> DEFINE u == InLast(stack, [Last(stack) EXCEPT !.keys = Append(@, str)])
  <2>3. stack' = u /\ mode' = "colon" /\ str' = <<>> /\ value' = value
    BY <1>2, <1>12, <2>2 DEF EndString
  <2>4. q = At(u, "colon", <<>>, value)
    BY <1>12
  <2> HIDE DEF u
  <2> QED BY <2>3, <2>4 DEF Variables
<1>13. CASE /\ t.kind = "quote" /\ mode = "string" /\ ~AtKey(p)
            /\ q = Has(stack, value, Value("string", 0, str))
  <2>1. Fits(t)
    BY <1>2, <1>13 DEF Fits
  <2>2. Complete(Value("string", 0, str), stack)
    BY <1>2, <1>13, <2>1 DEF Read, Leaf, Enter, Leave, Separate, ReadChar, EndString
  <2> QED BY <1>13, <2>2, CompleteIs
<1>14. Moves(p, t, q)
  BY DEF p
<1> QED BY <1>1, <1>4, <1>5, <1>6, <1>7, <1>8, <1>9, <1>10, <1>11, <1>12, <1>13, <1>14 DEF Moves

\* Between the tokens of a canonical text: the keys so far ascend.
KeysUp(s) == \A i \in DOMAIN s : Ascending(s[i].keys, Order)

Fine(p) == KeysUp(p.stack) /\ p.mode \notin {"done", "refused"}

\* From p to q, with the tokens of w.
Run(run, p, w, q) ==
  /\ run[0] = p /\ run[Len(w)] = q
  /\ \A k \in 0..Len(w) : Fine(run[k])
  /\ \A k \in 1..Len(w) : Moves(run[k - 1], w[k], run[k])

Reads(p, w, q) == \E run : Run(run, p, w, q)

LEMMA ReadsNothing ==
  ASSUME NEW p, Fine(p)
  PROVE  Reads(p, <<>>, p)
<1> DEFINE run == [k \in 0..0 |-> p]
<1>1. Run(run, p, <<>>, p)
  BY DEF Run
<1> QED BY <1>1 DEF Reads

LEMMA ReadsOne ==
  ASSUME NEW p, NEW q, NEW t, Fine(p), Fine(q), Moves(p, t, q)
  PROVE  Reads(p, <<t>>, q)
<1> DEFINE run == [k \in 0..1 |-> IF k = 0 THEN p ELSE q]
<1>1. run[0] = p /\ run[1] = q
  OBVIOUS
<1>2. Len(<<t>>) = 1 /\ <<t>>[1] = t
  OBVIOUS
<1> HIDE DEF run
<1>3. \A k \in 0..1 : Fine(run[k])
  <2>1. \A k \in 0..1 : k = 0 \/ k = 1
    OBVIOUS
  <2> QED BY <1>1, <2>1
<1>4. \A k \in 1..1 : Moves(run[k - 1], <<t>>[k], run[k])
  <2>1. \A k \in 1..1 : k = 1 /\ k - 1 = 0
    OBVIOUS
  <2> QED BY <1>1, <1>2, <2>1
<1>5. Run(run, p, <<t>>, q)
  BY <1>1, <1>2, <1>3, <1>4 DEF Run
<1> QED BY <1>5 DEF Reads

LEMMA ReadsThen ==
  ASSUME NEW S, NEW u \in Seq(S), NEW w \in Seq(S), NEW p, NEW q, NEW r,
         Reads(p, u, q), Reads(q, w, r)
  PROVE  Reads(p, u \o w, r)
<1> DEFINE m == Len(u)
           n == Len(w)
           x == u \o w
<1>1. /\ m \in Nat /\ n \in Nat /\ Len(x) = m + n
      /\ \A i \in 1..m : x[i] = u[i]
      /\ \A i \in 1..n : x[m + i] = w[i]
  BY Concatenated
<1>2. PICK f : Run(f, p, u, q)
  BY DEF Reads
<1>3. PICK g : Run(g, q, w, r)
  BY DEF Reads
<1> DEFINE h == [k \in 0..(m + n) |-> IF k <= m THEN f[k] ELSE g[k - m]]
<1>4. /\ f[0] = p /\ f[m] = q /\ \A k \in 0..m : Fine(f[k])
      /\ \A k \in 1..m : Moves(f[k - 1], u[k], f[k])
  BY <1>2 DEF Run
<1>5. /\ g[0] = q /\ g[n] = r /\ \A k \in 0..n : Fine(g[k])
      /\ \A k \in 1..n : Moves(g[k - 1], w[k], g[k])
  BY <1>3 DEF Run
<1> HIDE DEF m, n, x
<1>6. \A k \in 0..m : h[k] = f[k]
  BY <1>1
<1>7. \A k \in 0..n : h[m + k] = g[k]
  <2>1. ASSUME NEW k \in 0..n PROVE h[m + k] = g[k]
    <3>1. m + k \in 0..(m + n) /\ (m + k) - m = k /\ (m + k <= m => k = 0 /\ m + k = m)
      BY <1>1
    <3> QED BY <1>4, <1>5, <3>1
  <2> QED BY <2>1
<1> HIDE DEF h
<1>8. h[0] = p /\ h[m + n] = r
  <2>1. 0 \in 0..m /\ n \in 0..n
    BY <1>1
  <2> QED BY <1>4, <1>5, <1>6, <1>7, <2>1
<1>9. \A k \in 0..(m + n) : k \in 0..m \/ (k - m \in 0..n /\ k = m + (k - m))
  BY <1>1
<1>10. \A k \in 0..(m + n) : Fine(h[k])
  BY <1>4, <1>5, <1>6, <1>7, <1>9
<1>11. ASSUME NEW k \in 1..(m + n) PROVE Moves(h[k - 1], x[k], h[k])
  <2>1. CASE k \in 1..m
    <3>1. k \in 0..m /\ k - 1 \in 0..m
      BY <1>1, <2>1
    <3> QED BY <1>1, <1>4, <1>6, <2>1, <3>1
  <2>2. CASE k \notin 1..m
    <3> DEFINE i == k - m
    <3>1. i \in 1..n /\ i \in 0..n /\ i - 1 \in 0..n /\ k = m + i /\ k - 1 = m + (i - 1)
      BY <1>1, <2>2
    <3> HIDE DEF i
    <3>2. x[k] = w[i] /\ h[k] = g[i] /\ h[k - 1] = g[i - 1]
      BY <1>1, <1>7, <3>1
    <3>3. Moves(g[i - 1], w[i], g[i])
      BY <1>5, <3>1
    <3> QED BY <3>2, <3>3
  <2> QED BY <2>1, <2>2
<1>12. Run(h, p, x, r)
  BY <1>1, <1>8, <1>10, <1>11 DEF Run
<1> QED BY <1>12 DEF Reads, x

\* The last one of a stack.
LEMMA TopIs ==
  ASSUME NEW S, NEW s \in Seq(S), NEW e \in S
  PROVE  LET t == Append(s, e)
         IN /\ t # <<>> /\ Last(t) = e /\ Front(t) = s
            /\ \A g : InLast(t, g) = Append(s, g)
            /\ DOMAIN t = 1..(Len(s) + 1) /\ \A i \in 1..Len(s) : t[i] = s[i] /\ i \in DOMAIN s
            /\ t[Len(s) + 1] = e /\ t \in Seq(S) /\ Len(t) = Len(s) + 1 /\ Len(s) \in Nat
<1> DEFINE t == Append(s, e)
<1>1. /\ t \in Seq(S) /\ Len(t) = Len(s) + 1 /\ t[Len(s) + 1] = e
      /\ \A i \in 1..Len(s) : t[i] = s[i]
  BY AppendIs
<1>2. Len(s) \in Nat /\ DOMAIN s = 1..Len(s)
  BY PlacesOf
<1> HIDE DEF t
<1>3. t # <<>> /\ Last(t) = e
  BY <1>1, <1>2 DEF Last
<1>4. DOMAIN t = 1..(Len(s) + 1)
  BY <1>1, PlacesOf
<1>5. Front(t) = s
  <2>1. /\ Front(t) \in Seq(S) /\ Len(Front(t)) = Len(t) - 1
        /\ \A i \in 1..(Len(t) - 1) : Front(t)[i] = t[i]
    BY <1>1, <1>3, LastOf
  <2>2. Len(Front(t)) = Len(s) /\ \A i \in 1..Len(s) : Front(t)[i] = s[i]
    BY <1>1, <1>2, <2>1
  <2> QED BY <2>1, <2>2, SameSequence
<1>6. \A g : InLast(t, g) = Append(s, g)
  BY <1>5 DEF InLast
<1> QED BY <1>1, <1>2, <1>3, <1>4, <1>5, <1>6 DEF t

\* The characters of a string, ...
LEMMA SpeltAppend ==
  ASSUME NEW s \in Seq(Char), NEW c \in Char
  PROVE  Spelt(Append(s, c)) = Spelt(s) \o <<WriteChar(c)>>
<1> DEFINE u == Append(s, c)
           w == <<WriteChar(c)>>
           n == Len(s)
<1>1. /\ u \in Seq(Char) /\ Len(u) = n + 1 /\ u[n + 1] = c /\ \A i \in 1..n : u[i] = s[i]
  BY AppendIs
<1>2. Spelt(s) \in Seq(Tokens) /\ Len(Spelt(s)) = n /\ n \in Nat /\ \A i \in 1..n : Spelt(s)[i] = WriteChar(s[i])
  BY SpeltIs
<1> HIDE DEF u
<1>3. /\ Spelt(u) \in Seq(Tokens) /\ Len(Spelt(u)) = Len(u)
      /\ \A i \in 1..Len(u) : Spelt(u)[i] = WriteChar(u[i])
  BY <1>1, SpeltIs
<1>4. w \in Seq(Tokens) /\ Len(w) = 1 /\ w[1] = WriteChar(c)
  BY WriteCharIs
<1> HIDE DEF w, n
<1> DEFINE a == Spelt(s)
           b == Spelt(u)
<1> HIDE DEF a, b
<1>5. a \in Seq(Tokens) /\ b \in Seq(Tokens)
  BY <1>2, <1>3 DEF a, b
<1>6. /\ a \o w \in Seq(Tokens) /\ Len(a \o w) = Len(a) + Len(w)
      /\ \A i \in 1..Len(a) : (a \o w)[i] = a[i]
      /\ \A i \in 1..Len(w) : (a \o w)[Len(a) + i] = w[i]
  <2>1. \A x \in Seq(Tokens) :
          /\ a \o x \in Seq(Tokens) /\ Len(a \o x) = Len(a) + Len(x)
          /\ \A i \in 1..Len(a) : (a \o x)[i] = a[i]
          /\ \A i \in 1..Len(x) : (a \o x)[Len(a) + i] = x[i]
    BY <1>5, Concatenated
  <2> QED BY <1>4, <2>1
<1>7. Len(a) = n /\ Len(b) = n + 1
  BY <1>1, <1>2, <1>3 DEF a, b
<1>8. ASSUME NEW i \in 1..(n + 1) PROVE b[i] = (a \o w)[i]
  <2>1. CASE i = n + 1
    <3>1. b[i] = WriteChar(c)
      BY <1>1, <1>3, <2>1 DEF b
    <3>2. (a \o w)[n + 1] = w[1]
      BY <1>4, <1>6, <1>7
    <3> QED BY <1>4, <2>1, <3>1, <3>2
  <2>2. CASE i # n + 1
    <3>1. i \in 1..n
      BY <1>2, <2>2
    <3> QED BY <1>1, <1>2, <1>3, <1>6, <1>7, <3>1 DEF a, b
  <2> QED BY <2>1, <2>2
<1>9. b = a \o w
  BY <1>4, <1>5, <1>6, <1>7, <1>8, SameSequence
<1> QED BY <1>9 DEF a, b, u, w

LEMMA ReadsChars ==
  ASSUME NEW s \in Seq(Char), NEW open, KeysUp(open), NEW x
  PROVE  Reads(At(open, "string", <<>>, x), Spelt(s), At(open, "string", s, x))
<1> DEFINE n == Len(s)
           p == At(open, "string", <<>>, x)
           Q(k) == At(open, "string", SubSeq(s, 1, k), x)
           T == {k \in 0..n : Reads(p, Spelt(SubSeq(s, 1, k)), Q(k))}
<1>1. n \in Nat
  BY PlacesOf
<1>2. ASSUME NEW k PROVE Fine(Q(k))
  BY DEF Fine, At
<1>3. 0 \in T
  <2>1. SubSeq(s, 1, 0) = <<>>
    BY Beginning, <1>1
  <2>2. Spelt(<<>>) = <<>>
    BY DEF Spelt
  <2>3. Q(0) = p
    BY <2>1
  <2> HIDE DEF p, Q
  <2>4. Reads(p, <<>>, p)
    BY <1>2, <2>3, ReadsNothing
  <2>5. Reads(p, Spelt(SubSeq(s, 1, 0)), Q(0))
    BY <2>1, <2>2, <2>3, <2>4, Zenon
  <2> QED BY <1>1, <2>5
<1>4. ASSUME NEW k \in 0..(n - 1), k \in T PROVE k + 1 \in T
  <2> DEFINE u == SubSeq(s, 1, k)
             c == s[k + 1]
  <2>1. k \in 0..n /\ k + 1 \in 0..n /\ k < n
    BY <1>1
  <2>2. u \in Seq(Char) /\ c \in Char /\ SubSeq(s, 1, k + 1) = Append(u, c)
    BY <2>1, Beginning
  <2>3. Reads(p, Spelt(u), Q(k))
    BY <1>4
  <2>4. Fine(Q(k)) /\ Fine(Q(k + 1))
    BY <1>2
  <2>5. Q(k) = At(open, "string", u, x) /\ Q(k + 1) = At(open, "string", Append(u, c), x)
    BY <2>2
  <2> HIDE DEF u, c, p, Q
  <2>6. Moves(Q(k), WriteChar(c), Q(k + 1))
    <3> DEFINE more == Append(u, c)
    <3>1. Q(k).mode = "string" /\ Q(k).str = u
      BY <2>5 DEF At
    <3> HIDE DEF more
    <3>2. At(open, "string", more, x) = [At(open, "string", u, x) EXCEPT !.str = more]
      BY DEF At
    <3>3. Q(k + 1) = [Q(k) EXCEPT !.str = more]
      BY <2>5, <3>2, Zenon DEF more
    <3>4. Q(k + 1) = [Q(k) EXCEPT !.str = Append(@, c)]
      BY <3>1, <3>3 DEF more
    <3> QED BY <2>2, <3>1, <3>4 DEF Moves
  <2>7. Reads(Q(k), <<WriteChar(c)>>, Q(k + 1))
    BY <2>4, <2>6, ReadsOne
  <2>8. Spelt(u) \in Seq(Tokens) /\ <<WriteChar(c)>> \in Seq(Tokens)
    BY <2>2, SpeltIs, WriteCharIs
  <2>9. Reads(p, Spelt(u) \o <<WriteChar(c)>>, Q(k + 1))
    BY <2>3, <2>7, <2>8, ReadsThen
  <2>10. Spelt(u) \o <<WriteChar(c)>> = Spelt(SubSeq(s, 1, k + 1))
    BY <2>2, SpeltAppend
  <2> QED BY <2>1, <2>9, <2>10
<1> HIDE DEF T
<1>5. n \in T
  <2>1. 0..n \subseteq T
    BY <1>1, <1>3, <1>4, NatUpTo
  <2> QED BY <1>1, <2>1
<1>6. SubSeq(s, 1, n) = s
  BY Beginning, <1>1
<1> QED BY <1>5, <1>6 DEF T

\* ... and all of it.
LEMMA ReadsString ==
  ASSUME NEW s \in Seq(Char), NEW open, KeysUp(open), NEW x, NEW m, NEW q,
         m \in {"value", "first", "key", "firstkey"},
         m \in {"value", "first"} => Within(Len(open)),
         Moves(At(open, "string", s, x), Mark("quote"), q), Fine(q)
  PROVE  Reads(At(open, m, <<>>, x), WriteStr(s), q)
<1> DEFINE p == At(open, m, <<>>, x)
           p1 == At(open, "string", <<>>, x)
           p2 == At(open, "string", s, x)
           t == Mark("quote")
<1>1. Fine(p) /\ Fine(p1) /\ Fine(p2)
  BY DEF Fine, At
<1>2. t.kind = "quote" /\ <<t>> \in Seq(Tokens)
  BY MarkIsToken
<1>3. Moves(p, t, p1)
  <2>1. p.mode = m /\ p.stack = open /\ p1 = [p EXCEPT !.mode = "string"]
    BY DEF At
  <2> HIDE DEF p, p1, t
  <2> QED BY <1>2, <2>1 DEF Moves, Begins
<1>4. Reads(p1, Spelt(s), p2)
  BY ReadsChars
<1> HIDE DEF p, p1, p2, t
<1>5. Reads(p, <<t>>, p1)
  BY <1>1, <1>3, ReadsOne
<1>6. Moves(p2, t, q)
  BY DEF p2, t
<1>7. Reads(p2, <<t>>, q)
  BY <1>1, <1>6, ReadsOne
<1>8. Spelt(s) \in Seq(Tokens) /\ WriteStr(s) = <<t>> \o Spelt(s) \o <<t>>
  BY SpeltIs DEF t
<1>9. Reads(p, <<t>> \o Spelt(s), p2)
  BY <1>2, <1>4, <1>5, <1>8, ReadsThen
<1>10. <<t>> \o Spelt(s) \in Seq(Tokens)
  BY <1>2, <1>8, Concatenated
<1>11. Reads(p, (<<t>> \o Spelt(s)) \o <<t>>, q)
  BY <1>2, <1>7, <1>9, <1>10, ReadsThen
<1> QED BY <1>8, <1>11 DEF p

\* A canonical value without items is the value, without -0.
LEMMA CanonLeaf ==
  ASSUME NEW d \in 0..Levels, NEW v \in Values[d], v.kind \notin {"array", "object"}
  PROVE  Canon[d][v] = Value(v.kind, IF v.x = MinusZero THEN Zero ELSE v.x, v.str)
<1> DEFINE c == Canon[d][v]
           x == IF v.x = MinusZero THEN Zero ELSE v.x
<1>1. v.items = <<>> /\ v.kind # "object"
  BY ValueIs
<1>2. /\ c = [kind |-> v.kind, x |-> x, str |-> v.str, keys |-> c.keys, items |-> c.items]
      /\ c.keys = <<>> /\ DOMAIN c.items = 1..Len(v.items)
      /\ c.items = [n \in 1..Len(v.items) |-> c.items[n]]
  BY <1>1, CanonParts
<1> HIDE DEF c, x
<1>3. c.items = <<>>
  <2>1. 1..Len(v.items) = {}
    BY <1>1
  <2> DEFINE e == c.items
  <2>2. e = [n \in {} |-> e[n]]
    BY <1>2, <2>1
  <2> HIDE DEF e
  <2>3. e = <<>>
    BY <2>2
  <2> QED BY <2>3 DEF e
<1>4. c = [kind |-> v.kind, x |-> x, str |-> v.str, keys |-> <<>>, items |-> <<>>]
  BY <1>2, <1>3
<1> QED BY <1>4 DEF Value, c, x

\* An array or object of which j keys and k items have been read.
Begun(c, j, k) ==
  [kind |-> c.kind, x |-> 0, str |-> <<>>,
   keys |-> IF c.kind = "object" THEN SubSeq(c.keys, 1, j) ELSE <<>>, items |-> SubSeq(c.items, 1, k)]

\* The parts of a canonical array or object.
Compound(d, v, c) ==
  /\ c.kind = v.kind /\ c.kind \in {"array", "object"} /\ c.x = 0 /\ c.str = <<>>
  /\ c.keys \in Seq(Seq(Char)) /\ c.items \in Seq(Values[d - 1])
  /\ c.kind # "object" => c.keys = <<>>
  /\ c.kind = "object" => /\ Len(c.keys) = Len(c.items) /\ c.keys = InOrder(v.keys)
                          /\ Ascending(c.keys, Order) /\ IsInjective(c.keys)
  /\ c = [kind |-> c.kind, x |-> 0, str |-> <<>>, keys |-> c.keys, items |-> c.items]
  /\ Len(c.items) = Len(v.items) /\ Len(c.items) \in Nat
  /\ \A n \in 1..Len(c.items) : c.items[n] = Canon[d - 1][Item(v, n)]

LEMMA CompoundIs ==
  ASSUME NEW d \in 0..Levels, NEW v \in Values[d], v.kind \in {"array", "object"}
  PROVE  Compound(d, v, Canon[d][v])
<1> DEFINE c == Canon[d][v]
           m == Len(v.items)
<1>1. c \in Values[d]
  BY CanonValues DEF CanonAlike
<1>2. /\ c.kind = v.kind
      /\ m \in Nat /\ DOMAIN c.items = 1..m
      /\ v.kind = "object" => /\ c.keys = InOrder(v.keys)
                         /\ \A n \in 1..m : c.items[n] = Canon[d - 1][v.items[Sorted(v.keys)[n]]]
      /\ v.kind # "object" => \A n \in 1..m : c.items[n] = Canon[d - 1][v.items[n]]
  BY CanonParts
<1> HIDE DEF c, m
<1>3. /\ c.x \in {0} \cup ToSet(Parsed) /\ c.kind = "number" <=> c.x # 0
      /\ c.kind # "string" => c.str = <<>>
      /\ c.keys \in Seq(Seq(Char)) /\ c.items \in Seq(Values[d - 1])
      /\ c.kind = "object" => IsInjective(c.keys) /\ Len(c.keys) = Len(c.items)
      /\ c.kind # "object" => c.keys = <<>>
      /\ c = [kind |-> c.kind, x |-> c.x, str |-> c.str, keys |-> c.keys, items |-> c.items]
      /\ Len(c.items) \in Nat /\ DOMAIN c.items = 1..Len(c.items)
  BY <1>1, ValueIs
<1>4. c.kind \in {"array", "object"} /\ c.x = 0 /\ c.str = <<>>
  BY <1>2, <1>3
<1>5. Len(c.items) = m
  BY <1>2, <1>3
<1>6. ASSUME c.kind = "object" PROVE Ascending(c.keys, Order)
  <2>1. v.keys \in Seq(Seq(Char)) /\ IsInjective(v.keys)
    BY <1>2, <1>6, ValueIs
  <2>2. Ascending(InOrder(v.keys), Order)
    BY <2>1, InOrderIs
  <2> QED BY <1>2, <1>6, <2>2
<1>7. \A n \in 1..m : c.items[n] = Canon[d - 1][Item(v, n)]
  <2>1. CASE v.kind = "object"
    BY <1>2, <2>1 DEF Item
  <2>2. CASE v.kind # "object"
    BY <1>2, <2>2 DEF Item
  <2> QED BY <2>1, <2>2
<1>8. c = [kind |-> c.kind, x |-> 0, str |-> <<>>, keys |-> c.keys, items |-> c.items]
  BY <1>3, <1>4
<1>9. /\ c.kind # "object" => c.keys = <<>>
      /\ c.kind = "object" => /\ Len(c.keys) = Len(c.items) /\ c.keys = InOrder(v.keys)
                              /\ Ascending(c.keys, Order) /\ IsInjective(c.keys)
  BY <1>2, <1>3, <1>6
<1>10. Len(c.items) = Len(v.items) /\ \A n \in 1..Len(c.items) : c.items[n] = Canon[d - 1][Item(v, n)]
  BY <1>5, <1>7 DEF m
<1> QED BY <1>2, <1>3, <1>4, <1>8, <1>9, <1>10 DEF Compound, c

\* What has been read of one.
LEMMA BegunIs ==
  ASSUME NEW d \in 1..Levels, NEW v, NEW c, Compound(d, v, c),
         NEW k \in 0..Len(c.items), NEW j \in 0..Len(c.items)
  PROVE  /\ Begun(c, j, k) \in Opens
         /\ Begun(c, j, k).kind = c.kind /\ Len(Begun(c, j, k).items) = k
         /\ c.kind = "object" => Len(Begun(c, j, k).keys) = j /\ j \in 0..Len(c.keys)
         /\ Ascending(Begun(c, j, k).keys, Order)
         /\ Begun(c, 0, 0) = Value(c.kind, 0, <<>>)
         /\ Begun(c, Len(c.items), Len(c.items)) = c
<1> DEFINE b == Begun(c, j, k)
           D == d - 1
           keys == IF c.kind = "object" THEN SubSeq(c.keys, 1, j) ELSE <<>>
           items == SubSeq(c.items, 1, k)
<1>1. /\ c.kind \in {"array", "object"}
      /\ c.keys \in Seq(Seq(Char)) /\ c.items \in Seq(Values[D])
      /\ c.kind # "object" => c.keys = <<>>
      /\ c.kind = "object" => Len(c.keys) = Len(c.items) /\ Ascending(c.keys, Order)
      /\ c = [kind |-> c.kind, x |-> 0, str |-> <<>>, keys |-> c.keys, items |-> c.items]
  BY DEF Compound
<1>2. D \in 0..Levels
  BY LevelFacts
<1>3. b = [kind |-> c.kind, x |-> 0, str |-> <<>>, keys |-> keys, items |-> items]
  BY DEF Begun
<1> HIDE DEF D, b
<1>4. items \in Seq(Values[D]) /\ Len(items) = k
      /\ SubSeq(c.items, 1, 0) = <<>> /\ SubSeq(c.items, 1, Len(c.items)) = c.items
  <2> DEFINE e == c.items
             S == Values[D]
  <2>1. e \in Seq(S) /\ k \in 0..Len(e)
    BY <1>1
  <2> HIDE DEF e, S
  <2>2. /\ SubSeq(e, 1, k) \in Seq(S) /\ Len(SubSeq(e, 1, k)) = k
        /\ SubSeq(e, 1, 0) = <<>> /\ SubSeq(e, 1, Len(e)) = e
    BY <2>1, Beginning
  <2> QED BY <2>2 DEF e, S
<1>5. keys \in Seq(Seq(Char)) /\ Ascending(keys, Order)
      /\ (c.kind = "object" => Len(keys) = j /\ j \in 0..Len(c.keys))
  <2>1. CASE c.kind = "object"
    <3>1. j \in 0..Len(c.keys) /\ keys = SubSeq(c.keys, 1, j)
      BY <1>1, <2>1
    <3> DEFINE K == Seq(Char)
               l == c.keys
    <3>2. l \in Seq(K) /\ j \in 0..Len(l)
      BY <1>1, <3>1
    <3> HIDE DEF K, l, keys
    <3>3. SubSeq(l, 1, j) \in Seq(K) /\ Len(SubSeq(l, 1, j)) = j /\ \A i \in 1..j : SubSeq(l, 1, j)[i] = l[i]
      BY <3>2, Beginning
    <3>4. Len(l) \in Nat /\ DOMAIN l = 1..Len(l) /\ DOMAIN SubSeq(l, 1, j) = 1..j
      BY <3>2, <3>3, PlacesOf
    <3>5. Ascending(l, Order)
      BY <1>1, <2>1 DEF l
    <3>6. Ascending(SubSeq(l, 1, j), Order)
      <4>1. \A i \in 1..j : i \in 1..Len(l)
        BY <3>2, <3>4
      <4> HIDE DEF l
      <4> QED BY <3>3, <3>4, <3>5, <4>1 DEF Ascending
    <3> QED BY <3>1, <3>3, <3>6 DEF K, l
  <2>2. CASE c.kind # "object"
    <3>1. keys = <<>>
      BY <2>2
    <3>2. <<>> \in Seq(Seq(Char)) /\ DOMAIN <<>> = {}
      OBVIOUS
    <3> HIDE DEF keys
    <3> QED BY <2>2, <3>1, <3>2 DEF Ascending
  <2> QED BY <2>1, <2>2
<1>6. Begun(c, 0, 0) = Value(c.kind, 0, <<>>)
  <2>1. 0 \in 0..Len(c.keys)
    BY <1>1, PlacesOf
  <2>2. SubSeq(c.keys, 1, 0) = <<>>
    BY <1>1, <2>1, Beginning
  <2> QED BY <1>4, <2>2 DEF Begun, Value
<1>7. Begun(c, Len(c.items), Len(c.items)) = c
  <2>1. c.kind = "object" => SubSeq(c.keys, 1, Len(c.items)) = c.keys
    <3>1. 0 \in 0..Len(c.keys)
      BY <1>1, PlacesOf
    <3>2. SubSeq(c.keys, 1, Len(c.keys)) = c.keys
      BY <1>1, <3>1, Beginning
    <3> QED BY <1>1, <3>2
  <2>2. (IF c.kind = "object" THEN SubSeq(c.keys, 1, Len(c.items)) ELSE <<>>) = c.keys
    BY <1>1, <2>1
  <2> QED BY <1>1, <1>4, <2>2 DEF Begun
<1> HIDE DEF keys, items
<1>8. b.kind = c.kind /\ b.keys = keys /\ b.items = items
  BY <1>3
<1>9. b \in Opens
  <2>1. b \in Open(D)
    BY <1>1, <1>3, <1>4, <1>5 DEF Open
  <2> QED BY <1>2, <2>1 DEF Opens
<1> QED BY <1>4, <1>5, <1>6, <1>7, <1>8, <1>9 DEF b

\* One more key, and one more item.
Grows(c, k) ==
  /\ k \in 0..Len(c.items) /\ k + 1 \in 0..Len(c.items) /\ k + 1 \in 1..Len(c.items)
  /\ c.kind = "object" =>
       /\ [Begun(c, k, k) EXCEPT !.keys = Append(@, c.keys[k + 1])] = Begun(c, k + 1, k)
       /\ c.keys[k + 1] \in Seq(Char) /\ c.keys[k + 1] \notin ToSet(Begun(c, k, k).keys)
  /\ c.kind = "array" => Begun(c, k + 1, k) = Begun(c, k, k)
  /\ [Begun(c, k + 1, k) EXCEPT !.items = Append(@, c.items[k + 1])] = Begun(c, k + 1, k + 1)

LEMMA BegunMore ==
  ASSUME NEW d \in 1..Levels, NEW v, NEW c, Compound(d, v, c),
         NEW k \in 0..(Len(c.items) - 1)
  PROVE  Grows(c, k)
<1> DEFINE n == Len(c.items)
           D == d - 1
<1>1. /\ c.kind \in {"array", "object"}
      /\ c.keys \in Seq(Seq(Char)) /\ c.items \in Seq(Values[D])
      /\ c.kind = "object" => Len(c.keys) = n /\ IsInjective(c.keys)
  BY DEF Compound
<1>2. n \in Nat
  BY <1>1, PlacesOf
<1>3. k \in 0..n /\ k + 1 \in 0..n /\ k + 1 \in 1..n /\ k < n
  BY <1>2
<1> HIDE DEF n, D
<1>4. SubSeq(c.items, 1, k + 1) = Append(SubSeq(c.items, 1, k), c.items[k + 1])
  BY <1>1, <1>3, Beginning DEF n
<1>5. [Begun(c, k + 1, k) EXCEPT !.items = Append(@, c.items[k + 1])] = Begun(c, k + 1, k + 1)
  <2> DEFINE b == Begun(c, k + 1, k)
             l == IF c.kind = "object" THEN SubSeq(c.keys, 1, k + 1) ELSE <<>>
             e == SubSeq(c.items, 1, k)
             more == Append(e, c.items[k + 1])
  <2>1. b = [kind |-> c.kind, x |-> 0, str |-> <<>>, keys |-> l, items |-> e]
    BY DEF Begun
  <2>2. Begun(c, k + 1, k + 1) = [kind |-> c.kind, x |-> 0, str |-> <<>>, keys |-> l, items |-> more]
    BY <1>4 DEF Begun
  <2>3. b.items = e
    BY <2>1
  <2> HIDE DEF b, l, e
  <2>4. [b EXCEPT !.items = Append(@, c.items[k + 1])] = [b EXCEPT !.items = more]
    BY <2>3
  <2> HIDE DEF more
  <2>5. [b EXCEPT !.items = more] = [kind |-> c.kind, x |-> 0, str |-> <<>>, keys |-> l, items |-> more]
    BY <2>1
  <2> QED BY <2>2, <2>4, <2>5 DEF b
<1>6. ASSUME c.kind = "object"
      PROVE  /\ [Begun(c, k, k) EXCEPT !.keys = Append(@, c.keys[k + 1])] = Begun(c, k + 1, k)
             /\ c.keys[k + 1] \in Seq(Char) /\ c.keys[k + 1] \notin ToSet(Begun(c, k, k).keys)
  <2> DEFINE b == Begun(c, k, k)
             l == SubSeq(c.keys, 1, k)
             e == SubSeq(c.items, 1, k)
             key == c.keys[k + 1]
             more == Append(l, key)
  <2>1. b = [kind |-> "object", x |-> 0, str |-> <<>>, keys |-> l, items |-> e]
    BY <1>6 DEF Begun
  <2>2. /\ l \in Seq(Seq(Char)) /\ Len(l) = k /\ \A i \in 1..k : l[i] = c.keys[i]
        /\ key \in Seq(Char) /\ SubSeq(c.keys, 1, k + 1) = more
    <3> DEFINE K == Seq(Char)
               s == c.keys
    <3>1. s \in Seq(K) /\ k \in 0..Len(s) /\ k < Len(s)
      BY <1>1, <1>3, <1>6
    <3> HIDE DEF K, s
    <3>2. /\ SubSeq(s, 1, k) \in Seq(K) /\ Len(SubSeq(s, 1, k)) = k
          /\ \A i \in 1..k : SubSeq(s, 1, k)[i] = s[i]
          /\ s[k + 1] \in K /\ SubSeq(s, 1, k + 1) = Append(SubSeq(s, 1, k), s[k + 1])
      BY <3>1, Beginning
    <3> QED BY <3>2 DEF K, s
  <2>3. Begun(c, k + 1, k) = [kind |-> "object", x |-> 0, str |-> <<>>, keys |-> more, items |-> e]
    BY <1>6, <2>2 DEF Begun
  <2>4. b.keys = l
    BY <2>1
  <2> HIDE DEF b, l, e, key
  <2>5. [b EXCEPT !.keys = Append(@, key)] = [b EXCEPT !.keys = more]
    BY <2>4
  <2> HIDE DEF more
  <2>6. [b EXCEPT !.keys = more] = [kind |-> "object", x |-> 0, str |-> <<>>, keys |-> more, items |-> e]
    BY <2>1
  <2>7. key \notin ToSet(l)
    <3>1. DOMAIN l = 1..k /\ DOMAIN c.keys = 1..n
      BY <1>1, <1>6, <2>2, PlacesOf
    <3>2. SUFFICES ASSUME NEW i \in 1..k, l[i] = key PROVE FALSE
      BY <3>1 DEF ToSet
    <3>3. c.keys[i] = c.keys[k + 1] /\ i \in DOMAIN c.keys /\ k + 1 \in DOMAIN c.keys /\ i # k + 1
      BY <1>2, <1>3, <2>2, <3>1, <3>2 DEF key
    <3> QED BY <1>1, <1>6, <3>3 DEF IsInjective
  <2> QED BY <2>2, <2>3, <2>4, <2>5, <2>6, <2>7 DEF b, key
<1>7. c.kind = "array" => Begun(c, k + 1, k) = Begun(c, k, k)
  BY DEF Begun
<1> QED BY <1>3, <1>5, <1>6, <1>7 DEF n, Grows

\* What has been read of the outer ones does not matter.
LEMMA PushUp ==
  ASSUME NEW s \in Seq(Opens), KeysUp(s), NEW b, Ascending(b.keys, Order)
  PROVE  KeysUp(Append(s, b))
<1> DEFINE S == Opens \cup {b}
           t == Append(s, b)
<1>1. Len(s) \in Nat /\ DOMAIN s = 1..Len(s) /\ \A i \in 1..Len(s) : s[i] \in Opens
  BY PlacesOf
<1>2. s \in Seq(S) /\ b \in S
  <2>1. \A i \in 1..Len(s) : s[i] \in S
    BY <1>1
  <2> HIDE DEF S
  <2>2. s \in Seq(S)
    BY <1>1, <2>1
  <2> QED BY <2>2 DEF S
<1> HIDE DEF S
<1>3. /\ DOMAIN t = 1..(Len(s) + 1) /\ \A i \in 1..Len(s) : t[i] = s[i]
      /\ t[Len(s) + 1] = b
  BY <1>2, TopIs
<1> HIDE DEF t
<1>4. ASSUME NEW i \in 1..(Len(s) + 1) PROVE Ascending(t[i].keys, Order)
  <2>1. CASE i = Len(s) + 1
    BY <1>3, <2>1
  <2>2. CASE i # Len(s) + 1
    <3>1. i \in 1..Len(s)
      BY <1>1, <2>2
    <3> QED BY <1>1, <1>3, <3>1 DEF KeysUp
  <2> QED BY <2>1, <2>2
<1>5. KeysUp(t)
  BY <1>3, <1>4 DEF KeysUp
<1> QED BY <1>5 DEF t

LEMMA HasFine ==
  ASSUME NEW open \in Seq(Opens), KeysUp(open), NEW x, NEW v
  PROVE  Fine(Has(open, x, v))
<1>1. CASE open = <<>>
  <2>1. Has(open, x, v).stack = <<>> /\ Has(open, x, v).mode = "after"
    BY <1>1 DEF Has, At
  <2>2. KeysUp(<<>>)
    BY DEF KeysUp
  <2> QED BY <2>1, <2>2 DEF Fine
<1>2. CASE open # <<>>
  <2> DEFINE u == Last(open)
             f == Front(open)
             w == [u EXCEPT !.items = Append(@, v)]
  <2>1. f \in Seq(Opens) /\ u \in Opens /\ Len(open) \in Nat /\ Len(open) # 0 /\ Len(f) = Len(open) - 1
        /\ \A i \in 1..(Len(open) - 1) : f[i] = open[i]
    BY <1>2, LastOf
  <2>2. DOMAIN open = 1..Len(open) /\ DOMAIN f = 1..(Len(open) - 1) /\ u = open[Len(open)]
    BY <2>1, PlacesOf DEF Last
  <2>3. Ascending(u.keys, Order)
    <3>1. Len(open) \in DOMAIN open
      BY <2>1, <2>2
    <3> QED BY <2>2, <3>1 DEF KeysUp
  <2>4. KeysUp(f)
    <3>1. \A i \in DOMAIN f : i \in DOMAIN open /\ f[i] = open[i]
      BY <2>1, <2>2
    <3> HIDE DEF f
    <3> QED BY <3>1 DEF KeysUp
  <2>5. w.keys = u.keys
    <3>1. PICK d \in 0..Levels : u \in Open(d)
      BY <2>1 DEF Opens
    <3> DEFINE k == u.kind
               l == u.keys
               e == u.items
               more == Append(e, v)
    <3>2. u = [kind |-> k, x |-> 0, str |-> <<>>, keys |-> l, items |-> e]
      BY <3>1, OpenIs
    <3>3. w = [u EXCEPT !.items = more]
      OBVIOUS
    <3> HIDE DEF k, l, e, more, u, w
    <3>4. [u EXCEPT !.items = more].keys = l
      BY <3>2
    <3> QED BY <3>3, <3>4 DEF l
  <2> HIDE DEF w, f
  <2>6. KeysUp(Append(f, w))
    BY <2>1, <2>3, <2>4, <2>5, PushUp
  <2>7. Has(open, x, v) = At(Append(f, w), "after", <<>>, x)
    BY <1>2 DEF Has, Holds, InLast, w, f
  <2> QED BY <2>6, <2>7 DEF Fine, At
<1> QED BY <1>1, <1>2

\* Any text written for d levels is read as its canonical value, wherever a value may be.
ReadsLevel(d) ==
  \A v \in Values[d], open \in Seq(Opens), m \in {"value", "first"} : \A x :
    Accepted[d][v] /\ Len(open) = Levels - d /\ KeysUp(open) /\ Expects(open) =>
      Reads(At(open, m, <<>>, x), Written[d][v], Has(open, x, Canon[d][v]))

\* Between the items of an array or object.
Between(c, open, k, x) ==
  At(Append(open, Begun(c, k, k)),
     IF k > 0 THEN "after" ELSE IF c.kind = "array" THEN "first" ELSE "firstkey", <<>>, x)

LEMMA BetweenFine ==
  ASSUME NEW d \in 1..Levels, NEW v, NEW c, Compound(d, v, c), NEW open \in Seq(Opens), KeysUp(open),
         NEW x, NEW k \in 0..Len(c.items)
  PROVE  Fine(Between(c, open, k, x))
<1> DEFINE b == Begun(c, k, k)
           p == Between(c, open, k, x)
<1>1. Ascending(b.keys, Order)
  BY BegunIs
<1> HIDE DEF b
<1>2. KeysUp(Append(open, b))
  BY <1>1, PushUp
<1>3. p.stack = Append(open, b) /\ p.mode \in {"after", "first", "firstkey"}
  BY DEF Between, At, b
<1> HIDE DEF p
<1> QED BY <1>2, <1>3 DEF Fine, p

LEMMA ReadsPart ==
  ASSUME NEW d \in 1..Levels, NEW v \in Values[d], NEW c, Compound(d, v, c),
         NEW open \in Seq(Opens), Len(open) = Levels - d, KeysUp(open), NEW x,
         NEW k \in 0..(Len(c.items) - 1), ReadsLevel(d - 1), Accepted[d - 1][Item(v, k + 1)]
  PROVE  Reads(Between(c, open, k, x), Part(d, v, k + 1), Between(c, open, k + 1, x))
<1> DEFINE b == Begun(c, k, k)
           b2 == Begun(c, k + 1, k)
           s == Append(open, b)
           s2 == Append(open, b2)
           i == Item(v, k + 1)
           e == c.items[k + 1]
           key == c.keys[k + 1]
           m == IF k > 0 THEN (IF c.kind = "object" THEN "key" ELSE "value")
                ELSE IF c.kind = "array" THEN "first" ELSE "firstkey"
           C == IF k + 1 > 1 THEN <<Mark("comma")>> ELSE <<>>
           K == IF v.kind = "object" THEN WriteStr(InOrder(v.keys)[k + 1]) \o <<Mark("colon")>> ELSE <<>>
           W == Written[d - 1][i]
           p == Between(c, open, k, x)
           p1 == At(s, m, <<>>, x)
           p3 == Between(c, open, k + 1, x)
<1>1. /\ k \in 0..Len(c.items) /\ k + 1 \in 0..Len(c.items) /\ k + 1 \in 1..Len(c.items)
      /\ c.kind = "object" =>
           /\ [b EXCEPT !.keys = Append(@, key)] = b2
           /\ key \in Seq(Char) /\ key \notin ToSet(b.keys)
      /\ c.kind = "array" => b2 = b
      /\ [b2 EXCEPT !.items = Append(@, e)] = Begun(c, k + 1, k + 1)
  <2>1. Grows(c, k)
    BY BegunMore
  <2> QED BY <2>1 DEF Grows
<1>2. /\ c.kind \in {"array", "object"} /\ c.kind = v.kind /\ Len(c.items) = Len(v.items)
      /\ c.kind = "object" => c.keys = InOrder(v.keys)
      /\ e = Canon[d - 1][i]
  BY <1>1 DEF Compound
<1>3. /\ b \in Opens /\ b.kind = c.kind /\ Len(b.items) = k /\ Ascending(b.keys, Order)
      /\ c.kind = "object" => Len(b.keys) = k
  BY <1>1, BegunIs
<1>4. /\ b2 \in Opens /\ b2.kind = c.kind /\ Len(b2.items) = k /\ Ascending(b2.keys, Order)
      /\ c.kind = "object" => Len(b2.keys) = k + 1
  BY <1>1, BegunIs
<1>5. d - 1 \in 0..Levels /\ i \in Values[d - 1]
  <2>1. d \in 0..Levels /\ d - 1 \in 0..Levels
    BY LevelFacts
  <2>2. k + 1 \in 1..Len(v.items)
    BY <1>1, <1>2
  <2> QED BY <2>1, <2>2, ItemIs
<1>6. k \in Nat
  BY <1>1
<1> HIDE DEF b, b2, e, i
<1>7. /\ s # <<>> /\ Last(s) = b /\ \A g : InLast(s, g) = Append(open, g)
      /\ KeysUp(s)
  BY <1>3, TopIs, PushUp
<1>8. /\ s2 \in Seq(Opens) /\ s2 # <<>> /\ Last(s2) = b2 /\ \A g : InLast(s2, g) = Append(open, g)
      /\ Len(s2) = Len(open) + 1 /\ KeysUp(s2)
  BY <1>4, TopIs, PushUp
<1>9. Fine(p) /\ Fine(p3)
  BY <1>1, BetweenFine
<1>10. p.stack = s /\ p.mode = (IF k > 0 THEN "after" ELSE IF c.kind = "array" THEN "first" ELSE "firstkey")
       /\ p = At(s, IF k > 0 THEN "after" ELSE IF c.kind = "array" THEN "first" ELSE "firstkey", <<>>, x)
  BY DEF Between, At, b
<1> HIDE DEF s, s2, p, p3
<1>11. Fine(p1) /\ m \in {"value", "first", "key", "firstkey"} /\ p1.stack = s /\ p1.mode = m
  BY <1>7 DEF Fine, At
<1>12. Reads(p, C, p1) /\ C \in Seq(Tokens)
  <2>1. CASE k > 0
    <3> DEFINE t == Mark("comma")
    <3>1. C = <<t>> /\ t.kind = "comma" /\ <<t>> \in Seq(Tokens)
      BY <1>6, <2>1, MarkIsToken
    <3>2. p1 = [p EXCEPT !.mode = IF c.kind = "object" THEN "key" ELSE "value"]
      BY <1>10, <2>1 DEF At
    <3>3. IsIn(p, "object") <=> c.kind = "object"
      BY <1>3, <1>7, <1>10 DEF IsIn
    <3> HIDE DEF t, p1
    <3>4. Moves(p, t, p1)
      BY <1>7, <1>10, <2>1, <3>1, <3>2, <3>3 DEF Moves
    <3>5. Reads(p, <<t>>, p1)
      BY <1>9, <1>11, <3>4, ReadsOne DEF p1
    <3> QED BY <3>1, <3>5
  <2>2. CASE ~(k > 0)
    <3>1. C = <<>> /\ <<>> \in Seq(Tokens)
      BY <1>6, <2>2
    <3>2. p1 = p
      BY <1>10, <2>2
    <3> HIDE DEF C, p1
    <3>3. Reads(p, <<>>, p)
      BY <1>9, ReadsNothing
    <3> QED BY <3>1, <3>2, <3>3
  <2> QED BY <2>1, <2>2
<1>13. PICK m2 \in {"value", "first"} : Reads(p1, K, At(s2, m2, <<>>, x)) /\ K \in Seq(Tokens)
  <2>1. CASE c.kind = "object"
    <3> DEFINE t == Mark("colon")
               q == At(s2, "colon", <<>>, x)
               q2 == At(s2, "value", <<>>, x)
               str1 == At(s, "string", key, x)
    <3>1. Fine(q) /\ Fine(q2)
      BY <1>8 DEF Fine, At
    <3>2. str1.stack = s /\ str1.mode = "string" /\ str1.str = key /\ str1.value = x
      BY DEF At
    <3>3. AtKey(str1)
      BY <1>3, <1>7, <2>1, <3>2 DEF AtKey, IsIn
    <3>4. InLast(s, [b EXCEPT !.keys = Append(@, key)]) = s2
      <4>1. InLast(s, b2) = s2
        BY <1>7 DEF s2
      <4> QED BY <1>1, <2>1, <4>1
    <3>5. q = At(InLast(str1.stack, [Last(str1.stack) EXCEPT !.keys = Append(@, str1.str)]), "colon", <<>>, str1.value)
      BY <1>7, <3>2, <3>4
    <3>6. Mark("quote").kind = "quote" /\ t.kind = "colon" /\ <<t>> \in Seq(Tokens)
      BY MarkIsToken
    <3>7. str1.str \notin ToSet(Last(str1.stack).keys)
      BY <1>1, <1>7, <2>1, <3>2
    <3> HIDE DEF str1, q
    <3>8. Moves(str1, Mark("quote"), q)
      BY <3>2, <3>3, <3>5, <3>6, <3>7 DEF Moves
    <3>9. Reads(p1, WriteStr(key), q)
      <4>1. m \in {"key", "firstkey"} /\ key \in Seq(Char)
        BY <1>1, <2>1
      <4> QED BY <1>7, <3>1, <3>8, <4>1, ReadsString DEF str1
    <3>10. Moves(q, t, q2)
      <4>1. q.mode = "colon" /\ q2 = [q EXCEPT !.mode = "value"]
        BY DEF q, At
      <4> HIDE DEF t, q2
      <4> QED BY <3>6, <4>1 DEF Moves
    <3> HIDE DEF q2, t, p1
    <3>11. Reads(q, <<t>>, q2)
      BY <3>1, <3>10, ReadsOne
    <3>12. WriteStr(key) \in Seq(Tokens)
      BY <1>1, <2>1, SpeltIs
    <3>13. Reads(p1, WriteStr(key) \o <<t>>, q2) /\ WriteStr(key) \o <<t>> \in Seq(Tokens)
      BY <3>6, <3>9, <3>11, <3>12, ReadsThen, Concatenated
    <3>14. K = WriteStr(key) \o <<t>>
      BY <1>2, <2>1 DEF t
    <3> HIDE DEF K
    <3> QED BY <3>13, <3>14 DEF q2
  <2>2. CASE c.kind = "array"
    <3>1. K = <<>> /\ <<>> \in Seq(Tokens) /\ m \in {"value", "first"}
      BY <1>2, <2>2
    <3>2. At(s2, m, <<>>, x) = p1
      BY <1>1, <2>2 DEF s, s2
    <3> HIDE DEF K, m, p1
    <3>3. Reads(p1, <<>>, p1)
      BY <1>11, ReadsNothing DEF p1
    <3> QED BY <3>1, <3>2, <3>3
  <2> QED BY <1>2, <2>1, <2>2
<1> DEFINE p2 == At(s2, m2, <<>>, x)
<1>14. Reads(p2, W, p3) /\ W \in Seq(Tokens)
  <2>1. Expects(s2)
    BY <1>4, <1>8 DEF Expects, Awaits
  <2>2. Len(s2) = Levels - (d - 1)
    BY <1>8, LevelFacts
  <2>3. Reads(p2, W, Has(s2, x, e))
    <3>1. Accepted[d - 1][i]
      BY DEF i
    <3> QED BY <1>2, <1>5, <1>8, <1>13, <2>1, <2>2, <3>1 DEF ReadsLevel
  <2>4. Has(s2, x, e) = p3
    <3>1. Holds(s2, e) = Append(open, Begun(c, k + 1, k + 1))
      BY <1>1, <1>8 DEF Holds
    <3>2. k + 1 > 0
      BY <1>6
    <3> QED BY <1>8, <3>1, <3>2 DEF Has, p3, Between
  <2>5. W \in Seq(Tokens)
    BY <1>5, TextsAre DEF TextTyped
  <2> QED BY <2>3, <2>4, <2>5
<1> HIDE DEF C, K, W, p1, p2
<1>15. Reads(p1, K, p2)
  BY <1>13 DEF p2
<1>16. Reads(p, C \o K, p2)
  BY <1>12, <1>13, <1>15, ReadsThen
<1>17. C \o K \in Seq(Tokens)
  BY <1>12, <1>13, Concatenated
<1>18. Reads(p, (C \o K) \o W, p3)
  BY <1>14, <1>16, <1>17, ReadsThen
<1>19. Part(d, v, k + 1) = C \o K \o W
  BY DEF Part, C, K, W, i
<1> QED BY <1>18, <1>19 DEF p, p3

LEMMA ReadsCompound ==
  ASSUME NEW d \in 1..Levels, NEW v \in Values[d], v.kind \in {"array", "object"},
         NEW open \in Seq(Opens), Len(open) = Levels - d, KeysUp(open), NEW x,
         NEW m \in {"value", "first"}, Len(open) <= MaxDepth, ReadsLevel(d - 1),
         \A n \in DOMAIN v.items : Accepted[d - 1][v.items[n]]
  PROVE  Reads(At(open, m, <<>>, x), Written[d][v], Has(open, x, Canon[d][v]))
<1> DEFINE c == Canon[d][v]
           n == Len(c.items)
           p == At(open, m, <<>>, x)
           q == Has(open, x, c)
           a == Mark(v.kind)
           z == Mark(IF v.kind = "array" THEN "endarray" ELSE "endobject")
           B(k) == Between(c, open, k, x)
<1>1. d \in 0..Levels /\ d - 1 \in 0..Levels
  BY LevelFacts
<1>2. Compound(d, v, c)
  BY <1>1, CompoundIs
<1>3. \A w \in Values[d - 1] : Written[d - 1][w] \in Seq(Tokens)
  BY <1>1, TextsAre DEF TextTyped
<1>4. PICK f : Encloses(d, v, f)
  BY <1>1, <1>3, TextOfParts
<1>5. /\ n \in Nat /\ n = Len(v.items) /\ c.kind = v.kind /\ c.kind \in {"array", "object"}
      /\ \A k \in 1..n : c.items[k] = Canon[d - 1][Item(v, k)]
  BY <1>2 DEF Compound
<1>6. /\ f \in [0..n -> Seq(Tokens)] /\ f[0] = <<>>
      /\ \A k \in 1..n : Part(d, v, k) \in Seq(Tokens) /\ f[k] = f[k - 1] \o Part(d, v, k)
      /\ Written[d][v] = <<a>> \o f[n] \o <<z>>
  BY <1>4, <1>5 DEF Encloses
<1>7. \A k \in 1..n : Accepted[d - 1][Item(v, k)]
  <2>1. ASSUME NEW k \in 1..n PROVE Accepted[d - 1][Item(v, k)]
    <3>1. DOMAIN v.items = 1..Len(v.items) /\ k \in 1..Len(v.items)
      BY <1>1, <1>5, ValueIs
    <3>2. CASE v.kind = "object"
      <4>1. v.keys \in Seq(Seq(Char)) /\ IsInjective(v.keys) /\ Len(v.keys) = Len(v.items)
        BY <1>1, <3>2, ValueIs
      <4>2. Sorted(v.keys)[k] \in 1..Len(v.items)
        BY <3>1, <4>1, InOrderIs
      <4> QED BY <3>1, <3>2, <4>2 DEF Item
    <3>3. CASE v.kind # "object"
      BY <3>1, <3>3 DEF Item
    <3> QED BY <3>2, <3>3
  <2> QED BY <2>1
<1>8. a.kind = v.kind /\ z.kind = (IF v.kind = "array" THEN "endarray" ELSE "endobject")
      /\ <<a>> \in Seq(Tokens) /\ <<z>> \in Seq(Tokens)
  BY MarkIsToken
<1> HIDE DEF c, a, z
<1>9. ASSUME NEW k \in 0..n PROVE Fine(B(k))
  BY <1>2, <1>9, BetweenFine
<1>10. Fine(p)
  BY DEF Fine, At
<1>11. Begun(c, 0, 0) = Value(c.kind, 0, <<>>) /\ Begun(c, n, n) = c
       /\ Begun(c, n, n) \in Opens
  <2>1. 0 \in 0..n /\ n \in 0..n
    BY <1>5
  <2> QED BY <1>2, <2>1, BegunIs
<1>12. B(0) = At(Append(open, Value(c.kind, 0, <<>>)), IF c.kind = "array" THEN "first" ELSE "firstkey", <<>>, x)
  BY <1>11 DEF Between
<1>13. /\ B(n).stack = Append(open, c) /\ B(n).value = x
       /\ B(n).mode = IF n > 0 THEN "after" ELSE IF c.kind = "array" THEN "first" ELSE "firstkey"
  BY <1>11 DEF Between, At
<1>14. Fine(q)
  BY HasFine
<1> HIDE DEF n, q, B
<1>15. Reads(p, <<a>>, B(0))
  <2>1. p.stack = open /\ p.mode = m /\ p.str = <<>> /\ p.value = x
    BY DEF At
  <2>2. Begins(p)
    BY <2>1 DEF Begins, Within
  <2>3. B(0) = At(Append(p.stack, Value(a.kind, 0, <<>>)), IF a.kind = "array" THEN "first" ELSE "firstkey", p.str, p.value)
    BY <1>5, <1>8, <1>12, <2>1
  <2> HIDE DEF p
  <2>4. Moves(p, a, B(0))
    BY <1>5, <1>8, <2>2, <2>3 DEF Moves
  <2>5. Fine(B(0))
    BY <1>5, <1>9
  <2> QED BY <1>10, <2>4, <2>5, ReadsOne DEF p
<1> HIDE DEF p
<1> DEFINE T == {k \in 0..n : Reads(p, <<a>> \o f[k], B(k))}
<1>16. 0 \in T
  <2>1. <<a>> \o f[0] = <<a>>
    BY <1>6, <1>8, ThreeParts
  <2>2. 0 \in 0..n
    BY <1>5
  <2>3. Reads(p, <<a>> \o f[0], B(0))
    BY <1>15, <2>1
  <2> QED BY <2>2, <2>3
<1>17. ASSUME NEW k \in 0..(n - 1), k \in T PROVE k + 1 \in T
  <2>1. k \in 0..n /\ k + 1 \in 0..n /\ k + 1 \in 1..n /\ (k + 1) - 1 = k /\ k \in 0..(Len(c.items) - 1)
    BY <1>5 DEF n
  <2>2. Accepted[d - 1][Item(v, k + 1)]
    BY <1>7, <2>1
  <2>3. Reads(B(k), Part(d, v, k + 1), B(k + 1))
    BY <1>2, <2>1, <2>2, ReadsPart DEF B
  <2>4. Reads(p, <<a>> \o f[k], B(k))
    BY <1>17
  <2> DEFINE u == <<a>>
             w == f[k]
             y == Part(d, v, k + 1)
  <2>5. u \in Seq(Tokens) /\ w \in Seq(Tokens) /\ y \in Seq(Tokens) /\ f[k + 1] = w \o y
    BY <1>6, <1>8, <2>1
  <2> HIDE DEF u, w, y
  <2>6. (u \o w) \o y = u \o (w \o y)
    <3>1. u \in Seq(Tokens) /\ w \in Seq(Tokens) /\ y \in Seq(Tokens)
      BY <2>5
    <3> QED BY <3>1, TextsRegroup
  <2>7. u \o w \in Seq(Tokens)
    BY <2>5, Concatenated
  <2>8. Reads(p, (u \o w) \o y, B(k + 1))
    <3>1. Reads(p, u \o w, B(k)) /\ Reads(B(k), y, B(k + 1))
      BY <2>3, <2>4 DEF u, w, y
    <3> QED BY <2>5, <2>7, <3>1, ReadsThen
  <2>9. Reads(p, <<a>> \o f[k + 1], B(k + 1))
    BY <2>5, <2>6, <2>8 DEF u
  <2> QED BY <2>1, <2>9
<1> HIDE DEF T
<1>18. n \in T
  <2>1. n \in Nat
    BY <1>5
  <2>2. 0..n \subseteq T
    BY <1>16, <1>17, <2>1, NatUpTo
  <2> QED BY <2>1, <2>2
<1>19. Moves(B(n), z, q)
  <2>1. /\ Append(open, c) # <<>> /\ Last(Append(open, c)) = c /\ Front(Append(open, c)) = open
    BY <1>11, TopIs
  <2>2. IsIn(B(n), c.kind)
    BY <1>13, <2>1 DEF IsIn
  <2>3. q = Has(Front(B(n).stack), B(n).value, Last(B(n).stack))
    BY <1>13, <2>1 DEF q
  <2> QED BY <1>5, <1>8, <1>13, <2>2, <2>3 DEF Moves
<1>20. Reads(B(n), <<z>>, q)
  <2>1. Fine(B(n))
    BY <1>5, <1>9
  <2> QED BY <1>14, <1>19, <2>1, ReadsOne
<1>21. Reads(p, (<<a>> \o f[n]) \o <<z>>, q)
  <2>1. f[n] \in Seq(Tokens)
    BY <1>5, <1>6
  <2>2. <<a>> \o f[n] \in Seq(Tokens)
    BY <1>8, <2>1, Concatenated
  <2>3. Reads(p, <<a>> \o f[n], B(n))
    BY <1>18 DEF T
  <2> QED BY <1>8, <1>20, <2>2, <2>3, ReadsThen
<1> QED BY <1>6, <1>21 DEF p, q, c

LEMMA ReadsLevelStep ==
  ASSUME NEW d \in 1..Levels, ReadsLevel(d - 1)
  PROVE  ReadsLevel(d)
<1>1. SUFFICES ASSUME NEW v \in Values[d], NEW open \in Seq(Opens), NEW m \in {"value", "first"}, NEW x,
                      Accepted[d][v], Len(open) = Levels - d, KeysUp(open), Expects(open)
               PROVE  Reads(At(open, m, <<>>, x), Written[d][v], Has(open, x, Canon[d][v]))
  BY DEF ReadsLevel
<1> DEFINE p == At(open, m, <<>>, x)
           c == Canon[d][v]
           q == Has(open, x, c)
<1>2. d \in 0..Levels /\ d - 1 \in 0..Levels
  BY LevelFacts
<1>3. AcceptedOver(Accepted[d - 1], Levels - d, v)
  BY <1>1, <1>2, AcceptedIs
<1>4. /\ Len(open) <= MaxDepth /\ (v.kind = "number" => v.x # Infinite)
      /\ \A i \in DOMAIN v.items : Accepted[d - 1][v.items[i]]
  BY <1>1, <1>3 DEF AcceptedOver, Within
<1>5. Fine(p) /\ Fine(q)
  <2>1. Fine(q)
    BY <1>1, HasFine
  <2> QED BY <1>1, <2>1 DEF Fine, At
<1>6. p.stack = open /\ p.mode = m /\ p.str = <<>> /\ p.value = x
  BY DEF At
<1>7. Begins(p)
  <2> HIDE DEF p
  <2>1. Len(p.stack) <= MaxDepth /\ p.mode \in {"value", "first"}
    BY <1>4, <1>6
  <2> QED BY <2>1 DEF Begins, Within
<1>8. Written[d][v] = TextOver(Written[d - 1], v)
  BY <1>2, WrittenOver
<1>9. /\ v.kind \in {"null", "number", "string", "array", "object"}
      /\ v.x \in {0} \cup ToSet(Parsed) /\ (v.kind = "number" <=> v.x # 0) /\ v.str \in Seq(Char)
      /\ v.kind # "string" => v.str = <<>>
  BY <1>2, ValueIs
<1>10. CASE v.kind = "null"
  <2>1. c = Value("null", 0, <<>>)
    <3>1. v.x = 0 /\ 0 # MinusZero
      BY <1>9, <1>10 DEF MinusZero
    <3> QED BY <1>2, <1>9, <1>10, <3>1, CanonLeaf
  <2>2. Written[d][v] = <<Mark("null")>>
    BY <1>8, <1>10 DEF TextOver
  <2>3. Mark("null").kind = "null"
    BY MarkIsToken
  <2>4. q = Has(p.stack, p.value, Value("null", 0, <<>>))
    BY <1>6, <2>1
  <2> HIDE DEF p, q
  <2>5. Moves(p, Mark("null"), q)
    BY <1>7, <2>3, <2>4 DEF Moves
  <2>6. Reads(p, <<Mark("null")>>, q)
    BY <1>5, <2>5, ReadsOne
  <2> QED BY <2>2, <2>6 DEF p, q
<1>11. CASE v.kind = "number"
  <2> DEFINE n == Shortest(v.x)
             t == Token("number", n)
  <2>1. Parsed[n] = (IF v.x = MinusZero THEN Zero ELSE v.x) /\ Parsed[n] # Infinite
    <3>1. v.x \in {Zero, MinusZero, One, Infinite} /\ v.x # Infinite
      <4>1. \A i \in DOMAIN Parsed : Parsed[i] \in {Zero, MinusZero, One, Infinite}
        BY DEF Parsed
      <4>2. v.x \in ToSet(Parsed) /\ v.x # Infinite
        BY <1>4, <1>9, <1>11
      <4> QED BY <4>1, <4>2 DEF ToSet
    <3>2. Parsed[1] = Zero /\ Parsed[3] = One
      BY DEF Parsed
    <3>3. Zero # MinusZero /\ Zero # One /\ MinusZero # One /\ Zero # Infinite /\ One # Infinite
      BY DEF Zero, One, MinusZero, Infinite
    <3> QED BY <3>1, <3>2, <3>3 DEF Shortest
  <2>2. c = Value("number", Parsed[n], <<>>)
    BY <1>2, <1>9, <1>11, <2>1, CanonLeaf
  <2>3. Written[d][v] = <<t>> /\ t.kind = "number" /\ t.x = n
    BY <1>8, <1>11 DEF TextOver, Token
  <2>4. q = Has(p.stack, p.value, Value("number", Parsed[t.x], <<>>))
    BY <1>6, <2>2, <2>3
  <2> HIDE DEF p, q, n, t
  <2>5. Moves(p, t, q)
    BY <1>7, <2>1, <2>3, <2>4 DEF Moves
  <2>6. Reads(p, <<t>>, q)
    BY <1>5, <2>5, ReadsOne
  <2> QED BY <2>3, <2>6 DEF p, q
<1>12. CASE v.kind = "string"
  <2>1. c = Value("string", 0, v.str)
    <3>1. v.x = 0 /\ 0 # MinusZero
      BY <1>9, <1>12 DEF MinusZero
    <3> QED BY <1>2, <1>12, <3>1, CanonLeaf
  <2>2. Written[d][v] = WriteStr(v.str)
    BY <1>8, <1>12 DEF TextOver
  <2> DEFINE p2 == At(open, "string", v.str, x)
  <2>3. p2.stack = open /\ p2.mode = "string" /\ p2.str = v.str /\ p2.value = x
    BY DEF At
  <2>4. ~AtKey(p2)
    <3>1. SUFFICES ASSUME open # <<>>, Last(open).kind = "object", Len(Last(open).keys) = Len(Last(open).items)
                   PROVE  FALSE
      BY <2>3 DEF AtKey, IsIn
    <3>2. Len(Last(open).keys) = Len(Last(open).items) + 1
      BY <1>1, <3>1 DEF Expects, Awaits
    <3>3. Last(open) \in Opens
      BY <3>1, LastOf
    <3>4. PICK k \in 0..Levels : Last(open) \in Open(k)
      BY <3>3 DEF Opens
    <3>5. Len(Last(open).items) \in Nat
      BY <3>4, OpenIs, PlacesOf
    <3> QED BY <3>1, <3>2, <3>5
  <2>5. q = Has(p2.stack, p2.value, Value("string", 0, p2.str))
    BY <2>1, <2>3
  <2>6. Mark("quote").kind = "quote"
    BY MarkIsToken
  <2> HIDE DEF p2, q
  <2>7. Moves(p2, Mark("quote"), q)
    BY <2>3, <2>4, <2>5, <2>6 DEF Moves
  <2>8. Reads(p, WriteStr(v.str), q)
    <3>1. Within(Len(open)) /\ KeysUp(open) /\ v.str \in Seq(Char) /\ Fine(q)
      BY <1>1, <1>4, <1>5, <1>9 DEF Within
    <3>2. m \in {"value", "first", "key", "firstkey"}
      OBVIOUS
    <3>3. Moves(At(open, "string", v.str, x), Mark("quote"), q)
      BY <2>7 DEF p2
    <3>4. Reads(At(open, m, <<>>, x), WriteStr(v.str), q)
      BY <3>1, <3>2, <3>3, ReadsString
    <3> QED BY <3>4
  <2> QED BY <2>2, <2>8 DEF q
<1>13. CASE v.kind \in {"array", "object"}
  <2>1. Len(open) <= MaxDepth /\ \A i \in DOMAIN v.items : Accepted[d - 1][v.items[i]]
    BY <1>4
  <2>2. Len(open) = Levels - d /\ KeysUp(open)
    BY <1>1
  <2> HIDE DEF p, q, c
  <2> QED BY <1>13, <2>1, <2>2, ReadsCompound
<1> QED BY <1>9, <1>10, <1>11, <1>12, <1>13

LEMMA ReadsLevels == \A d \in 0..Levels : ReadsLevel(d)
<1> DEFINE T == {d \in 0..Levels : ReadsLevel(d)}
<1>1. 0 \in T
  BY ValuesAre, LevelFacts DEF ReadsLevel
<1>2. ASSUME NEW d \in 0..(Levels - 1), d \in T PROVE d + 1 \in T
  <2>1. d + 1 \in 0..Levels /\ d + 1 \in 1..Levels /\ (d + 1) - 1 = d
    BY LevelFacts
  <2>2. ReadsLevel((d + 1) - 1)
    BY <1>2, <2>1
  <2> QED BY <2>1, <2>2, ReadsLevelStep
<1> HIDE DEF T
<1>3. 0..Levels \subseteq T
  BY <1>1, <1>2, LevelFacts, NatUpTo
<1> QED BY <1>3 DEF T

----------------------------------------------------------------------------
(* The canonical text, read again. *)

Start == At(<<>>, "value", <<>>, Nothing)

\* The parser is on the way from the start to the canonical value of what was sent,
\* as far as it has read, or has arrived.
RereadInv ==
  source # <<>> =>
    \/ mode = "done" /\ stack = <<>> /\ value = Canon[Levels][sent]
    \/ /\ count \in 0..Len(source)
       /\ \E run : /\ Run(run, Start, source, Has(<<>>, Nothing, Canon[Levels][sent]))
                   /\ Variables = run[count]

LEMMA InitReread == Init => RereadInv
BY DEF Init, RereadInv

LEMMA CanonicalizeReread ==
  ASSUME Inv, Canonicalize
  PROVE  RereadInv'
<1>1. /\ mode = "done" /\ source' = Write(value) /\ sent' = value
      /\ stack' = <<>> /\ mode' = "value" /\ str' = <<>> /\ value' = Nothing /\ count' = 0
  BY DEF Canonicalize
<1>2. value \in Values[Levels] /\ FromValueAccepts(value)
  BY <1>1 DEF Inv, ParserInv, ModeInv, ValueInv
<1> DEFINE c == Canon[Levels][value]
<1>3. Reads(Start, Write(value), Has(<<>>, Nothing, c))
  <2>1. Levels \in 0..Levels /\ Levels - Levels = 0
    BY LevelFacts
  <2>2. ReadsLevel(Levels)
    BY <2>1, ReadsLevels
  <2>3. <<>> \in Seq(Opens) /\ Len(<<>>) = 0
    OBVIOUS
  <2>4. KeysUp(<<>>) /\ Expects(<<>>)
    BY DEF KeysUp, Expects
  <2>5. Accepted[Levels][value]
    BY <1>2 DEF FromValueAccepts
  <2>6. "value" \in {"value", "first"} /\ Len(<<>>) = Levels - Levels
    BY <2>1, <2>3
  <2>7. Reads(At(<<>>, "value", <<>>, Nothing), Written[Levels][value], Has(<<>>, Nothing, Canon[Levels][value]))
    BY <1>2, <2>2, <2>3, <2>4, <2>5, <2>6 DEF ReadsLevel
  <2> QED BY <2>7 DEF Start, Write
<1>4. PICK run : Run(run, Start, Write(value), Has(<<>>, Nothing, c))
  BY <1>3 DEF Reads
<1>5. Variables' = run[0]
  <2>1. Variables' = Start
    BY <1>1 DEF Variables, Start
  <2>2. run[0] = Start
    BY <1>4 DEF Run
  <2> QED BY <2>1, <2>2
<1>6. Run(run, Start, source', Has(<<>>, Nothing, Canon[Levels][sent']))
  BY <1>1, <1>4
<1>7. count' \in 0..Len(source')
  <2>1. Write(value) \in Seq(Tokens)
    BY <1>2, TextsAre, LevelFacts DEF Write, TextTyped
  <2> QED BY <1>1, <2>1
<1> QED BY <1>1, <1>5, <1>6, <1>7 DEF RereadInv

LEMMA RereadsReread ==
  ASSUME Inv, RereadInv, Rereads
  PROVE  RereadInv'
<1>1. source # <<>> /\ mode # "done" /\ mode # "refused" /\ UNCHANGED <<source, sent>>
  BY DEF Rereads, Reading
<1> DEFINE c == Canon[Levels][sent]
           q == Has(<<>>, Nothing, c)
<1>2. count \in 0..Len(source)
  BY <1>1 DEF RereadInv
<1>3. PICK run : Run(run, Start, source, q) /\ Variables = run[count]
  BY <1>1 DEF RereadInv
<1>4. source \in Seq(Tokens) /\ count \in Nat
  BY DEF Inv, TextInv
<1>5. Len(source) \in Nat /\ \A i \in 1..Len(source) : source[i] \in Tokens
  BY <1>4, PlacesOf
<1>6. CASE count < Len(source) /\ Read(source[count + 1]) /\ count' = count + 1
  <2>1. count + 1 \in 1..Len(source) /\ (count + 1) - 1 = count /\ count' \in 0..Len(source)
    BY <1>4, <1>5, <1>6
  <2>2. Moves(run[count], source[count + 1], run[count + 1])
    <3>1. \A k \in 1..Len(source) : Moves(run[k - 1], source[k], run[k])
      BY <1>3 DEF Run
    <3>2. Moves(run[(count + 1) - 1], source[count + 1], run[count + 1])
      BY <2>1, <3>1
    <3> QED BY <2>1, <3>2
  <2>3. source[count + 1] \in Tokens /\ Moves(Variables, source[count + 1], run[count + 1])
    BY <1>3, <1>5, <2>1, <2>2
  <2>4. Variables' = run[count']
    BY <1>6, <2>3, MovesIs
  <2>5. Run(run, Start, source', Has(<<>>, Nothing, Canon[Levels][sent']))
    BY <1>1, <1>3
  <2> QED BY <1>1, <2>1, <2>4, <2>5 DEF RereadInv
<1>7. CASE count = Len(source) /\ EndOfText
  <2>1. Variables = At(<<>>, "after", <<>>, c)
    BY <1>3, <1>7 DEF Run, Has
  <2>2. stack = <<>> /\ mode = "after" /\ value = c
    BY <2>1 DEF Variables, At
  <2>3. Goto("done")
    BY <1>7, <2>2 DEF EndOfText
  <2> QED BY <1>1, <2>2, <2>3 DEF Goto, RereadInv
<1> QED BY <1>6, <1>7 DEF Rereads

LEMMA NextReread == Inv /\ RereadInv /\ [Next]_vars => RereadInv'
<1> SUFFICES ASSUME Inv, RereadInv, [Next]_vars PROVE RereadInv'
  OBVIOUS
<1>1. CASE Sends
  BY <1>1 DEF Sends, RereadInv
<1>2. CASE Canonicalize
  BY <1>2, CanonicalizeReread
<1>3. CASE Rereads
  BY <1>3, RereadsReread
<1>4. CASE UNCHANGED vars
  BY <1>4 DEF vars, parser, RereadInv, Variables
<1> QED BY <1>1, <1>2, <1>3, <1>4 DEF Next

\* On the way the keys ascend, and at the end is the canonical value.
LEMMA RereadFacts ==
  ASSUME RereadInv, source # <<>>
  PROVE  /\ KeysUp(stack) /\ mode # "refused"
         /\ mode = "done" => value = Canon[Levels][sent]
<1>1. CASE mode = "done" /\ stack = <<>> /\ value = Canon[Levels][sent]
  BY <1>1 DEF KeysUp
<1>2. ASSUME count \in 0..Len(source),
             \E run : /\ Run(run, Start, source, Has(<<>>, Nothing, Canon[Levels][sent]))
                      /\ Variables = run[count]
      PROVE  KeysUp(stack) /\ mode \notin {"done", "refused"}
  <2>1. Fine(Variables)
    BY <1>2 DEF Run
  <2>2. Variables.stack = stack /\ Variables.mode = mode
    BY DEF Variables, At
  <2> QED BY <2>1, <2>2 DEF Fine
<1> QED BY <1>1, <1>2 DEF RereadInv

LEMMA RereadFixed == Inv /\ RereadInv => CanonicalIsFixed
<1> SUFFICES ASSUME Inv, RereadInv, source # <<>>
             PROVE  /\ mode # "refused"
                    /\ mode = "done" => Meaning(value) = Meaning(sent) /\ Write(value) = source
  BY DEF CanonicalIsFixed
<1>1. sent \in Values[Levels] /\ source = Write(sent)
  BY DEF Inv, TextInv
<1>2. /\ Written[Levels][Canon[Levels][sent]] = Written[Levels][sent]
      /\ Meanings[Levels][Canon[Levels][sent]] = Meanings[Levels][sent]
  BY <1>1, CanonValues, LevelFacts DEF CanonAlike
<1> QED BY <1>1, <1>2, RereadFacts DEF Write, Meaning

LEMMA RereadAscends == RereadInv => KeysAscend
<1> SUFFICES ASSUME RereadInv, source # <<>>, NEW i \in DOMAIN stack,
                    NEW a \in DOMAIN stack[i].keys, NEW b \in DOMAIN stack[i].keys, a < b
             PROVE  Precedes(Utf16(stack[i].keys[a]), Utf16(stack[i].keys[b]))
  BY DEF KeysAscend
<1>1. <<stack[i].keys[a], stack[i].keys[b]>> \in Order
  BY RereadFacts DEF KeysUp, Ascending
<1> QED BY <1>1 DEF Order, Before

LEMMA RereadInvariance == Spec => [](Inv /\ RereadInv)
<1>1. Init => Inv /\ RereadInv
  BY InitInv, InitReread
<1>2. Inv /\ RereadInv /\ [Next]_vars => (Inv /\ RereadInv)'
  BY NextInv, NextReread
<1> QED BY <1>1, <1>2, PTL DEF Spec

\* Whatever value a client sends, the parser accepts what the writer writes of it, as a
\* value of the same meaning, and that value is written alike: the canonical form is
\* a fixed point, at every depth and with every escape (canonicalize_str, write).
THEOREM CanonicalFormIsFixed == Spec => []CanonicalIsFixed
<1>1. Inv /\ RereadInv => CanonicalIsFixed
  BY RereadFixed
<1> QED BY <1>1, RereadInvariance, PTL

\* In every canonical text the keys of each object ascend in the order of their
\* UTF-16 units (write sorts them, canonical.rs 103-104).
THEOREM CanonicalKeysAscend == Spec => []KeysAscend
<1>1. Inv /\ RereadInv => KeysAscend
  BY RereadAscends
<1> QED BY <1>1, RereadInvariance, PTL

=============================================================================
