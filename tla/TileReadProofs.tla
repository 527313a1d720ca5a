--------------------------- MODULE TileReadProofs ---------------------------
(***************************************************************************)
(* Proofs about TileRead, for every number of threads, entries, tile width *)
(* and log size, and whatever sets of files may be damaged.                *)
(***************************************************************************)
EXTENDS TileRead, SequenceLemmas

----------------------------------------------------------------------------
(* Sizes. *)

\* The tile width and the spans are positive; every level has W times the span
\* of the one below.
LEMMA SpanFacts ==
  /\ W \in Nat \ {0} /\ W > 1 /\ Levels \in Nat \ {0} /\ MaxSize \in Nat
  /\ \A l \in 0..Levels : Span[l] \in Nat \ {0}
  /\ Span[0] = 1 /\ Span[1] = W
  /\ \A l \in 0..(Levels - 1) : Span[l + 1] = W * Span[l]
<1>1. W \in Nat \ {0} /\ Levels \in Nat \ {0} /\ W > 1 /\ Span[0] = 1 /\ MaxSize \in Nat
      /\ \A l \in 0..Levels : Span[l] \in Nat \ {0}
  BY ReadAssumption
<1>2. \A l \in 1..Levels : Span[l] = W * Span[l - 1]
  BY ReadAssumption
<1>3. ASSUME NEW l \in 0..(Levels - 1) PROVE Span[l + 1] = W * Span[l]
  <2>1. l + 1 \in 1..Levels /\ (l + 1) - 1 = l
    BY <1>1
  <2> QED BY <1>2, <2>1
<1>4. Span[1] = W
  BY <1>1, <1>3
<1> QED BY <1>1, <1>3, <1>4

\* A log has one hash of the next level for every W of this one, and no more at
\* the top than the edge can hold.
LEMMA CountFacts ==
  ASSUME NEW s \in Seq(Entry), Len(s) <= MaxSize
  PROVE  /\ \A l \in 0..Levels : Count(s, l) \in Nat /\ Count(s, l) <= MaxSize
         /\ \A l \in 0..(Levels - 1) : Count(s, l + 1) = Count(s, l) \div W
         /\ Count(s, 0) = Len(s) /\ Count(s, 1) = Len(s) \div W /\ Count(s, Levels) = 0
<1>1. Len(s) \in Nat /\ MaxSize \in Nat /\ MaxSize < Span[Levels]
  BY ReadAssumption
<1> DEFINE n == Len(s)
<1> HIDE DEF n
<1>2. ASSUME NEW l \in 0..Levels PROVE Count(s, l) \in Nat /\ Count(s, l) <= MaxSize
  <2>1. Span[l] \in Nat \ {0}
    BY SpanFacts
  <2>2. n \div Span[l] \in Nat /\ n \div Span[l] <= n
    BY <1>1, <2>1, DivMod, DivMono DEF n
  <2> QED BY <1>1, <2>2 DEF Count, n
<1>3. ASSUME NEW l \in 0..(Levels - 1) PROVE Count(s, l + 1) = Count(s, l) \div W
  <2>1. l \in 0..Levels /\ Span[l + 1] = W * Span[l]
    BY SpanFacts
  <2>2. Span[l] \in Nat \ {0} /\ W \in Nat \ {0}
    BY <2>1, SpanFacts
  <2>3. (n \div Span[l]) \div W = n \div (W * Span[l])
    BY <1>1, <2>2, DivDiv DEF n
  <2> QED BY <2>1, <2>3 DEF Count, n
<1>4. Count(s, 0) = n /\ Count(s, 1) = n \div W
  <2>1. n \div 1 = n
    BY <1>1 DEF n
  <2> QED BY <2>1, SpanFacts DEF Count, n
<1>5. Count(s, Levels) = 0
  <2>1. Levels \in 0..Levels
    BY SpanFacts
  <2>2. Span[Levels] \in Nat \ {0} /\ n < Span[Levels] * (0 + 1)
    <3>1. Span[Levels] \in Nat \ {0}
      BY <2>1, SpanFacts
    <3> QED BY <1>1, <3>1 DEF n
  <2>3. n \div Span[Levels] \in Nat /\ n \div Span[Levels] <= 0
    BY <1>1, <2>2, DivMod, QuotientBound DEF n
  <2> QED BY <2>3 DEF Count, n
<1> QED BY <1>2, <1>3, <1>4, <1>5 DEF n

----------------------------------------------------------------------------
(* The tree. *)

\* The function Stored takes its hashes from ...
Hashes(s, f, top) ==
  f = [k \in 0..top |->
        [n \in Nat |->
           IF k = 0 THEN LeafHash(s[n + 1])
           ELSE MthSlice([j \in 1..W |-> f[k - 1][n * W + j - 1]])]]

\* ... exists.
LEMMA HashesExist ==
  ASSUME NEW s, NEW top \in Nat
  PROVE  \E f : Hashes(s, f, top)
<1> DEFINE T == {m \in Nat : \E f : Hashes(s, f, m)}
<1>1. 0 \in T
  <2> DEFINE f == [k \in 0..0 |-> [n \in Nat |-> LeafHash(s[n + 1])]]
  <2>1. Hashes(s, f, 0)
    BY DEF Hashes
  <2> QED BY <2>1
<1>2. ASSUME NEW m \in 0..(top - 1), m \in T PROVE m + 1 \in T
  <2>1. PICK f : Hashes(s, f, m)
    BY <1>2
  <2> DEFINE up == [n \in Nat |-> MthSlice([j \in 1..W |-> f[m][n * W + j - 1]])]
             g == [k \in 0..(m + 1) |-> IF k = m + 1 THEN up ELSE f[k]]
  <2>2. m \in Nat /\ (m + 1) - 1 = m
    OBVIOUS
  <2>3. g[m + 1] = up /\ \A k \in 0..m : g[k] = f[k]
    BY <2>2
  <2>4. ASSUME NEW k \in 0..(m + 1)
        PROVE  g[k] = [n \in Nat |->
                         IF k = 0 THEN LeafHash(s[n + 1])
                         ELSE MthSlice([j \in 1..W |-> g[k - 1][n * W + j - 1]])]
    <3>1. CASE k = m + 1
      <4>1. k # 0 /\ k - 1 = m /\ g[k - 1] = f[m]
        BY <2>2, <2>3, <3>1
      <4> QED BY <2>3, <3>1, <4>1
    <3>2. CASE k \in 1..m
      <4>1. k # 0 /\ k - 1 \in 0..m /\ k \in 0..m
        BY <3>2
      <4>2. f[k] = [n \in Nat |-> MthSlice([j \in 1..W |-> f[k - 1][n * W + j - 1]])]
        BY <2>1, <4>1 DEF Hashes
      <4> QED BY <2>3, <4>1, <4>2
    <3>3. CASE k = 0
      <4>1. 0 \in 0..m
        BY <2>2
      <4>2. f[0] = [n \in Nat |-> LeafHash(s[n + 1])]
        BY <2>1, <4>1 DEF Hashes
      <4> QED BY <2>3, <3>3, <4>1, <4>2
    <3> QED BY <2>2, <3>1, <3>2, <3>3
  <2>5. g = [k \in 0..(m + 1) |-> g[k]]
    OBVIOUS
  <2> HIDE DEF g, up
  <2>6. Hashes(s, g, m + 1)
    BY <2>4, <2>5 DEF Hashes
  <2> QED BY <2>2, <2>6
<1> HIDE DEF T
<1>3. 0..top \subseteq T
  BY <1>1, <1>2, NatUpTo
<1> QED BY <1>3 DEF T

\* A hash of level 0 is a leaf hash, one of a higher level covers W of the level below.
LEMMA StoredIs ==
  ASSUME NEW s, NEW l \in HashLevel, NEW i \in Nat
  PROVE  /\ Stored(s, 0, i) = LeafHash(s[i + 1])
         /\ l # 0 => Stored(s, l, i) = MthSlice([j \in 1..W |-> Stored(s, l - 1, i * W + j - 1)])
<1> DEFINE hash == CHOOSE f :
             f = [k \in HashLevel |->
                   [n \in Nat |->
                      IF k = 0 THEN LeafHash(s[n + 1])
                      ELSE MthSlice([j \in 1..W |-> f[k - 1][n * W + j - 1]])]]
<1>1. Levels - 1 \in Nat /\ HashLevel = 0..(Levels - 1) /\ 0 \in HashLevel
  BY SpanFacts DEF HashLevel
<1>2. \E f : Hashes(s, f, Levels - 1)
  BY <1>1, HashesExist
<1>3. hash = [k \in HashLevel |->
                [n \in Nat |->
                   IF k = 0 THEN LeafHash(s[n + 1])
                   ELSE MthSlice([j \in 1..W |-> hash[k - 1][n * W + j - 1]])]]
  <2>1. \E f : f = [k \in HashLevel |->
                    [n \in Nat |->
                       IF k = 0 THEN LeafHash(s[n + 1])
                       ELSE MthSlice([j \in 1..W |-> f[k - 1][n * W + j - 1]])]]
    BY <1>1, <1>2, ZenonT(40) DEF Hashes
  <2> QED BY <2>1, ZenonT(40)
<1>4. \A k, n : Stored(s, k, n) = hash[k][n]
  BY DEF Stored
<1> HIDE DEF hash
<1>5. hash[0][i] = LeafHash(s[i + 1])
  BY <1>1, <1>3
<1>6. ASSUME l # 0
      PROVE  hash[l][i] = MthSlice([j \in 1..W |-> hash[l - 1][i * W + j - 1]])
  <2>1. hash[l] = [n \in Nat |->
                    IF l = 0 THEN LeafHash(s[n + 1])
                    ELSE MthSlice([j \in 1..W |-> hash[l - 1][n * W + j - 1]])]
    BY <1>3
  <2>2. hash[l][i] = IF l = 0 THEN LeafHash(s[i + 1])
                     ELSE MthSlice([j \in 1..W |-> hash[l - 1][i * W + j - 1]])
    BY <2>1, Zenon
  <2> QED BY <1>6, <2>2
<1> QED BY <1>4, <1>5, <1>6

----------------------------------------------------------------------------
(* The full files of a log. *)

\* Bundles are at a level of their own.
LEMMA LevelFacts ==
  /\ HashLevel = 0..(Levels - 1) /\ HashLevel \subseteq 0..Levels
  /\ 0 \in HashLevel /\ Entries \notin HashLevel /\ Entries = -1
BY SpanFacts DEF HashLevel, Entries

\* A file is full when its level has all its items, which the next level counts.
LEMMA FullFile ==
  ASSUME NEW s \in Seq(Entry), Len(s) <= MaxSize
  PROVE  /\ \A n \in Nat : Tile(Entries, n) \in FullFiles(s) <=> n < Count(s, 1)
         /\ \A l \in HashLevel, n \in Nat : Tile(l, n) \in FullFiles(s) <=> n < Count(s, l + 1)
         /\ \A p \in FullFiles(s) :
              /\ p = Tile(p.level, p.n) /\ p \in Path /\ p.n \in Nat
              /\ p.level = Entries \/ p.level \in HashLevel
<1>1. /\ \A l \in 0..Levels : Count(s, l) \in Nat /\ Count(s, l) <= MaxSize
      /\ \A l \in HashLevel : Count(s, l + 1) = Count(s, l) \div W
      /\ Count(s, 1) = Len(s) \div W /\ MaxSize \in Nat
  BY CountFacts, LevelFacts, ReadAssumption
<1>2. /\ 1 \in 0..Levels /\ \A l \in HashLevel : l \in 0..Levels /\ l + 1 \in 0..Levels
  BY SpanFacts, LevelFacts
<1>3. FullFiles(s) = {Tile(Entries, n) : n \in 0..(Count(s, 1) - 1)}
                     \cup UNION {{Tile(l, n) : n \in 0..(Count(s, l + 1) - 1)} : l \in HashLevel}
  BY <1>1 DEF FullFiles
<1>4. \A l, m, n, k : Tile(l, n) = Tile(m, k) <=> l = m /\ n = k
  BY DEF Tile
<1>5. ASSUME NEW n \in Nat
      PROVE  Tile(Entries, n) \in FullFiles(s) <=> n < Count(s, 1)
  <2>1. Tile(Entries, n) \in FullFiles(s) <=> n \in 0..(Count(s, 1) - 1)
    BY <1>3, <1>4, LevelFacts
  <2> QED BY <1>1, <1>2, <2>1
<1>6. ASSUME NEW l \in HashLevel, NEW n \in Nat
      PROVE  Tile(l, n) \in FullFiles(s) <=> n < Count(s, l + 1)
  <2>1. Tile(l, n) \in FullFiles(s) <=> n \in 0..(Count(s, l + 1) - 1)
    BY <1>3, <1>4, LevelFacts
  <2> QED BY <1>1, <1>2, <2>1
<1>7. ASSUME NEW p \in FullFiles(s)
      PROVE  /\ p = Tile(p.level, p.n) /\ p \in Path /\ p.n \in Nat
             /\ p.level = Entries \/ p.level \in HashLevel
  <2>1. \E l \in HashLevel \cup {Entries}, k \in 1..Levels :
          \E n \in 0..(Count(s, k) - 1) : p = Tile(l, n)
    <3>1. CASE p \in {Tile(Entries, n) : n \in 0..(Count(s, 1) - 1)}
      <4>1. PICK n \in 0..(Count(s, 1) - 1) : p = Tile(Entries, n)
        BY <3>1
      <4>2. 1 \in 1..Levels
        BY SpanFacts
      <4> QED BY <4>1, <4>2
    <3>2. CASE p \in UNION {{Tile(l, n) : n \in 0..(Count(s, l + 1) - 1)} : l \in HashLevel}
      <4>1. PICK l \in HashLevel : \E n \in 0..(Count(s, l + 1) - 1) : p = Tile(l, n)
        BY <3>2
      <4>2. l + 1 \in 1..Levels
        BY SpanFacts, LevelFacts
      <4> QED BY <4>1, <4>2
    <3> QED BY <1>3, <3>1, <3>2
  <2>2. PICK l \in HashLevel \cup {Entries}, k \in 1..Levels :
          \E n \in 0..(Count(s, k) - 1) : p = Tile(l, n)
    BY <2>1
  <2>3. PICK n \in 0..(Count(s, k) - 1) : p = Tile(l, n)
    BY <2>2
  <2>4. p.level = l /\ p.n = n
    BY <2>3 DEF Tile
  <2>5. n \in Nat /\ n \in 0..MaxSize
    <3>1. k \in 0..Levels
      OBVIOUS
    <3>2. Count(s, k) \in Nat /\ Count(s, k) <= MaxSize
      BY <1>1, <3>1
    <3> QED BY <1>1, <3>2
  <2>6. p \in Path
    BY <2>3, <2>5 DEF Tile, Path
  <2> QED BY <2>3, <2>4, <2>5, <2>6
<1> QED BY <1>5, <1>6, <1>7

\* Extends(s, t): the log t starts with s.
Extends(s, t) == Len(s) <= Len(t) /\ \A i \in 1..Len(s) : s[i] = t[i]

\* A longer log has the hashes of a shorter one ...
LEMMA StoredKept ==
  ASSUME NEW s \in Seq(Entry), NEW t \in Seq(Entry), Extends(s, t), Len(t) <= MaxSize,
         NEW l \in HashLevel, NEW i \in Nat, i < Count(s, l)
  PROVE  Stored(s, l, i) = Stored(t, l, i)
<1> DEFINE Kept(k) == \A n \in Nat : n < Count(s, k) => Stored(s, k, n) = Stored(t, k, n)
           T == {k \in Nat : Kept(k)}
           top == Levels - 1
<1>1. Len(s) \in Nat /\ Len(t) \in Nat /\ Len(s) <= MaxSize /\ Levels \in Nat \ {0}
  BY SpanFacts DEF Extends
<1>2. 0 \in T
  <2>1. ASSUME NEW n \in Nat, n < Count(s, 0) PROVE Stored(s, 0, n) = Stored(t, 0, n)
    <3>1. n + 1 \in 1..Len(s)
      BY <1>1, <2>1, CountFacts
    <3>2. s[n + 1] = t[n + 1]
      BY <3>1 DEF Extends
    <3>3. 0 \in HashLevel
      BY LevelFacts
    <3>4. Stored(s, 0, n) = LeafHash(s[n + 1]) /\ Stored(t, 0, n) = LeafHash(t[n + 1])
      BY <3>3, StoredIs
    <3> QED BY <3>2, <3>4
  <2> QED BY <2>1
<1>3. ASSUME NEW k \in 0..(top - 1), k \in T PROVE k + 1 \in T
  <2>1. k + 1 \in HashLevel /\ k + 1 # 0 /\ (k + 1) - 1 = k /\ k \in HashLevel
        /\ k \in 0..(Levels - 1) /\ k \in 0..Levels /\ k + 1 \in Nat
    BY <1>1, LevelFacts
  <2>2. W \in Nat \ {0} /\ Count(s, k) \in Nat /\ Count(s, k + 1) = Count(s, k) \div W
    BY <1>1, <2>1, CountFacts, SpanFacts
  <2>3. ASSUME NEW n \in Nat, n < Count(s, k + 1) PROVE Stored(s, k + 1, n) = Stored(t, k + 1, n)
    <3>1. W * (n + 1) <= Count(s, k)
      <4>1. n + 1 \in Nat /\ n + 1 <= Count(s, k) \div W
        <5>1. Count(s, k) \div W \in Nat
          BY <2>2, DivMod
        <5> QED BY <2>2, <2>3, <5>1
      <4> QED BY <2>2, <4>1, QuotientBound
    <3>2. W * (n + 1) = n * W + W /\ n * W \in Nat
      BY <2>2
    <3>3. \A j \in 1..W : n * W + j - 1 \in Nat /\ n * W + j - 1 < Count(s, k)
      BY <2>2, <3>1, <3>2
    <3>4. \A j \in 1..W : Stored(s, k, n * W + j - 1) = Stored(t, k, n * W + j - 1)
      BY <1>3, <3>3
    <3>5. /\ Stored(s, k + 1, n) = MthSlice([j \in 1..W |-> Stored(s, k, n * W + j - 1)])
          /\ Stored(t, k + 1, n) = MthSlice([j \in 1..W |-> Stored(t, k, n * W + j - 1)])
      BY <2>1, StoredIs
    <3> QED BY <3>4, <3>5
  <2> QED BY <2>1, <2>3
<1>4. top \in Nat
  BY <1>1
<1> HIDE DEF T, top
<1>5. 0..top \subseteq T
  BY <1>2, <1>3, <1>4, NatUpTo
<1>6. l \in T
  BY <1>5, LevelFacts DEF top
<1> QED BY <1>6 DEF T

\* ... and its full files, with the same content.
LEMMA FilesKept ==
  ASSUME NEW s \in Seq(Entry), NEW t \in Seq(Entry), Extends(s, t), Len(t) <= MaxSize
  PROVE  /\ FullFiles(s) \subseteq FullFiles(t)
         /\ \A p \in FullFiles(s) : Content(s, p) = Content(t, p)
         /\ \A l \in 0..Levels : Count(s, l) <= Count(t, l)
<1>1. /\ Len(s) \in Nat /\ Len(t) \in Nat /\ Len(s) <= Len(t) /\ Len(s) <= MaxSize
      /\ W \in Nat \ {0}
  BY SpanFacts DEF Extends
<1>2. ASSUME NEW l \in 0..Levels PROVE Count(s, l) <= Count(t, l)
  BY <1>1, DivMono, SpanFacts DEF Count
<1>3. /\ \A l \in 0..Levels : Count(s, l) \in Nat /\ Count(t, l) \in Nat
      /\ Count(s, 1) = Len(s) \div W
      /\ \A l \in HashLevel : Count(s, l + 1) = Count(s, l) \div W
  BY <1>1, CountFacts, LevelFacts
<1>4. ASSUME NEW p \in FullFiles(s) PROVE p \in FullFiles(t) /\ Content(s, p) = Content(t, p)
  <2>1. /\ p = Tile(p.level, p.n) /\ p.n \in Nat
        /\ p.level = Entries \/ p.level \in HashLevel
    BY <1>1, FullFile
  <2> DEFINE n == p.n
             l == IF p.level = Entries THEN 1 ELSE p.level + 1
             below == IF p.level = Entries THEN Len(s) ELSE Count(s, p.level)
  <2>2. l \in 0..Levels /\ n < Count(s, l) /\ below \in Nat /\ Count(s, l) = below \div W
    <3>1. CASE p.level = Entries
      BY <1>1, <1>3, <2>1, <3>1, FullFile, SpanFacts
    <3>2. CASE p.level \in HashLevel
      <4>1. p.level # Entries /\ p.level \in 0..Levels /\ p.level + 1 \in 0..Levels
        BY <3>2, LevelFacts, SpanFacts
      <4> QED BY <1>1, <1>3, <2>1, <3>2, <4>1, FullFile
    <3> QED BY <2>1, <3>1, <3>2
  <2>3. p \in FullFiles(t)
    <3>1. n < Count(t, l)
      BY <1>2, <1>3, <2>1, <2>2
    <3> QED BY <2>1, <3>1, FullFile, LevelFacts
  <2>4. W * (n + 1) <= below
    <3>1. n + 1 \in Nat /\ n + 1 <= below \div W
      <4>1. below \div W \in Nat
        BY <1>1, <2>2, DivMod
      <4> QED BY <2>1, <2>2, <4>1
    <3> QED BY <1>1, <2>2, <3>1, QuotientBound
  <2>5. n * W \in Nat /\ n * W + W <= below
    <3>1. W * (n + 1) = n * W + W /\ n * W \in Nat
      BY <1>1, <2>1
    <3> QED BY <2>4, <3>1
  <2>6. CASE p.level = Entries
    <3> DEFINE a == n * W + 1
               b == n * W + W
    <3>1. a \in Nat /\ b \in Nat /\ 1 <= a /\ b <= Len(s)
      BY <1>1, <2>5, <2>6
    <3> HIDE DEF a, b, n
    <3>2. \A i \in 1..(b - a + 1) : s[a + i - 1] = t[a + i - 1]
      BY <1>1, <3>1 DEF Extends
    <3>3. /\ SubSeq(s, a, b) = [i \in 1..(b - a + 1) |-> s[a + i - 1]]
          /\ SubSeq(t, a, b) = [i \in 1..(b - a + 1) |-> t[a + i - 1]]
      BY <1>1, <3>1
    <3>4. SubSeq(s, a, b) = SubSeq(t, a, b)
      BY <3>2, <3>3
    <3> QED BY <2>3, <2>6, <3>4 DEF Content, a, b, n
  <2>7. CASE p.level \in HashLevel
    <3>1. p.level # Entries
      BY <2>7, LevelFacts
    <3>2. ASSUME NEW j \in 1..W
          PROVE  Stored(s, p.level, n * W + j - 1) = Stored(t, p.level, n * W + j - 1)
      <4>1. n * W + j - 1 \in Nat /\ n * W + j - 1 < Count(s, p.level)
        <5>1. below = Count(s, p.level) /\ below \in Nat
          BY <2>2, <3>1
        <5> HIDE DEF n, below
        <5> QED BY <1>1, <2>5, <5>1
      <4> QED BY <2>7, <4>1, StoredKept
    <3> QED BY <2>3, <3>1, <3>2 DEF Content
  <2> QED BY <2>1, <2>6, <2>7
<1> QED BY <1>2, <1>4

----------------------------------------------------------------------------
(* The inductive invariant. *)

Fields == {"pc", "op", "level", "at", "next", "bundle", "loading", "trusted",
           "got", "failed", "hit", "still", "missed"}

IsSeq(x) == \E S : x \in Seq(S)

\* A reader has its fields.
Shape(r) ==
  /\ DOMAIN r = Fields
  /\ r.pc \in {"idle", "bundle", "tiles"} /\ r.op \in {"entry", "hash", "scan"}
  /\ r.level \in HashLevel /\ (r.op # "hash" => r.level = 0)
  /\ r.at \in Nat /\ r.next \in Nat
  /\ r.trusted \in BOOLEAN /\ r.failed \in BOOLEAN /\ r.hit \in BOOLEAN

\* What it has given out is in the log.
GotTrue(r, s) ==
  IF r.op = "hash"
  THEN r.got = <<>> \/ (r.at < Count(s, r.level) /\ r.got = <<Stored(s, r.level, r.at)>>)
  ELSE r.got = <<>> \/ \E m \in r.at..Len(s) : r.got = SubSeq(s, r.at + 1, m)

\* A running read has given out what comes before the next entry, and wants a
\* hash of a full tile.
Placed(r, s) ==
  r.pc # "idle" =>
    /\ r.op = "hash" => r.pc = "tiles" /\ r.got = <<>> /\ r.at < Count(s, r.level)
    /\ r.op # "hash" => r.at <= r.next /\ r.next < Len(s) /\ r.got = SubSeq(s, r.at + 1, r.next)
    /\ r.op = "entry" => r.next = r.at
    /\ r.pc = "bundle" => r.loading = <<>> /\ r.trusted = FALSE
    /\ r.pc = "tiles" => Wanted(r) \div W < Count(s, r.level + 1)

\* The bundle it has is well formed as far as it is needed, and right but for damage.
UpTo(r) == IF r.op = "scan" THEN W ELSE (r.next % W) + 1

BundleTrue(r, s) ==
  r.pc = "tiles" /\ r.op # "hash" =>
    /\ IsSeq(r.bundle) /\ UpTo(r) <= Len(r.bundle)
    /\ r.hit \/ r.bundle = Content(s, Tile(Entries, r.next \div W))

\* The tiles it has loaded are those above the wanted hash, and right but for
\* damage; the last one of a trusted read is right.
TileAt(r, k) == Tile(r.level + k - 1, r.loading[k].n)

TileTrue(r, s, k) ==
  /\ r.level + k - 1 \in HashLevel
  /\ r.loading[k].n \in Nat /\ r.loading[k].n < Count(s, r.level + k)
  /\ r.loading[k].n = (Wanted(r) \div W) \div Span[k - 1]
  /\ r.hit \/ r.loading[k].hashes = Content(s, TileAt(r, k))

LastTrue(r, s) ==
  /\ Len(r.loading) > 0
  /\ r.loading[Len(r.loading)].hashes = Content(s, TileAt(r, Len(r.loading)))

TilesTrue(r, s) ==
  r.pc = "tiles" =>
    /\ IsSeq(r.loading)
    /\ \A k \in 1..Len(r.loading) : TileTrue(r, s, k)
    /\ r.trusted => LastTrue(r, s)

\* Damage to what it depends on is noted, and only damage makes it fail.
Reached(s, l, i) ==
  {p \in FullFiles(s) : p.level >= l /\ p.n = (i \div W) \div Span[p.level - l]}

Depends(r, s) ==
  IF r.op = "hash" THEN Reached(s, r.level, r.at)
  ELSE UNION {{Tile(Entries, i \div W)} \cup Reached(s, 0, i) :
              i \in r.at..(IF r.op = "scan" THEN Len(s) - 1 ELSE r.at)}

HitTrue(r, s, bad) ==
  /\ r.pc # "idle" => ~r.failed /\ (bad \cap Depends(r, s) # {} => r.hit)
  /\ r.failed => r.hit

ReaderOK(r, s, bad) ==
  /\ Shape(r) /\ GotTrue(r, s) /\ Placed(r, s)
  /\ BundleTrue(r, s) /\ TilesTrue(r, s) /\ HitTrue(r, s, bad)

LogOK == log \in Seq(Entry) /\ Len(log) <= MaxSize

\* What is not damaged is there and right.
FilesOK ==
  /\ DOMAIN files \subseteq Path /\ damaged \subseteq FullFiles(log)
  /\ \A p \in FullFiles(log) \ damaged : p \in DOMAIN files /\ files[p] = Content(log, p)
  /\ \A p \in DOMAIN files : p.level = Entries => IsSeq(files[p])

ReadersOK ==
  /\ DOMAIN reader = Thread
  /\ \A t \in Thread : ReaderOK(reader[t], log, damaged)

Inv == LogOK /\ FilesOK /\ VerifiedTilesTrue /\ ReadersOK

----------------------------------------------------------------------------
(* Readers. *)

\* What a read depends on is set when it starts.
LEMMA DependsIs ==
  ASSUME NEW r, NEW q, q.op = r.op, q.level = r.level, q.at = r.at
  PROVE  /\ DependsOn(r) = Depends(r, log)
         /\ DependsOn(r)' = Depends(r, log')
         /\ \A s : Depends(q, s) = Depends(r, s)
<1>1. \A l, i : Above(l, i) = Reached(log, l, i)
  BY DEF Above, Reached
<1>2. \A l, i : Above(l, i)' = Reached(log', l, i)
  BY DEF Above, Reached
<1>3. DependsOn(r) = Depends(r, log)
  BY <1>1 DEF DependsOn, Depends
<1>4. DependsOn(r)' = Depends(r, log')
  BY <1>2 DEF DependsOn, Depends
<1> QED BY <1>3, <1>4 DEF Depends

\* A read that has just started.
Started(q, op, level, at) ==
  /\ DOMAIN q = Fields /\ q.pc = "idle" /\ q.op = op /\ q.level = level
  /\ q.at = at /\ q.next = at /\ q.bundle = <<>> /\ q.loading = <<>>
  /\ q.trusted = FALSE /\ q.got = <<>> /\ q.failed = FALSE /\ q.hit \in BOOLEAN
  /\ damaged \cap Depends(q, log) # {} => q.hit

\* A read starts with nothing given out, and notes damage that is already there.
LEMMA StartFacts ==
  ASSUME NEW op, NEW level, NEW at, NEW q, q = Start(op, level, at)
  PROVE  Started(q, op, level, at)
<1> DEFINE still == IF op = "scan" /\ at = 0 THEN damaged ELSE {}
           r == [NoRead EXCEPT !.op = op, !.level = level, !.at = at, !.next = at,
                               !.still = still]
<1>1. /\ DOMAIN r = Fields /\ r.pc = "idle" /\ r.op = op /\ r.level = level
      /\ r.at = at /\ r.next = at /\ r.bundle = <<>> /\ r.loading = <<>>
      /\ r.trusted = FALSE /\ r.got = <<>> /\ r.failed = FALSE /\ r.hit = FALSE
  BY DEF NoRead, Fields
<1>2. q = Watched(r, damaged)
  BY DEF Start
<1> HIDE DEF r
<1>3. /\ DOMAIN q = Fields /\ q.pc = r.pc /\ q.op = r.op /\ q.level = r.level
      /\ q.at = r.at /\ q.next = r.next /\ q.bundle = r.bundle /\ q.loading = r.loading
      /\ q.trusted = r.trusted /\ q.got = r.got /\ q.failed = r.failed
      /\ q.hit = (r.hit \/ damaged \cap DependsOn(r) # {})
  BY <1>1, <1>2 DEF Watched, Fields
<1>4. DependsOn(r) = Depends(q, log)
  <2>1. PICK x : x = r
    OBVIOUS
  <2>2. DependsOn(x) = Depends(x, log) /\ Depends(q, log) = Depends(x, log)
    BY <1>3, <2>1, DependsIs
  <2> QED BY <2>1, <2>2
<1>5. q.hit \in BOOLEAN /\ (damaged \cap Depends(q, log) # {} => q.hit)
  BY <1>1, <1>3, <1>4
<1> QED BY <1>1, <1>3, <1>5 DEF Started

\* A read that is over: with an answer, a failure or the last entry of a scan.
Over(q, r, got, failed, hit) ==
  /\ DOMAIN q = Fields /\ q.pc = "idle" /\ q.op = r.op /\ q.level = r.level
  /\ q.at = r.at /\ q.next = r.at /\ q.trusted = FALSE
  /\ q.got = got /\ q.failed = failed /\ q.hit = hit

\* What an answer leaves of a read ...
LEMMA AnsweredFacts ==
  ASSUME NEW r, DOMAIN r = Fields, NEW x
  PROVE  Over(Answered(r, x), r, r.got \o x, r.failed, FALSE)
BY DEF Over, Answered, Ended, Fields

\* ... and a failure ...
LEMMA FailedFacts ==
  ASSUME NEW r, DOMAIN r = Fields
  PROVE  Over(Failed(r), r, r.got, TRUE, r.hit)
BY DEF Over, Failed, Ended, Fields

\* ... and an end without either.
LEMMA EndedFacts ==
  ASSUME NEW r, DOMAIN r = Fields
  PROVE  Over(Ended(r), r, r.got, r.failed, FALSE)
BY DEF Over, Ended, Fields

\* It only has to have given out what is in the log, and to know why it failed.
LEMMA OverOK ==
  ASSUME NEW q, NEW s, NEW bad, Shape(q), q.pc = "idle", GotTrue(q, s), q.failed => q.hit
  PROVE  ReaderOK(q, s, bad)
BY DEF ReaderOK, Placed, BundleTrue, TilesTrue, HitTrue

\* One thread's step leaves all else alone.
LEMMA ReadStep ==
  ASSUME Inv, NEW t \in Thread, NEW q, Reading(t, q), ReaderOK(q, log, damaged)
  PROVE  LogOK' /\ FilesOK' /\ ReadersOK'
<1>1. log' = log /\ files' = files /\ damaged' = damaged
  BY DEF Reading
<1>2. LogOK' /\ FilesOK'
  BY <1>1 DEF Inv, LogOK, FilesOK
<1>3. /\ DOMAIN reader' = Thread
      /\ \A u \in Thread : reader'[u] = IF u = t THEN q ELSE reader[u]
  BY DEF Reading, Inv, ReadersOK
<1>4. \A u \in Thread : ReaderOK(reader'[u], log, damaged)
  BY <1>3 DEF Inv, ReadersOK
<1> QED BY <1>1, <1>2, <1>3, <1>4 DEF ReadersOK

\* Two slices of a log in a row.
Joined(s, a, b, c) ==
  SubSeq(s, a + 1, b) \o SubSeq(s, b + 1, c) = SubSeq(s, a + 1, c)

\* They join to one.
LEMMA SlicesJoin ==
  ASSUME NEW s \in Seq(Entry), NEW a \in Nat, NEW b \in Nat, NEW c \in Nat,
         a <= b, b <= c, c <= Len(s)
  PROVE  Joined(s, a, b, c)
<1> DEFINE x == SubSeq(s, a + 1, b)
           y == SubSeq(s, b + 1, c)
           z == SubSeq(s, a + 1, c)
<1>1. x \in Seq(Entry) /\ Len(x) = b - a /\ \A i \in 1..(b - a) : x[i] = s[a + i]
  OBVIOUS
<1>2. y \in Seq(Entry) /\ Len(y) = c - b /\ \A i \in 1..(c - b) : y[i] = s[b + i]
  OBVIOUS
<1>3. z \in Seq(Entry) /\ Len(z) = c - a /\ \A i \in 1..(c - a) : z[i] = s[a + i]
  OBVIOUS
<1> HIDE DEF x, y, z
<1> DEFINE w == x \o y
<1>4. /\ w \in Seq(Entry) /\ Len(w) = c - a
      /\ \A i \in 1..(b - a) : w[i] = x[i]
      /\ \A i \in 1..(c - b) : w[(b - a) + i] = y[i]
  <2>1. /\ w \in Seq(Entry) /\ Len(w) = Len(x) + Len(y)
        /\ \A i \in 1..Len(x) : w[i] = x[i]
        /\ \A i \in 1..Len(y) : w[Len(x) + i] = y[i]
    <3>1. x \in Seq(Entry) /\ y \in Seq(Entry)
      BY <1>1, <1>2
    <3> QED BY <3>1, Concatenated
  <2> HIDE DEF w
  <2> QED BY <1>1, <1>2, <2>1
<1> HIDE DEF w
<1>5. ASSUME NEW i \in 1..(c - a) PROVE w[i] = z[i]
  <2>1. CASE i <= b - a
    BY <1>1, <1>3, <1>4, <2>1
  <2>2. CASE i > b - a
    <3> DEFINE j == i - (b - a)
    <3>1. j \in 1..(c - b) /\ (b - a) + j = i /\ b + j = a + i
      BY <2>2
    <3> HIDE DEF j
    <3>2. w[i] = y[j] /\ y[j] = s[b + j]
      BY <1>2, <1>4, <3>1
    <3> QED BY <1>3, <3>1, <3>2
  <2> QED BY <2>1, <2>2
<1>6. w = z
  BY <1>3, <1>4, <1>5, SameSequence
<1> QED BY <1>6 DEF Joined, w, x, y, z

----------------------------------------------------------------------------
(* Steps. *)

\* A read of a hash starts.
LEMMA ReadHashOK ==
  ASSUME Inv, NEW t \in Thread, NEW l \in HashLevel, NEW i \in Nat, ReadHash(t, l, i)
  PROVE  Inv'
<1>1. LogOK /\ i < Count(log, l) /\ verified' = verified
  BY DEF Inv, ReadHash
<1>2. PICK q : q = Start("hash", l, i)
  OBVIOUS
<1>3. /\ DOMAIN q = Fields /\ q.pc = "idle" /\ q.op = "hash" /\ q.level = l
      /\ q.at = i /\ q.next = i /\ q.bundle = <<>> /\ q.loading = <<>>
      /\ q.trusted = FALSE /\ q.got = <<>> /\ q.failed = FALSE /\ q.hit \in BOOLEAN
      /\ damaged \cap Depends(q, log) # {} => q.hit
  <2>1. Started(q, "hash", l, i)
    BY <1>2, StartFacts
  <2> QED BY <2>1 DEF Started
<1>4. CASE InEdge(l, i)
  <2>1. PICK x : x = Stored(log, l, i)
    OBVIOUS
  <2>2. PICK a : a = Answered(q, <<x>>)
    OBVIOUS
  <2>3. Reading(t, a)
    BY <1>2, <1>4, <2>1, <2>2 DEF ReadHash
  <2>4. /\ DOMAIN a = Fields /\ a.pc = "idle" /\ a.op = q.op /\ a.level = q.level
        /\ a.at = q.at /\ a.next = q.at /\ a.trusted = FALSE /\ a.got = q.got \o <<x>>
        /\ a.failed = q.failed /\ a.hit = FALSE
    <3>1. Over(a, q, q.got \o <<x>>, q.failed, FALSE)
      BY <1>3, <2>2, AnsweredFacts
    <3> QED BY <3>1 DEF Over
  <2>5. <<>> \o <<x>> = <<x>>
    OBVIOUS
  <2>6. Shape(a) /\ GotTrue(a, log)
    BY <1>1, <1>3, <2>1, <2>4, <2>5 DEF Shape, GotTrue
  <2>7. ReaderOK(a, log, damaged)
    BY <1>3, <2>4, <2>6, OverOK
  <2> QED BY <1>1, <2>3, <2>7, ReadStep DEF Inv, VerifiedTilesTrue, Reading
<1>5. CASE ~InEdge(l, i)
  <2>1. PICK a : a = [q EXCEPT !.pc = "tiles"]
    OBVIOUS
  <2>2. Reading(t, a)
    BY <1>2, <1>5, <2>1 DEF ReadHash
  <2>3. /\ DOMAIN a = Fields /\ a.pc = "tiles" /\ a.op = "hash" /\ a.level = l
        /\ a.at = i /\ a.next = i /\ a.loading = <<>>
        /\ a.trusted = FALSE /\ a.got = <<>> /\ a.failed = FALSE /\ a.hit = q.hit
    BY <1>3, <2>1 DEF Fields
  <2>4. Depends(a, log) = Depends(q, log)
    BY <1>3, <2>3, DependsIs
  <2>5. i \div W < Count(log, l + 1)
    <3>1. Count(log, l + 1) = Count(log, l) \div W /\ l + 1 \in 0..Levels /\ l \in 0..Levels
      BY <1>1, CountFacts, LevelFacts, SpanFacts DEF LogOK
    <3>2. Count(log, l + 1) \in Nat /\ i \div W \in Nat
      BY <1>1, <3>1, CountFacts, SpanFacts, DivMod DEF LogOK
    <3> QED BY <1>5, <3>1, <3>2 DEF InEdge
  <2>6. Shape(a) /\ GotTrue(a, log) /\ Placed(a, log)
    BY <1>1, <1>3, <2>3, <2>5 DEF Shape, GotTrue, Placed, Wanted
  <2>7. BundleTrue(a, log) /\ TilesTrue(a, log)
    <3>1. IsSeq(<<>>) /\ Len(<<>>) = 0
      BY DEF IsSeq
    <3> QED BY <2>3, <3>1 DEF BundleTrue, TilesTrue
  <2>8. HitTrue(a, log, damaged)
    BY <1>3, <2>3, <2>4 DEF HitTrue
  <2>9. ReaderOK(a, log, damaged)
    BY <2>6, <2>7, <2>8 DEF ReaderOK
  <2> QED BY <1>1, <2>2, <2>9, ReadStep DEF Inv, VerifiedTilesTrue, Reading
<1> QED BY <1>4, <1>5

\* A read of entries starts.
LEMMA ReadEntriesOK ==
  ASSUME Inv, NEW t \in Thread, NEW op, NEW i \in Nat, ReadEntries(t, op, i)
  PROVE  Inv'
<1>1. /\ LogOK /\ i < Len(log) /\ verified' = verified /\ op \in {"entry", "scan"}
  BY DEF Inv, ReadEntries
<1>2. PICK q : q = Start(op, 0, i)
  OBVIOUS
<1>3. /\ DOMAIN q = Fields /\ q.op = op /\ q.level = 0
      /\ q.at = i /\ q.next = i /\ q.loading = <<>>
      /\ q.trusted = FALSE /\ q.got = <<>> /\ q.failed = FALSE /\ q.hit \in BOOLEAN
      /\ damaged \cap Depends(q, log) # {} => q.hit
  <2>1. Started(q, op, 0, i)
    BY <1>2, StartFacts
  <2> QED BY <2>1 DEF Started
<1>4. PICK a : a = [q EXCEPT !.pc = "bundle"]
  OBVIOUS
<1>5. Reading(t, a)
  BY <1>2, <1>4 DEF ReadEntries
<1>6. /\ DOMAIN a = Fields /\ a.pc = "bundle" /\ a.op = op /\ a.level = 0
      /\ a.at = i /\ a.next = i /\ a.loading = <<>>
      /\ a.trusted = FALSE /\ a.got = <<>> /\ a.failed = FALSE /\ a.hit = q.hit
  BY <1>3, <1>4 DEF Fields
<1>7. Depends(a, log) = Depends(q, log)
  BY <1>3, <1>6, DependsIs
<1>8. SubSeq(log, a.at + 1, a.next) = <<>>
  <2>1. SubSeq(log, i + 1, i) = <<>>
    BY <1>1 DEF LogOK
  <2> QED BY <1>6, <2>1
<1>9. Shape(a) /\ GotTrue(a, log) /\ Placed(a, log)
  <2>1. a.op # "hash" /\ a.op \in {"entry", "scan"}
    BY <1>1, <1>6
  <2>2. Shape(a)
    BY <1>3, <1>6, <2>1, LevelFacts DEF Shape
  <2>3. GotTrue(a, log)
    BY <1>6, <2>1 DEF GotTrue
  <2>4. Placed(a, log)
    BY <1>1, <1>6, <1>8, <2>1 DEF Placed
  <2> QED BY <2>2, <2>3, <2>4
<1>10. BundleTrue(a, log) /\ TilesTrue(a, log) /\ HitTrue(a, log, damaged)
  BY <1>3, <1>6, <1>7 DEF BundleTrue, TilesTrue, HitTrue
<1>11. ReaderOK(a, log, damaged)
  BY <1>9, <1>10 DEF ReaderOK
<1> QED BY <1>1, <1>5, <1>11, ReadStep DEF Inv, VerifiedTilesTrue, Reading

\* The files a running read is about to look at are among those it depends on.
LEMMA WantsDepends ==
  ASSUME NEW s \in Seq(Entry), NEW r, Shape(r), Placed(r, s), r.pc # "idle"
  PROVE  /\ r.op # "hash" => Tile(Entries, r.next \div W) \in Depends(r, s)
         /\ \A k \in Nat, p \in FullFiles(s) :
              p = Tile(r.level + k, (Wanted(r) \div W) \div Span[k]) => p \in Depends(r, s)
<1>1. ASSUME r.op # "hash"
      PROVE  r.next \in r.at..(IF r.op = "scan" THEN Len(s) - 1 ELSE r.at)
  BY <1>1 DEF Shape, Placed
<1>2. ASSUME r.op # "hash" PROVE Tile(Entries, r.next \div W) \in Depends(r, s)
  BY <1>1, <1>2 DEF Depends
<1>3. ASSUME NEW k \in Nat, NEW p \in FullFiles(s),
             p = Tile(r.level + k, (Wanted(r) \div W) \div Span[k])
      PROVE  p \in Depends(r, s)
  <2>1. r.level \in Nat /\ p.level = r.level + k /\ p.level >= r.level /\ p.level - r.level = k
        /\ p.n = (Wanted(r) \div W) \div Span[k]
    BY <1>3, LevelFacts, SpanFacts DEF Tile, Shape
  <2>2. p \in Reached(s, r.level, Wanted(r))
    BY <2>1 DEF Reached
  <2>3. CASE r.op = "hash"
    BY <2>2, <2>3 DEF Wanted, Depends
  <2>4. CASE r.op # "hash"
    <3>1. p \in Reached(s, 0, r.next)
      BY <2>2, <2>4 DEF Shape, Wanted
    <3> QED BY <1>1, <2>4, <3>1 DEF Depends
  <2> QED BY <2>3, <2>4
<1> QED BY <1>2, <1>3

\* What a read finds missing or wrong has been damaged, and it knows.
LEMMA HitIf ==
  ASSUME LogOK, FilesOK, NEW r, ReaderOK(r, log, damaged), r.pc # "idle",
         NEW p \in FullFiles(log), p \in Depends(r, log)
  PROVE  r.hit \/ (p \in DOMAIN files /\ files[p] = Content(log, p))
BY DEF FilesOK, ReaderOK, HitTrue

\* What a full bundle of the log holds ...
LEMMA FullBundle ==
  ASSUME NEW s \in Seq(Entry), Len(s) <= MaxSize, NEW n \in Nat, n < Count(s, 1)
  PROVE  LET b == Content(s, Tile(Entries, n)) IN
         /\ n * W \in Nat /\ n * W + W <= Len(s)
         /\ b \in Seq(Entry) /\ Len(b) = W
         /\ \A j \in 1..W : b[j] = s[n * W + j] /\ b[j] \in Entry
<1>1. W \in Nat \ {0} /\ Len(s) \in Nat /\ Count(s, 1) = Len(s) \div W
  BY CountFacts, SpanFacts
<1>2. W * (n + 1) <= Len(s)
  <2>1. n + 1 \in Nat /\ n + 1 <= Len(s) \div W
    <3>1. Len(s) \div W \in Nat
      BY <1>1, DivMod
    <3> QED BY <1>1, <3>1
  <2> QED BY <1>1, <2>1, QuotientBound
<1>3. n * W \in Nat /\ W * (n + 1) = n * W + W
  BY <1>1
<1> DEFINE a == n * W
           b == SubSeq(s, a + 1, a + W)
<1>4. Content(s, Tile(Entries, n)) = b
  BY DEF Content, Tile
<1>5. a \in Nat /\ a + W <= Len(s)
  BY <1>1, <1>2, <1>3
<1> HIDE DEF a
<1>6. b \in Seq(Entry) /\ Len(b) = W /\ \A j \in 1..W : b[j] = s[a + j] /\ b[j] \in Entry
  <2>1. b = [j \in 1..W |-> s[a + j]]
    BY <1>1, <1>5
  <2>2. \A j \in 1..W : s[a + j] \in Entry
    BY <1>1, <1>5
  <2> HIDE DEF b
  <2> QED BY <1>1, <2>1, <2>2
<1> QED BY <1>4, <1>5, <1>6 DEF a

\* A function on the first n numbers is a sequence of length n.
LEMMA FunctionIsSequence ==
  ASSUME NEW n \in Nat, NEW S, NEW f \in [1..n -> S]
  PROVE  f \in Seq(S) /\ Len(f) = n /\ DOMAIN f = 1..n
OBVIOUS

\* ... and a full tile, whose hash is in the level above.
LEMMA FullTile ==
  ASSUME NEW s \in Seq(Entry), Len(s) <= MaxSize, NEW l \in HashLevel, NEW n \in Nat,
         n < Count(s, l + 1)
  PROVE  /\ l + 1 \in HashLevel
         /\ Content(s, Tile(l, n)) = [j \in 1..W |-> Stored(s, l, n * W + j - 1)]
         /\ Len(Content(s, Tile(l, n))) = W
         /\ Stored(s, l + 1, n) = MthSlice(Content(s, Tile(l, n)))
<1>1. /\ l \in 0..(Levels - 1) /\ W \in Nat /\ Levels \in Nat
      /\ Count(s, Levels) = 0 /\ l # Entries
  BY LevelFacts, SpanFacts, CountFacts
<1>2. l + 1 \in HashLevel /\ l + 1 # 0 /\ (l + 1) - 1 = l
  <2>1. l + 1 # Levels
    BY <1>1
  <2> QED BY <1>1, <2>1, LevelFacts
<1>3. Content(s, Tile(l, n)) = [j \in 1..W |-> Stored(s, l, n * W + j - 1)]
  BY <1>1 DEF Content, Tile
<1>4. Stored(s, l + 1, n) = MthSlice([j \in 1..W |-> Stored(s, l, n * W + j - 1)])
  BY <1>2, StoredIs
<1>5. Len([j \in 1..W |-> Stored(s, l, n * W + j - 1)]) = W
  <2> DEFINE f == [j \in 1..W |-> Stored(s, l, n * W + j - 1)]
             S == {f[j] : j \in 1..W}
  <2>1. f \in [1..W -> S]
    OBVIOUS
  <2> HIDE DEF f, S
  <2>2. Len(f) = W
    BY <1>1, <2>1, FunctionIsSequence
  <2> QED BY <2>2 DEF f
<1> QED BY <1>2, <1>3, <1>4, <1>5

\* A bundle is got, or the last entries are given out.
LEMMA GetBundleOK ==
  ASSUME Inv, NEW t \in Thread, GetBundle(t)
  PROVE  Inv'
<1>1. LogOK /\ FilesOK /\ verified' = verified
  BY DEF Inv, GetBundle
<1>2. PICK r : r = reader[t]
  OBVIOUS
<1>3. ReaderOK(r, log, damaged) /\ r.pc = "bundle"
  BY <1>2 DEF Inv, ReadersOK, GetBundle
<1>4. PICK s : s = log
  OBVIOUS
<1>5. /\ s \in Seq(Entry) /\ Len(s) \in Nat /\ Len(s) <= MaxSize
      /\ W \in Nat \ {0} /\ Count(s, 1) = Len(s) \div W /\ Count(s, 1) \in Nat
  <2>1. s \in Seq(Entry) /\ Len(s) \in Nat /\ Len(s) <= MaxSize
    BY <1>1, <1>4 DEF LogOK
  <2> QED BY <2>1, CountFacts, SpanFacts
<1>6. /\ Shape(r) /\ Placed(r, s) /\ HitTrue(r, s, damaged) /\ r.pc # "idle"
      /\ r.op \in {"entry", "scan"} /\ r.op # "hash" /\ r.level = 0 /\ DOMAIN r = Fields
      /\ r.at \in Nat /\ r.next \in Nat /\ r.at <= r.next /\ r.next < Len(s)
      /\ GotTrue(r, s) /\ r.got = SubSeq(s, r.at + 1, r.next)
      /\ r.loading = <<>> /\ r.trusted = FALSE /\ r.failed = FALSE
      /\ r.op = "entry" => r.next = r.at
  <2>1. Shape(r) /\ GotTrue(r, s) /\ Placed(r, s) /\ HitTrue(r, s, damaged)
    BY <1>3, <1>4 DEF ReaderOK
  <2>2. r.op # "hash"
    BY <1>3, <2>1 DEF Placed
  <2> QED BY <1>3, <2>1, <2>2 DEF Shape, Placed, HitTrue
<1> DEFINE n == r.next \div W
           off == r.next % W
           p == Tile(Entries, n)
<1>7. n \in Nat /\ off \in 0..(W - 1) /\ n <= Count(s, 1)
  <2>1. n <= Len(s) \div W
    <3>1. PICK x, y : x = r.next /\ y = Len(s)
      OBVIOUS
    <3>2. x \in Nat /\ y \in Nat /\ x <= y /\ W \in Nat \ {0}
      BY <1>5, <1>6, <3>1
    <3>3. x \div W <= y \div W
      BY <3>2, DivMono
    <3> QED BY <3>1, <3>3
  <2> QED BY <1>5, <1>6, <2>1, DivMod
<1>8. CASE n = Len(s) \div W
  <2> DEFINE c == IF r.op = "scan" THEN Len(s) ELSE r.next + 1
  <2>1. PICK x : x = SubSeq(s, r.next + 1, c)
    OBVIOUS
  <2>2. PICK q : q = Answered(r, x)
    OBVIOUS
  <2>3. Reading(t, q)
    BY <1>2, <1>4, <1>8, <2>1, <2>2 DEF GetBundle, Tile
  <2>4. Over(q, r, r.got \o x, r.failed, FALSE)
    BY <1>6, <2>2, AnsweredFacts
  <2>5. c \in Nat /\ r.next <= c /\ c <= Len(s) /\ c \in r.at..Len(s)
    <3>1. PICK a, b, y : a = r.at /\ b = r.next /\ y = Len(s)
      OBVIOUS
    <3>2. /\ a \in Nat /\ b \in Nat /\ a <= b /\ b < y /\ y \in Nat
          /\ c = y \/ c = b + 1
      BY <1>5, <1>6, <3>1
    <3> HIDE DEF c
    <3>3. c \in Nat /\ b <= c /\ c <= y /\ c \in a..y
      BY <3>2
    <3> QED BY <3>1, <3>3
  <2> HIDE DEF c
  <2>6. r.got \o x = SubSeq(s, r.at + 1, c)
    <3>1. r.at \in Nat /\ r.next \in Nat /\ r.at <= r.next
      BY <1>6
    <3>2. Joined(s, r.at, r.next, c)
      BY <1>5, <2>5, <3>1, SlicesJoin
    <3> QED BY <1>6, <2>1, <3>2 DEF Joined
  <2>7. Shape(q) /\ GotTrue(q, s) /\ q.pc = "idle" /\ ~q.failed
    BY <1>6, <2>4, <2>5, <2>6 DEF Over, Shape, GotTrue
  <2>8. ReaderOK(q, s, damaged)
    BY <2>7, OverOK
  <2> QED BY <1>1, <1>4, <2>3, <2>8, ReadStep DEF Inv, VerifiedTilesTrue, Reading
<1>9. CASE n # Len(s) \div W
  <2> DEFINE Good == /\ p \in DOMAIN files
                     /\ IF r.op = "scan" THEN IsWhole(files[p]) ELSE HasEntry(files[p], off + 1)
  <2>1. n < Count(s, 1)
    BY <1>5, <1>7, <1>9
  <2>2. p \in FullFiles(s) /\ p \in Depends(r, s)
    BY <1>5, <1>6, <1>7, <2>1, FullFile, WantsDepends
  <2>3. r.hit \/ (p \in DOMAIN files /\ files[p] = Content(s, p))
    BY <1>1, <1>3, <1>4, <2>2, HitIf DEF p
  <2>4. CASE Good
    <3>1. PICK q : q = [r EXCEPT !.pc = "tiles", !.bundle = files[p]]
      OBVIOUS
    <3>2. Reading(t, q)
      BY <1>2, <1>4, <1>9, <2>4, <3>1 DEF GetBundle, Tile
    <3>3. /\ DOMAIN q = Fields /\ q.pc = "tiles" /\ q.bundle = files[p]
          /\ q.op = r.op /\ q.level = r.level /\ q.at = r.at /\ q.next = r.next
          /\ q.loading = r.loading /\ q.trusted = r.trusted /\ q.got = r.got
          /\ q.failed = r.failed /\ q.hit = r.hit
      BY <1>6, <3>1 DEF Fields
    <3>4. Shape(q)
      BY <1>6, <3>3 DEF Shape
    <3>5. GotTrue(q, s)
      BY <1>6, <3>3 DEF GotTrue
    <3>6. Placed(q, s)
      BY <1>6, <2>1, <3>3 DEF Placed, Wanted
    <3>7. BundleTrue(q, s)
      <4>1. IsSeq(files[p])
        BY <1>1, <2>4 DEF FilesOK, Tile
      <4>2. UpTo(q) <= Len(files[p])
        <5>1. CASE q.op = "scan"
          BY <1>5, <2>4, <3>3, <5>1 DEF IsWhole, UpTo
        <5>2. CASE q.op # "scan"
          BY <2>4, <3>3, <5>2 DEF HasEntry, UpTo
        <5> QED BY <5>1, <5>2
      <4> QED BY <2>3, <3>3, <4>1, <4>2 DEF BundleTrue
    <3>8. TilesTrue(q, s)
      <4>1. IsSeq(<<>>) /\ Len(<<>>) = 0
        BY DEF IsSeq
      <4> QED BY <1>6, <3>3, <4>1 DEF TilesTrue
    <3>9. HitTrue(q, s, damaged)
      <4>1. Depends(q, s) = Depends(r, s)
        BY <3>3, DependsIs
      <4> QED BY <1>6, <3>3, <4>1 DEF HitTrue
    <3>10. ReaderOK(q, s, damaged)
      BY <3>4, <3>5, <3>6, <3>7, <3>8, <3>9 DEF ReaderOK
    <3> QED BY <1>1, <1>4, <3>2, <3>10, ReadStep DEF Inv, VerifiedTilesTrue, Reading
  <2>5. CASE ~Good
    <3>1. PICK q : q = Failed(r)
      OBVIOUS
    <3>2. Reading(t, q)
      BY <1>2, <1>4, <1>9, <2>5, <3>1 DEF GetBundle, Tile
    <3>3. Over(q, r, r.got, TRUE, r.hit)
      BY <1>6, <3>1, FailedFacts
    <3>4. r.hit
      <4>1. SUFFICES ASSUME files[p] = Content(s, p), p \in DOMAIN files PROVE Good
        BY <2>3, <2>5
      <4> DEFINE b == Content(s, p)
      <4>2. Len(b) = W /\ \A j \in 1..W : b[j] \in Entry
        BY <1>5, <1>7, <2>1, FullBundle
      <4> HIDE DEF b
      <4>3. \A j \in 1..W : b[j] # Torn
        BY <4>2, ReadAssumption
      <4>4. HasEntry(b, off + 1) /\ HasEntry(b, W)
        BY <1>5, <1>7, <4>2, <4>3 DEF HasEntry
      <4> QED BY <4>1, <4>2, <4>4 DEF IsWhole, b
    <3>5. GotTrue(q, s)
      BY <1>6, <3>3 DEF Over, GotTrue
    <3>6. Shape(q) /\ q.pc = "idle" /\ q.hit
      BY <1>6, <3>3, <3>4 DEF Over, Shape
    <3>7. ReaderOK(q, s, damaged)
      BY <3>5, <3>6, OverOK
    <3> QED BY <1>1, <1>4, <3>2, <3>7, ReadStep DEF Inv, VerifiedTilesTrue, Reading
  <2> QED BY <2>4, <2>5
<1> QED BY <1>8, <1>9

\* Only its tiles have changed.
Keeps(q, r) ==
  /\ DOMAIN q = Fields /\ q.pc = r.pc /\ q.op = r.op /\ q.level = r.level
  /\ q.at = r.at /\ q.next = r.next /\ q.bundle = r.bundle /\ q.got = r.got
  /\ q.failed = r.failed /\ q.hit = r.hit /\ q.trusted \in BOOLEAN

\* A read with other tiles is as good if the tiles are.
LEMMA KeepsOK ==
  ASSUME NEW r, NEW s, NEW bad, ReaderOK(r, s, bad), r.pc = "tiles",
         NEW q, Keeps(q, r), TilesTrue(q, s)
  PROVE  ReaderOK(q, s, bad)
<1>1. Shape(r) /\ GotTrue(r, s) /\ Placed(r, s) /\ BundleTrue(r, s) /\ HitTrue(r, s, bad)
  BY DEF ReaderOK
<1>2. Shape(q)
  BY <1>1 DEF Keeps, Shape
<1>3. GotTrue(q, s)
  BY <1>1 DEF Keeps, GotTrue
<1>4. Placed(q, s)
  BY <1>1 DEF Keeps, Placed, Wanted
<1>5. BundleTrue(q, s)
  <2>1. UpTo(q) = UpTo(r)
    BY DEF Keeps, UpTo
  <2> QED BY <1>1, <2>1 DEF Keeps, BundleTrue
<1>6. HitTrue(q, s, bad)
  <2>1. Depends(q, s) = Depends(r, s)
    BY DependsIs DEF Keeps
  <2> QED BY <1>1, <2>1 DEF Keeps, HitTrue
<1> QED BY <1>2, <1>3, <1>4, <1>5, <1>6 DEF ReaderOK

\* A read may fail if it knows of damage.
LEMMA FailedOK ==
  ASSUME NEW r, NEW s, NEW bad, Shape(r), GotTrue(r, s), r.hit, NEW q, q = Failed(r)
  PROVE  ReaderOK(q, s, bad)
<1>1. DOMAIN r = Fields
  BY DEF Shape
<1>2. Over(q, r, r.got, TRUE, r.hit)
  BY <1>1, FailedFacts
<1>3. Shape(q) /\ q.pc = "idle" /\ q.hit
  BY <1>2 DEF Over, Shape
<1>4. GotTrue(q, s)
  BY <1>2 DEF Over, GotTrue
<1> QED BY <1>3, <1>4, OverOK

\* The place of the next tile: above the last one loaded, a full tile of the log.
NextTile(r) ==
  IF Len(r.loading) = 0 THEN Tile(r.level, Wanted(r) \div W)
  ELSE Tile(r.level + Len(r.loading), r.loading[Len(r.loading)].n \div W)

NextIsFull(r, s, p) ==
  /\ p.level = r.level + Len(r.loading) /\ p.level \in HashLevel
  /\ p.n \in Nat /\ p.n < Count(s, p.level + 1)
  /\ p.n = (Wanted(r) \div W) \div Span[Len(r.loading)]
  /\ p = Tile(p.level, p.n)

\* The next tile is full while the hash wanted from it is not in the edge.
LEMMA NextTileFull ==
  ASSUME NEW s \in Seq(Entry), Len(s) <= MaxSize,
         NEW r, Shape(r), Placed(r, s), TilesTrue(r, s), r.pc = "tiles",
         NEW p, p = NextTile(r),
         Len(r.loading) > 0 =>
           ~(r.loading[Len(r.loading)].n \div W >= Count(s, p.level) \div W)
  PROVE  NextIsFull(r, s, p)
<1> DEFINE k == Len(r.loading)
           w == Wanted(r)
<1>1. k \in Nat /\ r.level \in HashLevel /\ w \in Nat /\ W \in Nat \ {0}
  <2>1. Len(r.loading) \in Nat
    <3>1. PICK S : r.loading \in Seq(S)
      BY DEF TilesTrue, IsSeq
    <3> QED BY <3>1
  <2> QED BY <2>1, SpanFacts DEF Shape, Wanted
<1>2. w \div W < Count(s, r.level + 1) /\ w \div W \in Nat
  <2>1. w \div W \in Nat
    BY <1>1, DivMod
  <2> QED BY <2>1 DEF Placed
<1>3. p = IF k = 0 THEN Tile(r.level, w \div W) ELSE Tile(r.level + k, r.loading[k].n \div W)
  BY DEF NextTile
<1> HIDE DEF k, w
<1>4. CASE k = 0
  <2>1. p.level = r.level /\ p.n = w \div W /\ p = Tile(p.level, p.n)
    BY <1>3, <1>4 DEF Tile
  <2>2. (w \div W) \div Span[0] = w \div W
    BY <1>2, SpanFacts
  <2>3. r.level + k = r.level
    BY <1>1, <1>4, LevelFacts
  <2> QED BY <1>1, <1>2, <1>4, <2>1, <2>2, <2>3 DEF NextIsFull, k, w
<1>5. CASE k # 0
  <2> DEFINE n == r.loading[k].n
             l == r.level + k
  <2>1. /\ n \in Nat /\ n < Count(s, l) /\ n = (w \div W) \div Span[k - 1]
        /\ r.level + k - 1 \in HashLevel
    <3>1. k \in 1..k
      BY <1>1, <1>5
    <3>2. TileTrue(r, s, k)
      BY <3>1 DEF TilesTrue, k
    <3> QED BY <3>2 DEF TileTrue, w
  <2>2. p.level = l /\ p.n = n \div W /\ p = Tile(p.level, p.n)
    BY <1>3, <1>5 DEF Tile
  <2>3. ~(n \div W >= Count(s, l) \div W)
    BY <1>1, <1>5, <2>2 DEF k
  <2>4. l \in HashLevel /\ k - 1 \in 0..(Levels - 1) /\ (k - 1) + 1 = k
    <3>1. l \in 0..Levels /\ k - 1 \in 0..(Levels - 1) /\ (k - 1) + 1 = k
      <4>1. r.level \in 0..(Levels - 1) /\ r.level + k - 1 \in 0..(Levels - 1)
        <5>1. r.level \in HashLevel /\ r.level + k - 1 \in HashLevel
          BY <1>1, <2>1, Zenon
        <5> QED BY <5>1 DEF HashLevel
      <4>2. Levels \in Nat /\ k \in Nat /\ k # 0
        BY <1>1, <1>5, SpanFacts
      <4> QED BY <4>1, <4>2
    <3>2. l # Levels
      BY <2>1, CountFacts
    <3> QED BY <3>1, <3>2, LevelFacts, SpanFacts
  <2>5. Count(s, l + 1) = Count(s, l) \div W /\ Count(s, l) \in Nat
    BY <2>4, CountFacts, LevelFacts
  <2> HIDE DEF n, l
  <2>6. n \div W \in Nat /\ Count(s, l) \div W \in Nat
    BY <1>1, <2>1, <2>5, DivMod
  <2>7. n \div W < Count(s, l + 1)
    BY <2>3, <2>5, <2>6
  <2>8. n \div W = (w \div W) \div Span[k]
    <3>1. Span[k] = W * Span[k - 1] /\ Span[k - 1] \in Nat \ {0}
      BY <2>4, SpanFacts
    <3>2. PICK a : a = w \div W
      OBVIOUS
    <3>3. PICK b : b = Span[k - 1]
      OBVIOUS
    <3>4. (a \div b) \div W = a \div (W * b)
      BY <1>1, <1>2, <3>1, <3>2, <3>3, DivDiv
    <3> QED BY <2>1, <3>1, <3>2, <3>3, <3>4
  <2>9. p.n \in Nat /\ p.level \in HashLevel /\ p.level = r.level + k
        /\ p.n < Count(s, p.level + 1) /\ p.n = (w \div W) \div Span[k]
    BY <2>2, <2>4, <2>6, <2>7, <2>8 DEF l
  <2> QED BY <2>2, <2>9 DEF NextIsFull, k, w
<1> QED BY <1>4, <1>5

\* One more tile at the end.
LEMMA OneMoreTile ==
  ASSUME NEW a, IsSeq(a), NEW x
  PROVE  /\ IsSeq(Append(a, x)) /\ Len(a) \in Nat /\ Len(Append(a, x)) = Len(a) + 1
         /\ Append(a, x)[Len(a) + 1] = x /\ \A i \in 1..Len(a) : Append(a, x)[i] = a[i]
<1>1. PICK S : a \in Seq(S)
  BY DEF IsSeq
<1> DEFINE T == S \cup {x}
<1>2. a \in Seq(T) /\ x \in T
  BY <1>1
<1> HIDE DEF T
<1> QED BY <1>2, AppendIs DEF IsSeq

\* A tile is got.
LEMMA LoadTileOK ==
  ASSUME Inv, NEW t \in Thread, LoadTile(t)
  PROVE  Inv'
<1>1. LogOK /\ FilesOK /\ verified' = verified /\ VerifiedTilesTrue
  BY DEF Inv, LoadTile
<1>2. PICK r : r = reader[t]
  OBVIOUS
<1>3. ReaderOK(r, log, damaged) /\ r.pc = "tiles" /\ ~r.trusted
  BY <1>2 DEF Inv, ReadersOK, LoadTile
<1>4. PICK s : s = log
  OBVIOUS
<1>5. s \in Seq(Entry) /\ Len(s) <= MaxSize /\ W \in Nat \ {0}
  BY <1>1, <1>4, SpanFacts DEF LogOK
<1>6. Shape(r) /\ Placed(r, s) /\ TilesTrue(r, s) /\ GotTrue(r, s) /\ DOMAIN r = Fields
  BY <1>3, <1>4 DEF ReaderOK, Shape
<1> DEFINE k == Len(r.loading)
<1>7. PICK p : p = NextTile(r)
  OBVIOUS
<1>8. k \in Nat /\ IsSeq(r.loading) /\ r.level \in Nat
  <2>1. IsSeq(r.loading) /\ r.level \in HashLevel
    BY <1>3, <1>6 DEF TilesTrue, Shape
  <2> QED BY <2>1, OneMoreTile, LevelFacts, SpanFacts
<1>9. p = IF k = 0 THEN Tile(r.level, Wanted(r) \div W) ELSE Tile(r.level + k, r.loading[k].n \div W)
  BY <1>7 DEF NextTile
<1>10. /\ k > 0 => ~InEdge(p.level, r.loading[k].n)
       /\ Reading(t,
            IF p \in DOMAIN files /\ Len(files[p]) = W
            THEN [r EXCEPT !.loading = Append(@, [n |-> p.n, hashes |-> files[p]]),
                           !.trusted = Known(p, files[p])]
            ELSE Failed(r))
  BY <1>2, <1>9 DEF LoadTile
<1>11. NextIsFull(r, s, p)
  <2>1. k > 0 => ~(r.loading[k].n \div W >= Count(s, p.level) \div W)
    BY <1>4, <1>10 DEF InEdge
  <2> QED BY <1>3, <1>5, <1>6, <1>7, <2>1, NextTileFull
<1>12. /\ p.level = r.level + k /\ p.level \in HashLevel /\ p = Tile(p.level, p.n)
       /\ p.n \in Nat /\ p.n < Count(s, p.level + 1) /\ p.n = (Wanted(r) \div W) \div Span[k]
  BY <1>11 DEF NextIsFull
<1>13. p \in FullFiles(s) /\ p \in Depends(r, s)
  <2>1. p \in FullFiles(s)
    BY <1>5, <1>12, FullFile
  <2>2. p = Tile(r.level + k, (Wanted(r) \div W) \div Span[k]) /\ r.pc # "idle"
    BY <1>3, <1>12
  <2> HIDE DEF k
  <2> QED BY <1>5, <1>6, <1>8, <2>1, <2>2, WantsDepends
<1>14. r.hit \/ (p \in DOMAIN files /\ files[p] = Content(s, p))
  BY <1>1, <1>3, <1>4, <1>13, HitIf
<1>15. CASE p \in DOMAIN files /\ Len(files[p]) = W
  <2>1. PICK x : x = [n |-> p.n, hashes |-> files[p]]
    OBVIOUS
  <2>2. PICK q : q = [r EXCEPT !.loading = Append(@, x), !.trusted = Known(p, files[p])]
    OBVIOUS
  <2>3. Reading(t, q)
    BY <1>10, <1>15, <2>1, <2>2
  <2>4. Keeps(q, r) /\ q.loading = Append(r.loading, x) /\ q.trusted = Known(p, files[p])
    BY <1>6, <2>2 DEF Keeps, Known, Fields
  <2>5. q.pc = r.pc /\ q.level = r.level /\ q.hit = r.hit /\ Wanted(q) = Wanted(r)
    BY <2>4 DEF Keeps, Wanted
  <2>6. /\ IsSeq(q.loading) /\ Len(q.loading) = k + 1 /\ q.loading[k + 1] = x
        /\ \A j \in 1..k : q.loading[j] = r.loading[j]
    BY <1>8, <2>4, OneMoreTile
  <2> HIDE DEF k
  <2>7. ASSUME NEW j \in 1..k PROVE TileTrue(q, s, j)
    <3>1. TileTrue(r, s, j)
      BY <1>3, <1>6 DEF TilesTrue, k
    <3> QED BY <2>5, <2>6, <3>1 DEF TileTrue, TileAt
  <2>8. TileAt(q, k + 1) = p /\ q.level + (k + 1) - 1 = p.level /\ q.level + (k + 1) = p.level + 1
        /\ (k + 1) - 1 = k /\ q.loading[k + 1].n = p.n /\ q.loading[k + 1].hashes = files[p]
    <3>1. q.level + (k + 1) - 1 = p.level /\ q.level + (k + 1) = p.level + 1 /\ (k + 1) - 1 = k
      BY <1>8, <1>12, <2>5
    <3>2. q.loading[k + 1].n = p.n /\ q.loading[k + 1].hashes = files[p]
      BY <2>1, <2>6
    <3> QED BY <1>12, <3>1, <3>2 DEF TileAt
  <2>9. TileTrue(q, s, k + 1)
    BY <1>12, <1>14, <2>5, <2>8 DEF TileTrue
  <2>10. ASSUME q.trusted PROVE LastTrue(q, s)
    <3>1. files[p] = Content(s, p)
      BY <1>1, <1>4, <2>4, <2>10 DEF Known, VerifiedTilesTrue
    <3> QED BY <1>8, <2>6, <2>8, <3>1 DEF LastTrue
  <2>11. TilesTrue(q, s)
    <3>1. \A j \in 1..Len(q.loading) : TileTrue(q, s, j)
      BY <1>8, <2>6, <2>7, <2>9
    <3> QED BY <2>6, <2>10, <3>1 DEF TilesTrue
  <2>12. ReaderOK(q, s, damaged)
    BY <1>3, <1>4, <2>4, <2>11, KeepsOK
  <2> QED BY <1>1, <1>4, <2>3, <2>12, ReadStep DEF Inv, VerifiedTilesTrue, Reading
<1>16. CASE ~(p \in DOMAIN files /\ Len(files[p]) = W)
  <2>1. PICK q : q = Failed(r)
    OBVIOUS
  <2>2. Reading(t, q)
    BY <1>10, <1>16, <2>1
  <2>3. r.hit
    <3>1. Len(Content(s, p)) = W
      BY <1>5, <1>12, FullTile
    <3> QED BY <1>14, <1>16, <3>1
  <2>4. ReaderOK(q, s, damaged)
    BY <1>6, <2>1, <2>3, FailedOK
  <2> QED BY <1>1, <1>4, <2>2, <2>4, ReadStep DEF Inv, VerifiedTilesTrue, Reading
<1> QED BY <1>15, <1>16

\* The first tiles.
LEMMA FirstTiles ==
  ASSUME NEW a, IsSeq(a), NEW k \in 0..Len(a)
  PROVE  /\ IsSeq(SubSeq(a, 1, k)) /\ Len(SubSeq(a, 1, k)) = k
         /\ \A i \in 1..k : SubSeq(a, 1, k)[i] = a[i]
<1>1. PICK S : a \in Seq(S)
  BY DEF IsSeq
<1>2. Len(a) \in Nat /\ k \in Nat /\ k <= Len(a)
  BY <1>1
<1>3. SubSeq(a, 1, k) \in Seq(S)
  BY <1>1, <1>2
<1>4. Len(SubSeq(a, 1, k)) = k /\ \A i \in 1..k : SubSeq(a, 1, k)[i] = a[i]
  BY <1>1, <1>2
<1>5. IsSeq(SubSeq(a, 1, k))
  BY <1>3 DEF IsSeq
<1> QED BY <1>4, <1>5

ParentIs(r, s, k) ==
  r.loading[k + 1].hashes[(r.loading[k].n % W) + 1] = Stored(s, r.level + k, r.loading[k].n)

\* The parent hash a tile is compared with is the one the tree has for it.
LEMMA ParentTrue ==
  ASSUME NEW s \in Seq(Entry), Len(s) <= MaxSize,
         NEW r, Shape(r), TilesTrue(r, s), r.pc = "tiles", r.trusted,
         NEW k \in Nat, k > 0, Len(r.loading) = k + 1
  PROVE  ParentIs(r, s, k)
<1>1. W \in Nat \ {0} /\ r.level \in Nat /\ Wanted(r) \in Nat
  BY LevelFacts, SpanFacts DEF Shape, Wanted
<1>2. TileTrue(r, s, k) /\ TileTrue(r, s, k + 1) /\ LastTrue(r, s)
  BY DEF TilesTrue
<1> DEFINE l == r.level + k
           n == r.loading[k].n
           m == r.loading[k + 1].n
           a == Wanted(r) \div W
<1>3. n \in Nat /\ n = a \div Span[k - 1]
  BY <1>2 DEF TileTrue
<1>4. /\ m \in Nat /\ m = a \div Span[k] /\ l \in HashLevel /\ m < Count(s, l + 1)
      /\ TileAt(r, k + 1) = Tile(l, m)
  <2>1. (k + 1) - 1 = k /\ r.level + (k + 1) - 1 = l /\ r.level + (k + 1) = l + 1
    <3>1. \A v \in Nat : (k + 1) - 1 = k /\ v + (k + 1) - 1 = v + k /\ v + (k + 1) = (v + k) + 1
      OBVIOUS
    <3>2. r.level \in Nat
      BY <1>1
    <3> QED BY <3>1, <3>2, Zenon
  <2> QED BY <1>2, <2>1 DEF TileTrue, TileAt
<1>5. r.loading[k + 1].hashes = [j \in 1..W |-> Stored(s, l, m * W + j - 1)]
  <2>1. r.loading[k + 1].hashes = Content(s, Tile(l, m))
    BY <1>2, <1>4 DEF LastTrue
  <2> QED BY <1>4, <2>1, FullTile
<1>6. m = n \div W
  <2>1. k \in 1..Levels /\ Span[k] = W * Span[k - 1] /\ Span[k - 1] \in Nat \ {0}
    <3>1. l \in 0..(Levels - 1) /\ Levels \in Nat
      BY <1>4, LevelFacts, SpanFacts
    <3>2. k - 1 \in 0..(Levels - 1) /\ (k - 1) + 1 = k
      BY <1>1, <3>1
    <3> QED BY <3>1, <3>2, SpanFacts
  <2>2. PICK b : b = Span[k - 1]
    OBVIOUS
  <2>3. PICK c : c = a
    OBVIOUS
  <2>4. c \in Nat
    BY <1>1, <2>3, DivMod
  <2>5. (c \div b) \div W = c \div (W * b)
    BY <1>1, <2>1, <2>2, <2>4, DivDiv
  <2> QED BY <1>3, <1>4, <2>1, <2>2, <2>3, <2>5
<1> HIDE DEF l, n, m, a
<1>7. n % W \in 0..(W - 1) /\ n = W * m + (n % W)
  BY <1>1, <1>3, <1>6, DivMod
<1>8. PICK o : o = n % W
  OBVIOUS
<1>9. o + 1 \in 1..W /\ m * W + (o + 1) - 1 = n
  <2>1. m * W = W * m /\ m * W \in Nat
    BY <1>1, <1>4
  <2>2. o \in 0..(W - 1) /\ n = W * m + o
    BY <1>7, <1>8, Zenon
  <2>3. PICK c : c = W * m
    OBVIOUS
  <2>4. W \in Nat /\ c \in Nat /\ m * W = c /\ n = c + o
    BY <1>1, <2>1, <2>2, <2>3
  <2>5. o + 1 \in 1..W /\ c + (o + 1) - 1 = n
    BY <2>2, <2>4
  <2> QED BY <2>4, <2>5
<1>10. r.loading[k + 1].hashes[o + 1] = Stored(s, l, n)
  BY <1>5, <1>9
<1> QED BY <1>8, <1>10 DEF ParentIs, l, n

\* A tile is found right, and remembered, or wrong.
LEMMA VerifyTileOK ==
  ASSUME Inv, NEW t \in Thread, VerifyTile(t)
  PROVE  Inv'
<1>1. LogOK /\ FilesOK /\ VerifiedTilesTrue
  BY DEF Inv
<1>2. PICK r : r = reader[t]
  OBVIOUS
<1>3. ReaderOK(r, log, damaged) /\ r.pc = "tiles"
  BY <1>2 DEF Inv, ReadersOK, VerifyTile
<1>4. PICK s : s = log
  OBVIOUS
<1>5. s \in Seq(Entry) /\ Len(s) <= MaxSize /\ W \in Nat \ {0}
  BY <1>1, <1>4, SpanFacts DEF LogOK
<1>6. /\ Shape(r) /\ Placed(r, s) /\ TilesTrue(r, s) /\ GotTrue(r, s) /\ DOMAIN r = Fields
      /\ IsSeq(r.loading) /\ Len(r.loading) \in Nat /\ r.level \in Nat
  <2>1. /\ Shape(r) /\ Placed(r, s) /\ TilesTrue(r, s) /\ GotTrue(r, s) /\ DOMAIN r = Fields
    BY <1>3, <1>4 DEF ReaderOK, Shape
  <2>2. IsSeq(r.loading) /\ r.level \in HashLevel
    BY <1>3, <2>1 DEF TilesTrue, Shape
  <2> QED BY <2>1, <2>2, OneMoreTile, LevelFacts, SpanFacts
<1> DEFINE k == IF r.trusted THEN Len(r.loading) - 1 ELSE Len(r.loading)
           p == Tile(r.level + k - 1, r.loading[k].n)
           parent == IF r.trusted THEN Last(r.loading).hashes[(p.n % W) + 1]
                     ELSE Stored(log, p.level + 1, p.n)
           right == IsRight(r.loading[k].hashes, parent)
<1>7. /\ k > 0
      /\ IF right
         THEN /\ Reading(t, [r EXCEPT !.loading = SubSeq(@, 1, k), !.trusted = TRUE])
              /\ verified' = Remember(p, r.loading[k].hashes)
         ELSE Reading(t, Failed(r)) /\ verified' = verified
  BY <1>2 DEF VerifyTile
<1>8. k \in 1..Len(r.loading) /\ k \in Nat
  <2>1. PICK n : n = Len(r.loading)
    OBVIOUS
  <2>2. n \in Nat /\ (k = n \/ k = n - 1) /\ k > 0
    BY <1>6, <1>7, <2>1
  <2> HIDE DEF k
  <2>3. k \in 1..n /\ k \in Nat
    BY <2>2
  <2> QED BY <2>1, <2>3
<1>9. TileTrue(r, s, k)
  <2> HIDE DEF k
  <2> QED BY <1>3, <1>6, <1>8 DEF TilesTrue
<1>10. /\ p = TileAt(r, k) /\ p.level \in HashLevel /\ p.level + 1 = r.level + k
       /\ p.n = r.loading[k].n /\ p.n \in Nat /\ p.n < Count(s, p.level + 1)
       /\ p = Tile(p.level, p.n)
  <2> HIDE DEF k
  <2>1. p.level = r.level + k - 1 /\ p.n = r.loading[k].n /\ p = Tile(p.level, p.n)
    BY DEF Tile
  <2>2. p.level + 1 = r.level + k
    BY <1>6, <1>8, <2>1
  <2> QED BY <1>9, <2>1, <2>2 DEF TileTrue, TileAt
<1>11. p \in FullFiles(s) /\ MthSlice(Content(s, p)) = Stored(s, p.level + 1, p.n)
  <2> HIDE DEF p
  <2> QED BY <1>5, <1>10, FullFile, FullTile
<1>12. parent = MthSlice(Content(s, p))
  <2>1. CASE ~r.trusted
    <3> HIDE DEF p, k
    <3> QED BY <1>4, <1>11, <2>1
  <2>2. CASE r.trusted
    <3>1. Len(r.loading) = k + 1
      BY <1>6, <2>2
    <3> HIDE DEF k
    <3>2. ParentIs(r, s, k)
      BY <1>3, <1>5, <1>6, <1>8, <2>2, <3>1, ParentTrue
    <3>3. Last(r.loading) = r.loading[k + 1]
      BY <3>1 DEF Last
    <3> HIDE DEF p
    <3> QED BY <1>10, <1>11, <2>2, <3>2, <3>3 DEF ParentIs
  <2> QED BY <2>1, <2>2
<1>13. right <=> r.loading[k].hashes = Content(s, p)
  <2> HIDE DEF p, k
  <2>1. \A a, b : MthSlice(a) = MthSlice(b) <=> a = b
    BY DEF MthSlice
  <2> HIDE DEF parent
  <2> QED BY <1>12, <2>1 DEF IsRight
<1> HIDE DEF right, p, k
<1>14. CASE right
  <2>1. PICK q : q = [r EXCEPT !.loading = SubSeq(@, 1, k), !.trusted = TRUE]
    OBVIOUS
  <2>2. Reading(t, q) /\ verified' = Remember(p, r.loading[k].hashes)
    BY <1>7, <1>14, <2>1
  <2>3. Keeps(q, r) /\ q.loading = SubSeq(r.loading, 1, k) /\ q.trusted = TRUE
    BY <1>6, <2>1 DEF Keeps, Fields
  <2>4. q.pc = r.pc /\ q.level = r.level /\ q.hit = r.hit /\ Wanted(q) = Wanted(r)
    BY <2>3 DEF Keeps, Wanted
  <2>5. IsSeq(q.loading) /\ Len(q.loading) = k /\ \A j \in 1..k : q.loading[j] = r.loading[j]
    <3>1. k \in 0..Len(r.loading)
      BY <1>6, <1>8
    <3> QED BY <1>6, <2>3, <3>1, FirstTiles
  <2>6. ASSUME NEW j \in 1..k PROVE TileTrue(q, s, j)
    <3>1. j \in 1..Len(r.loading)
      BY <1>6, <1>8
    <3>2. TileTrue(r, s, j)
      BY <1>3, <1>6, <3>1 DEF TilesTrue
    <3> QED BY <2>4, <2>5, <3>2 DEF TileTrue, TileAt
  <2>7. LastTrue(q, s)
    <3>1. TileAt(q, k) = p /\ q.loading[k].hashes = Content(s, p)
      BY <1>8, <1>10, <1>13, <1>14, <2>4, <2>5 DEF TileAt
    <3> QED BY <1>8, <2>5, <3>1 DEF LastTrue
  <2>8. TilesTrue(q, s)
    BY <2>5, <2>6, <2>7 DEF TilesTrue
  <2>9. ReaderOK(q, s, damaged)
    BY <1>3, <1>4, <2>3, <2>8, KeepsOK
  <2>10. LogOK' /\ FilesOK' /\ ReadersOK' /\ log' = log
    BY <1>4, <2>2, <2>9, ReadStep DEF Reading
  <2>11. VerifiedTilesTrue'
    <3>1. verified' = [u \in DOMAIN verified \cup {p} |-> IF u = p THEN Content(s, p) ELSE verified[u]]
      BY <1>13, <1>14, <2>2 DEF Remember
    <3>2. \A u \in DOMAIN verified' : u \in FullFiles(s) /\ verified'[u] = Content(s, u)
      BY <1>1, <1>4, <1>11, <3>1 DEF VerifiedTilesTrue
    <3> QED BY <1>4, <2>10, <3>2 DEF VerifiedTilesTrue
  <2> QED BY <2>10, <2>11 DEF Inv
<1>15. CASE ~right
  <2>1. PICK q : q = Failed(r)
    OBVIOUS
  <2>2. Reading(t, q) /\ verified' = verified
    BY <1>7, <1>15, <2>1
  <2>3. r.hit
    BY <1>9, <1>10, <1>13, <1>15 DEF TileTrue
  <2>4. ReaderOK(q, s, damaged)
    BY <1>6, <2>1, <2>3, FailedOK
  <2> QED BY <1>1, <1>4, <2>2, <2>4, ReadStep DEF Inv, VerifiedTilesTrue, Reading
<1> QED BY <1>14, <1>15

\* The longest start of the numbers from a to b that lies in a set.
LEMMA FirstGap ==
  ASSUME NEW a \in Nat, NEW b \in Nat, a <= b, NEW T
  PROVE  \E k \in a..b : (\A j \in (a + 1)..k : j \in T) /\ (k < b => k + 1 \notin T)
<1> DEFINE U == {k \in a..b : k = b \/ k + 1 \notin T}
<1>1. U \subseteq Nat /\ b \in U
  OBVIOUS
<1>2. PICK k \in U : \A y \in U : k <= y
  <2> HIDE DEF U
  <2> QED BY <1>1, NatLeast
<1>3. ASSUME NEW j \in (a + 1)..k PROVE j \in T
  <2>1. j - 1 \in a..b /\ j - 1 < k /\ j - 1 # b /\ (j - 1) + 1 = j
    BY <1>2, <1>3
  <2>2. j - 1 \notin U
    <3>1. SUFFICES ASSUME j - 1 \in U PROVE FALSE
      OBVIOUS
    <3>2. k <= j - 1
      BY <1>2, <3>1
    <3> QED BY <1>2, <2>1, <3>2
  <2> QED BY <2>1, <2>2
<1>4. k \in a..b /\ (k < b => k + 1 \notin T)
  BY <1>2
<1> QED BY <1>3, <1>4

\* A read of a full tile that is trusted: it is the tile of the wanted hash.
TrustedTile(r, s) ==
  LET n == Wanted(r) \div W IN
  /\ n \in Nat /\ Wanted(r) \in Nat /\ Wanted(r) % W \in 0..(W - 1)
  /\ Wanted(r) = n * W + (Wanted(r) % W)
  /\ n < Count(s, r.level + 1)
  /\ r.loading[1].hashes = [j \in 1..W |-> Stored(s, r.level, n * W + j - 1)]

\* The tile checked last is that of the wanted hash.
LEMMA TrustedTileIs ==
  ASSUME NEW s \in Seq(Entry), Len(s) <= MaxSize,
         NEW r, Shape(r), Placed(r, s), TilesTrue(r, s), r.pc = "tiles", r.trusted,
         Len(r.loading) = 1
  PROVE  TrustedTile(r, s)
<1>1. W \in Nat \ {0} /\ r.level \in HashLevel /\ Wanted(r) \in Nat /\ Span[0] = 1
  BY SpanFacts DEF Shape, Wanted
<1> DEFINE w == Wanted(r)
           n == w \div W
<1>2. n \in Nat /\ w % W \in 0..(W - 1) /\ w = W * n + (w % W) /\ n < Count(s, r.level + 1)
  BY <1>1, DivMod DEF Placed
<1>3. TileTrue(r, s, 1) /\ LastTrue(r, s)
  BY DEF TilesTrue
<1> HIDE DEF w, n
<1>4. w = n * W + (w % W)
  <2>1. W * n = n * W
    BY <1>1, <1>2
  <2> QED BY <1>2, <2>1
<1>5. TileAt(r, 1) = Tile(r.level, n)
  <2>1. r.level + 1 - 1 = r.level /\ 1 - 1 = 0
    BY <1>1, LevelFacts, SpanFacts
  <2>2. r.loading[1].n = n \div 1
    BY <1>1, <1>3, <2>1 DEF TileTrue, n, w
  <2>3. n \div 1 = n
    BY <1>2
  <2> QED BY <2>1, <2>2, <2>3 DEF TileAt
<1>6. r.loading[1].hashes = [j \in 1..W |-> Stored(s, r.level, n * W + j - 1)]
  <2>1. r.loading[1].hashes = Content(s, Tile(r.level, n))
    BY <1>3, <1>5 DEF LastTrue
  <2> QED BY <1>1, <1>2, <2>1, FullTile
<1> QED BY <1>1, <1>2, <1>4, <1>6 DEF TrustedTile, w, n

\* The entries of a bundle that are given out, up to the first that differs.
Same(r, j) == LeafHash(r.bundle[j]) = r.loading[1].hashes[j]
Good(r) ==
  CHOOSE k \in (Wanted(r) % W)..(IF r.op = "scan" THEN W ELSE (Wanted(r) % W) + 1) :
    /\ \A j \in ((Wanted(r) % W) + 1)..k : Same(r, j)
    /\ k < (IF r.op = "scan" THEN W ELSE (Wanted(r) % W) + 1) => ~Same(r, k + 1)

GivenTrue(r, s) ==
  LET to == (r.next \div W) * W + Good(r) IN
  /\ to \in Nat /\ r.next <= to /\ to <= Len(s)
  /\ SubSeq(r.bundle, (Wanted(r) % W) + 1, Good(r)) = SubSeq(s, r.next + 1, to)
  /\ Good(r) \in Nat /\ Good(r) <= UpTo(r)
  /\ Good(r) < UpTo(r) => r.hit

\* They are those of the log, and only damage makes one differ.
LEMMA GivenIsTrue ==
  ASSUME NEW s \in Seq(Entry), Len(s) <= MaxSize,
         NEW r, Shape(r), Placed(r, s), BundleTrue(r, s), TilesTrue(r, s),
         r.pc = "tiles", r.trusted, Len(r.loading) = 1, r.op # "hash"
  PROVE  GivenTrue(r, s)
<1>1. W \in Nat \ {0} /\ r.level = 0 /\ Wanted(r) = r.next /\ 0 \in HashLevel
  BY SpanFacts, LevelFacts DEF Shape, Wanted
<1> DEFINE n == r.next \div W
           off == r.next % W
           upto == IF r.op = "scan" THEN W ELSE off + 1
           b == r.bundle
           T == {j \in Nat : Same(r, j)}
<1>2. /\ n \in Nat /\ r.next \in Nat /\ off \in 0..(W - 1) /\ r.next = n * W + off
      /\ n < Count(s, 1)
      /\ r.loading[1].hashes = [j \in 1..W |-> Stored(s, 0, n * W + j - 1)]
  <2>1. TrustedTile(r, s)
    BY TrustedTileIs
  <2>2. 0 + 1 = 1
    OBVIOUS
  <2> QED BY <1>1, <2>1, <2>2 DEF TrustedTile
<1>3. upto = UpTo(r) /\ upto \in Nat /\ off <= upto /\ upto <= W /\ off \in Nat
  <2>1. upto = UpTo(r)
    BY DEF UpTo
  <2> HIDE DEF off
  <2>2. off \in Nat /\ W \in Nat /\ off + 1 <= W
    BY <1>1, <1>2
  <2> QED BY <2>1, <2>2
<1>4. n * W \in Nat /\ n * W + W <= Len(s) /\ Len(s) \in Nat
  BY <1>2, FullBundle
<1>5. IsSeq(b) /\ upto <= Len(b) /\ (r.hit \/ b = Content(s, Tile(Entries, n)))
  BY <1>3 DEF BundleTrue
<1>6. ASSUME NEW j \in 1..W PROVE Same(r, j) <=> b[j] = s[n * W + j]
  <2>1. n * W + j - 1 \in Nat /\ (n * W + j - 1) + 1 = n * W + j
    BY <1>1, <1>4
  <2>2. r.loading[1].hashes[j] = Stored(s, 0, n * W + j - 1)
    BY <1>2
  <2>3. Stored(s, 0, n * W + j - 1) = LeafHash(s[n * W + j])
    <3>1. PICK i : i = n * W + j - 1
      OBVIOUS
    <3>2. Stored(s, 0, i) = LeafHash(s[i + 1])
      <4>1. i \in Nat /\ 0 \in HashLevel
        BY <1>1, <2>1, <3>1, Zenon
      <4> QED BY <4>1, StoredIs
    <3>3. i + 1 = n * W + j
      BY <2>1, <3>1
    <3> QED BY <3>1, <3>2, <3>3
  <2>4. \A x, y : LeafHash(x) = LeafHash(y) <=> x = y
    BY DEF LeafHash
  <2> QED BY <2>2, <2>3, <2>4 DEF Same
<1> DEFINE Right(k) == (\A j \in (off + 1)..k : Same(r, j)) /\ (k < upto => ~Same(r, k + 1))
           good == CHOOSE k \in off..upto : Right(k)
<1>7. Good(r) = good
  BY <1>1 DEF Good
<1>8. good \in off..upto /\ Right(good)
  <2> HIDE DEF off, upto
  <2>1. \E k \in off..upto : (\A j \in (off + 1)..k : j \in T) /\ (k < upto => k + 1 \notin T)
    <3> HIDE DEF T
    <3> QED BY <1>3, FirstGap
  <2>2. PICK k \in off..upto : (\A j \in (off + 1)..k : j \in T) /\ (k < upto => k + 1 \notin T)
    BY <2>1
  <2>3. Right(k)
    <3>1. k + 1 \in Nat
      BY <1>3, <2>2
    <3> QED BY <2>2, <3>1
  <2> HIDE DEF Right
  <2> QED BY <2>3
<1> HIDE DEF good, T, n, upto, off
<1>9. PICK g : g = good
  OBVIOUS
<1>10. PICK base : base = n * W
  OBVIOUS
<1>11. g \in Nat /\ off <= g /\ g <= upto /\ base + g \in Nat /\ base \in Nat
       /\ r.next = base + off /\ r.next <= base + g /\ base + g <= Len(s)
       /\ off \in Nat /\ W \in Nat /\ g <= W
  BY <1>1, <1>2, <1>3, <1>4, <1>8, <1>9, <1>10
<1>12. SubSeq(b, off + 1, g) = SubSeq(s, r.next + 1, base + g)
  <2>1. PICK S : b \in Seq(S)
    BY <1>5 DEF IsSeq
  <2>2. g <= Len(b) /\ Len(b) \in Nat
    BY <1>3, <1>5, <1>11, <2>1
  <2> HIDE DEF b
  <2>3. SubSeq(b, off + 1, g) = [i \in 1..(g - off) |-> b[off + i]]
    BY <1>11, <2>1, <2>2
  <2>4. SubSeq(s, (base + off) + 1, base + g) = [i \in 1..(g - off) |-> s[base + off + i]]
    BY <1>4, <1>11
  <2>5. ASSUME NEW i \in 1..(g - off) PROVE b[off + i] = s[base + off + i]
    <3>1. off + i \in (off + 1)..g /\ off + i \in 1..W /\ base + (off + i) = base + off + i
      BY <1>11
    <3>2. Same(r, off + i)
      BY <1>8, <1>9, <3>1
    <3> QED BY <1>6, <1>10, <3>1, <3>2 DEF b
  <2>6. [i \in 1..(g - off) |-> b[off + i]] = [i \in 1..(g - off) |-> s[base + off + i]]
    BY <2>5, Zenon
  <2>7. SubSeq(b, off + 1, g) = SubSeq(s, (base + off) + 1, base + g)
    BY <2>3, <2>4, <2>6, Zenon
  <2>8. r.next = base + off
    BY <1>11
  <2> QED BY <2>7, <2>8, Zenon
<1>13. ASSUME g < upto PROVE r.hit
  <2>1. SUFFICES ASSUME b = Content(s, Tile(Entries, n)) PROVE FALSE
    BY <1>5
  <2>2. g + 1 \in 1..W
    BY <1>3, <1>11, <1>13
  <2>3. b[g + 1] = s[n * W + (g + 1)]
    <3>1. \A j \in 1..W : Content(s, Tile(Entries, n))[j] = s[n * W + j]
      BY <1>2, FullBundle
    <3> QED BY <2>1, <2>2, <3>1
  <2>4. ~Same(r, g + 1)
    BY <1>8, <1>9, <1>13
  <2> QED BY <1>6, <2>2, <2>3, <2>4
<1> QED BY <1>1, <1>3, <1>7, <1>9, <1>10, <1>11, <1>12, <1>13 DEF GivenTrue, n, off, b

\* What follows on a trusted tile: an answer, a failure, or the next bundle.
AnswerIs(r, q, s) ==
  LET given == [r EXCEPT !.got = @ \o SubSeq(r.bundle, (Wanted(r) % W) + 1, Good(r))]
      next == (r.next \div W + 1) * W
      upto == IF r.op = "scan" THEN W ELSE (Wanted(r) % W) + 1
  IN
  q = CASE r.op = "hash" -> Answered(r, <<r.loading[1].hashes[(Wanted(r) % W) + 1]>>)
        [] r.op # "hash" /\ Good(r) < upto -> Failed(given)
        [] r.op = "scan" /\ Good(r) = upto /\ next < Len(s) ->
             [given EXCEPT !.pc = "bundle", !.next = next, !.bundle = <<>>,
                           !.loading = <<>>, !.trusted = FALSE]
        [] OTHER -> Ended(given)

\* An answer of a hash is the committed hash.
LEMMA HashAnswerOK ==
  ASSUME NEW s \in Seq(Entry), Len(s) <= MaxSize, NEW bad,
         NEW r, ReaderOK(r, s, bad), r.pc = "tiles", r.trusted, Len(r.loading) = 1,
         r.op = "hash", NEW q, AnswerIs(r, q, s)
  PROVE  ReaderOK(q, s, bad)
<1>1. Shape(r) /\ Placed(r, s) /\ TilesTrue(r, s) /\ HitTrue(r, s, bad) /\ DOMAIN r = Fields
  BY DEF ReaderOK, Shape
<1>2. TrustedTile(r, s) /\ Wanted(r) = r.at /\ W \in Nat \ {0}
  BY <1>1, TrustedTileIs, SpanFacts DEF Wanted
<1>3. r.at < Count(s, r.level) /\ r.got = <<>> /\ r.failed = FALSE
  BY <1>1 DEF Placed, HitTrue, Shape
<1>4. r.loading[1].hashes[(r.at % W) + 1] = Stored(s, r.level, r.at)
  <2>1. PICK o : o = r.at % W
    OBVIOUS
  <2>2. PICK n, b : n = r.at \div W /\ b = n * W
    OBVIOUS
  <2>3. /\ o \in 0..(W - 1) /\ r.at = b + o /\ r.at \in Nat
        /\ r.loading[1].hashes = [j \in 1..W |-> Stored(s, r.level, b + j - 1)]
    BY <1>2, <2>1, <2>2 DEF TrustedTile
  <2>4. b \in Nat
    <3>1. n \in Nat
      BY <1>2, <2>2 DEF TrustedTile
    <3> QED BY <1>2, <2>2, <3>1
  <2>5. o + 1 \in 1..W /\ b + (o + 1) - 1 = r.at
    BY <1>2, <2>3, <2>4
  <2>6. r.loading[1].hashes[o + 1] = Stored(s, r.level, r.at)
    BY <2>3, <2>5
  <2> QED BY <2>1, <2>6
<1>5. PICK x : x = Stored(s, r.level, r.at)
  OBVIOUS
<1>6. q = Answered(r, <<x>>)
  BY <1>2, <1>4, <1>5 DEF AnswerIs
<1>7. Over(q, r, r.got \o <<x>>, r.failed, FALSE)
  BY <1>1, <1>6, AnsweredFacts
<1>8. r.got \o <<x>> = <<x>>
  BY <1>3
<1>9. Shape(q) /\ GotTrue(q, s) /\ q.pc = "idle" /\ ~q.failed
  BY <1>1, <1>3, <1>5, <1>7, <1>8 DEF Over, Shape, GotTrue
<1> QED BY <1>9, OverOK

\* Entries that are given out are the committed ones.
LEMMA EntriesAnswerOK ==
  ASSUME NEW s \in Seq(Entry), Len(s) <= MaxSize, NEW bad,
         NEW r, ReaderOK(r, s, bad), r.pc = "tiles", r.trusted, Len(r.loading) = 1,
         r.op # "hash", NEW q, AnswerIs(r, q, s)
  PROVE  ReaderOK(q, s, bad)
<1>1. /\ Shape(r) /\ Placed(r, s) /\ TilesTrue(r, s) /\ BundleTrue(r, s)
      /\ HitTrue(r, s, bad) /\ DOMAIN r = Fields
  BY DEF ReaderOK, Shape
<1>2. GivenTrue(r, s) /\ W \in Nat \ {0}
  BY <1>1, GivenIsTrue, SpanFacts
<1>3. /\ r.at \in Nat /\ r.next \in Nat /\ r.at <= r.next /\ r.next < Len(s)
      /\ r.got = SubSeq(s, r.at + 1, r.next) /\ r.failed = FALSE /\ Len(s) \in Nat
      /\ r.op = "entry" => r.next = r.at
      /\ r.op \in {"entry", "scan"} /\ r.level = 0
  BY <1>1 DEF Shape, Placed, HitTrue
<1>4. PICK to : to = (r.next \div W) * W + Good(r)
  OBVIOUS
<1>5. PICK x : x = SubSeq(r.bundle, (Wanted(r) % W) + 1, Good(r))
  OBVIOUS
<1>6. to \in Nat /\ r.next <= to /\ to <= Len(s) /\ x = SubSeq(s, r.next + 1, to)
  BY <1>2, <1>4, <1>5 DEF GivenTrue
<1>7. r.got \o x = SubSeq(s, r.at + 1, to)
  <2>1. Joined(s, r.at, r.next, to)
    BY <1>3, <1>6, SlicesJoin
  <2> QED BY <1>3, <1>6, <2>1 DEF Joined
<1>8. PICK given : given = [r EXCEPT !.got = @ \o x]
  OBVIOUS
<1>9. /\ DOMAIN given = Fields /\ given.pc = r.pc /\ given.op = r.op /\ given.level = r.level
      /\ given.at = r.at /\ given.next = r.next /\ given.bundle = r.bundle
      /\ given.loading = r.loading /\ given.trusted = r.trusted
      /\ given.got = r.got \o x /\ given.failed = r.failed /\ given.hit = r.hit
  BY <1>1, <1>8 DEF Fields
<1>10. Shape(given) /\ GotTrue(given, s)
  <2>1. Shape(given)
    BY <1>1, <1>9 DEF Shape
  <2>2. to \in r.at..Len(s)
    BY <1>3, <1>6
  <2>3. GotTrue(given, s)
    <3>1. given.op # "hash" /\ given.at = r.at /\ given.got = SubSeq(s, r.at + 1, to)
      BY <1>3, <1>7, <1>9
    <3>2. \E m \in given.at..Len(s) : given.got = SubSeq(s, given.at + 1, m)
      BY <2>2, <3>1, Zenon
    <3> QED BY <3>1, <3>2, Zenon DEF GotTrue
  <2> QED BY <2>1, <2>3
<1>11. PICK next : next = (r.next \div W + 1) * W
  OBVIOUS
<1>12. q = CASE Good(r) < UpTo(r) -> Failed(given)
             [] r.op = "scan" /\ Good(r) = UpTo(r) /\ next < Len(s) ->
                  [given EXCEPT !.pc = "bundle", !.next = next, !.bundle = <<>>,
                                !.loading = <<>>, !.trusted = FALSE]
             [] OTHER -> Ended(given)
  BY <1>3, <1>5, <1>8, <1>11 DEF AnswerIs, UpTo, Wanted
<1>13. CASE Good(r) < UpTo(r)
  <2>1. q = Failed(given)
    <3>1. ~(Good(r) = UpTo(r))
      BY <1>1, <1>2, <1>13 DEF GivenTrue, UpTo
    <3> QED BY <1>12, <1>13, <3>1
  <2>2. given.hit
    BY <1>2, <1>9, <1>13 DEF GivenTrue
  <2> QED BY <1>10, <2>1, <2>2, FailedOK
<1>14. CASE ~(Good(r) < UpTo(r)) /\ r.op = "scan" /\ Good(r) = UpTo(r) /\ next < Len(s)
  <2>1. q = [given EXCEPT !.pc = "bundle", !.next = next, !.bundle = <<>>,
                          !.loading = <<>>, !.trusted = FALSE]
    BY <1>12, <1>14
  <2>2. /\ DOMAIN q = Fields /\ q.pc = "bundle" /\ q.op = "scan" /\ q.level = 0
        /\ q.at = r.at /\ q.next = next /\ q.loading = <<>> /\ q.trusted = FALSE
        /\ q.got = r.got \o x /\ q.failed = FALSE /\ q.hit = r.hit
    BY <1>3, <1>9, <1>14, <2>1 DEF Fields
  <2>3. next = to
    <3>1. Good(r) = W
      BY <1>14 DEF UpTo
    <3>2. r.next \div W \in Nat
      BY <1>2, <1>3, DivMod
    <3>3. (r.next \div W + 1) * W = (r.next \div W) * W + W
      BY <1>2, <3>2
    <3> QED BY <1>4, <1>11, <3>1, <3>3
  <2>4. Shape(q)
    BY <1>1, <1>6, <2>2, <2>3, LevelFacts DEF Shape
  <2>5. GotTrue(q, s)
    <3>1. to \in r.at..Len(s)
      BY <1>3, <1>6
    <3> QED BY <1>7, <2>2, <3>1 DEF GotTrue
  <2>6. Placed(q, s)
    BY <1>3, <1>6, <1>7, <1>14, <2>2, <2>3 DEF Placed
  <2>7. BundleTrue(q, s) /\ TilesTrue(q, s)
    BY <2>2 DEF BundleTrue, TilesTrue
  <2>8. HitTrue(q, s, bad)
    <3>1. q.op = r.op /\ q.level = r.level /\ q.at = r.at
      BY <1>3, <1>14, <2>2
    <3>2. Depends(q, s) = Depends(r, s)
      BY <3>1, DependsIs
    <3> QED BY <1>1, <2>2, <3>2 DEF HitTrue
  <2> QED BY <2>4, <2>5, <2>6, <2>7, <2>8 DEF ReaderOK
<1>15. CASE ~(Good(r) < UpTo(r)) /\ ~(r.op = "scan" /\ Good(r) = UpTo(r) /\ next < Len(s))
  <2>1. q = Ended(given)
    BY <1>12, <1>15
  <2>2. Over(q, given, given.got, given.failed, FALSE)
    BY <1>9, <2>1, EndedFacts
  <2>3. Shape(q) /\ q.pc = "idle"
    BY <1>10, <2>2 DEF Over, Shape
  <2>4. q.op = given.op /\ q.level = given.level /\ q.at = given.at /\ q.got = given.got
        /\ q.failed = FALSE
    BY <1>3, <1>9, <2>2 DEF Over
  <2>5. GotTrue(q, s)
    BY <1>10, <2>4 DEF GotTrue
  <2> QED BY <2>3, <2>4, <2>5, OverOK
<1> QED BY <1>13, <1>14, <1>15

\* A trusted tile is answered from.
LEMMA AnswerOK ==
  ASSUME Inv, NEW t \in Thread, Answer(t)
  PROVE  Inv'
<1>1. LogOK /\ FilesOK /\ verified' = verified
  BY DEF Inv, Answer
<1>2. PICK r : r = reader[t]
  OBVIOUS
<1>3. ReaderOK(r, log, damaged) /\ r.pc = "tiles" /\ r.trusted /\ Len(r.loading) = 1
  BY <1>2 DEF Inv, ReadersOK, Answer
<1>4. PICK s : s = log
  OBVIOUS
<1>5. s \in Seq(Entry) /\ Len(s) <= MaxSize
  BY <1>1, <1>4 DEF LogOK
<1>6. PICK q : AnswerIs(reader[t], q, log) /\ Reading(t, q)
  BY DEF Answer, AnswerIs, Good, Same
<1>7. AnswerIs(r, q, s)
  BY <1>2, <1>4, <1>6
<1>8. ReaderOK(q, s, damaged)
  BY <1>3, <1>4, <1>5, <1>7, HashAnswerOK, EntriesAnswerOK
<1> QED BY <1>1, <1>4, <1>6, <1>8, ReadStep DEF Inv, VerifiedTilesTrue, Reading

----------------------------------------------------------------------------
(* Around the reads. *)

\* A log grows at its end.
LEMMA GrownExtends ==
  ASSUME NEW s \in Seq(Entry), NEW b \in Seq(Entry)
  PROVE  s \o b \in Seq(Entry) /\ Extends(s, s \o b)
BY Concatenated DEF Extends

\* A bundle of full width is a sequence.
LEMMA BundleIsSeq ==
  ASSUME NEW s \in Seq(Entry), Len(s) <= MaxSize,
         NEW p \in FullFiles(s), p.level = Entries
  PROVE  /\ IsSeq(Content(s, p)) /\ p.n \in Nat
         /\ p.n * W \in Nat /\ p.n * W + W <= Len(s)
<1>1. p = Tile(Entries, p.n) /\ p.n \in Nat
  BY FullFile
<1>2. PICK n : n = p.n
  OBVIOUS
<1>3. n \in Nat /\ Tile(Entries, n) \in FullFiles(s) /\ p = Tile(Entries, n)
  BY <1>1, <1>2
<1>4. n < Count(s, 1)
  BY <1>3, FullFile
<1>5. n * W \in Nat /\ n * W + W <= Len(s) /\ Content(s, Tile(Entries, n)) \in Seq(Entry)
  BY <1>3, <1>4, FullBundle
<1> QED BY <1>2, <1>3, <1>5 DEF IsSeq

\* So is what a damaged bundle may hold.
LEMMA GarbageIsSeq ==
  ASSUME NEW s \in Seq(Entry), Len(s) <= MaxSize,
         NEW p \in FullFiles(s), p.level = Entries, NEW c \in Garbage(s, p)
  PROVE  IsSeq(c)
<1>1. W \in Nat \ {0} /\ p.n * W \in Nat /\ p.n * W + W <= Len(s)
  BY BundleIsSeq, SpanFacts
<1>2. CASE c = Content(Other(s), p)
  <2> DEFINE o == Other(s)
             S == {o[i] : i \in 1..Len(s)}
  <2>1. o \in [1..Len(s) -> S]
    BY DEF Other
  <2> HIDE DEF o, S
  <2>2. o \in Seq(S) /\ Len(o) = Len(s)
    BY <2>1, FunctionIsSequence
  <2>3. c = SubSeq(o, p.n * W + 1, p.n * W + W)
    BY <1>2 DEF Content, o
  <2>4. PICK m : m = p.n * W
    OBVIOUS
  <2>5. SubSeq(o, m + 1, m + W) \in Seq(S)
    BY <1>1, <2>2, <2>4
  <2> QED BY <2>3, <2>4, <2>5 DEF IsSeq
<1>3. CASE c = <<Content(s, p)[1], Torn>>
  <2>1. PICK a, b : c = <<a, b>>
    BY <1>3
  <2>2. <<a, b>> \in Seq({a, b})
    OBVIOUS
  <2> QED BY <2>1, <2>2 DEF IsSeq
<1> QED BY <1>2, <1>3 DEF Garbage

SameSlices(s, u, a, m) == SubSeq(s, a + 1, m) = SubSeq(u, a + 1, m)

\* A longer log has the slices of a shorter one.
LEMMA SlicesKept ==
  ASSUME NEW s \in Seq(Entry), NEW u \in Seq(Entry), Extends(s, u),
         NEW a \in Nat, NEW m \in Nat, a <= m, m <= Len(s)
  PROVE  SameSlices(s, u, a, m)
<1>1. Len(s) \in Nat /\ Len(u) \in Nat /\ m <= Len(u)
  BY DEF Extends
<1>2. SubSeq(s, a + 1, m) = [i \in 1..(m - a) |-> s[a + i]]
  BY <1>1
<1>3. SubSeq(u, a + 1, m) = [i \in 1..(m - a) |-> u[a + i]]
  BY <1>1
<1>4. ASSUME NEW i \in 1..(m - a) PROVE s[a + i] = u[a + i]
  <2>1. a + i \in 1..Len(s)
    BY <1>1
  <2> QED BY <2>1 DEF Extends
<1> QED BY <1>2, <1>3, <1>4 DEF SameSlices

\* What was given out stays true as the log grows.
LEMMA GotKept ==
  ASSUME NEW s \in Seq(Entry), NEW u \in Seq(Entry), Extends(s, u), Len(u) <= MaxSize,
         NEW r, Shape(r), GotTrue(r, s)
  PROVE  GotTrue(r, u)
<1>1. CASE r.op = "hash" /\ r.got # <<>>
  <2>1. r.at < Count(s, r.level) /\ r.got = <<Stored(s, r.level, r.at)>>
        /\ r.level \in HashLevel /\ r.at \in Nat
    BY <1>1 DEF GotTrue, Shape
  <2>2. Stored(s, r.level, r.at) = Stored(u, r.level, r.at)
    BY <2>1, StoredKept
  <2>3. r.at < Count(u, r.level)
    <3>1. r.level \in 0..Levels /\ Count(s, r.level) <= Count(u, r.level)
      BY <2>1, FilesKept, LevelFacts
    <3>2. Len(s) <= MaxSize
      BY ReadAssumption DEF Extends
    <3>3. Count(s, r.level) \in Nat /\ Count(u, r.level) \in Nat
      BY <3>1, <3>2, CountFacts
    <3> QED BY <2>1, <3>1, <3>3
  <2> QED BY <1>1, <2>1, <2>2, <2>3 DEF GotTrue
<1>2. CASE r.op # "hash" /\ r.got # <<>>
  <2>1. PICK m \in r.at..Len(s) : r.got = SubSeq(s, r.at + 1, m)
    BY <1>2 DEF GotTrue
  <2>2. r.at \in Nat /\ m \in Nat /\ r.at <= m /\ m <= Len(s) /\ m <= Len(u)
        /\ Len(s) \in Nat /\ Len(u) \in Nat
    BY <2>1 DEF Extends, Shape
  <2>3. PICK a : a = r.at
    OBVIOUS
  <2>7. a \in Nat /\ m \in Nat /\ a <= m /\ m <= Len(s) /\ m <= Len(u)
        /\ Len(s) \in Nat /\ Len(u) \in Nat
    BY <2>2, <2>3
  <2>4. SameSlices(s, u, a, m)
    BY <2>7, SlicesKept
  <2>5. SubSeq(s, a + 1, m) = SubSeq(u, a + 1, m)
    BY <2>4 DEF SameSlices
  <2>6. m \in r.at..Len(u) /\ r.got = SubSeq(u, r.at + 1, m)
    <3>1. m \in a..Len(u)
      BY <2>7
    <3> QED BY <2>1, <2>3, <2>5, <3>1, Zenon
  <2> QED BY <1>2, <2>6 DEF GotTrue
<1>3. CASE r.got = <<>>
  BY <1>3 DEF GotTrue
<1> QED BY <1>1, <1>2, <1>3

\* An idle reader stays right when damage comes and goes and the log grows.
LEMMA IdleOK ==
  ASSUME NEW r, NEW s, NEW bad, ReaderOK(r, s, bad), r.pc = "idle",
         NEW u, GotTrue(r, u), NEW worse
  PROVE  ReaderOK(r, u, worse)
<1>1. Shape(r) /\ (r.failed => r.hit)
  BY DEF ReaderOK, HitTrue
<1> QED BY <1>1, OverOK

\* The handle appends.
LEMMA GrowOK ==
  ASSUME Inv, NEW batch \in Batch, Grow(batch)
  PROVE  Inv'
<1>1. PICK s : s = log
  OBVIOUS
<1>2. PICK u : u = log \o batch
  OBVIOUS
<1>3. /\ log' = u /\ damaged' = damaged /\ reader' = reader /\ verified' = NoTiles
      /\ Len(log) + Len(batch) <= MaxSize
      /\ files' = [p \in DOMAIN files \cup (FullFiles(u) \ FullFiles(s)) |->
                     IF p \in FullFiles(u) \ FullFiles(s) THEN Content(u, p) ELSE files[p]]
  BY <1>1, <1>2 DEF Grow
<1>4. s \in Seq(Entry) /\ u \in Seq(Entry) /\ Extends(s, u) /\ Len(u) <= MaxSize
  <2>1. s \in Seq(Entry) /\ batch \in Seq(Entry)
    BY <1>1, ReadAssumption DEF Inv, LogOK
  <2> QED BY <1>1, <1>2, <1>3, <2>1, GrownExtends, Concatenated
<1>5. /\ FullFiles(s) \subseteq FullFiles(u)
      /\ \A p \in FullFiles(s) : Content(s, p) = Content(u, p)
  BY <1>4, FilesKept
<1>6. LogOK'
  BY <1>3, <1>4 DEF LogOK
<1>7. FilesOK'
  <2>1. DOMAIN files' \subseteq Path
    <3>1. \A p \in FullFiles(u) : p \in Path
      BY <1>4, FullFile
    <3> QED BY <1>3, <3>1 DEF Inv, FilesOK
  <2>2. damaged' \subseteq FullFiles(log')
    BY <1>1, <1>3, <1>5 DEF Inv, FilesOK
  <2>3. ASSUME NEW p \in FullFiles(u) \ damaged
        PROVE  p \in DOMAIN files' /\ files'[p] = Content(u, p)
    <3>1. CASE p \in FullFiles(s)
      <4>1. p \in DOMAIN files /\ files[p] = Content(s, p)
        BY <1>1, <2>3, <3>1 DEF Inv, FilesOK
      <4> QED BY <1>3, <1>5, <3>1, <4>1
    <3>2. CASE p \notin FullFiles(s)
      BY <1>3, <3>2
    <3> QED BY <3>1, <3>2
  <2>4. ASSUME NEW p \in DOMAIN files', p.level = Entries PROVE IsSeq(files'[p])
    <3>1. CASE p \in FullFiles(u) \ FullFiles(s)
      BY <1>3, <1>4, <2>4, <3>1, BundleIsSeq
    <3>2. CASE p \notin FullFiles(u) \ FullFiles(s)
      BY <1>3, <2>4, <3>2 DEF Inv, FilesOK
    <3> QED BY <3>1, <3>2
  <2> QED BY <1>3, <2>1, <2>2, <2>3, <2>4 DEF FilesOK
<1>8. VerifiedTilesTrue'
  <2>1. DOMAIN NoTiles = {}
    BY DEF NoTiles
  <2> QED BY <1>3, <2>1 DEF VerifiedTilesTrue
<1>9. ReadersOK'
  <2>1. ASSUME NEW t \in Thread PROVE ReaderOK(reader[t], u, damaged)
    <3>1. PICK r : r = reader[t]
      OBVIOUS
    <3>2. ReaderOK(r, s, damaged) /\ r.pc = "idle"
      BY <1>1, <3>1 DEF Inv, ReadersOK, Grow, AllIdle
    <3>3. Shape(r) /\ GotTrue(r, s)
      BY <3>2 DEF ReaderOK
    <3>4. GotTrue(r, u)
      BY <1>4, <3>3, GotKept
    <3>5. ReaderOK(r, u, damaged)
      BY <3>2, <3>4, IdleOK
    <3> QED BY <3>1, <3>5
  <2> QED BY <1>3, <2>1 DEF Inv, ReadersOK
<1> QED BY <1>6, <1>7, <1>8, <1>9 DEF Inv

\* Its commit failed.
LEMMA FailToCommitOK ==
  ASSUME Inv, FailToCommit
  PROVE  Inv'
<1>1. /\ log' = log /\ files' = files /\ damaged' = damaged /\ reader' = reader
      /\ verified' = NoTiles /\ DOMAIN NoTiles = {}
  BY DEF FailToCommit, NoTiles
<1>2. VerifiedTilesTrue'
  BY <1>1 DEF VerifiedTilesTrue
<1> QED BY <1>1, <1>2 DEF Inv, LogOK, FilesOK, ReadersOK

\* A file beyond the log is written.
LEMMA PutBeyondOK ==
  ASSUME Inv, NEW batch \in Batch, Len(log) + Len(batch) <= MaxSize,
         NEW p, PutBeyond(p, batch)
  PROVE  Inv'
<1>1. PICK u : u = log \o batch
  OBVIOUS
<1>2. /\ log' = log /\ damaged' = damaged /\ reader' = reader /\ verified' = verified
      /\ p \in FullFiles(u) /\ p \notin FullFiles(log)
      /\ files' = [q \in DOMAIN files \cup {p} |-> IF q = p THEN Content(u, p) ELSE files[q]]
  BY <1>1 DEF PutBeyond
<1>3. u \in Seq(Entry) /\ Len(u) <= MaxSize
  <2>1. log \in Seq(Entry) /\ batch \in Seq(Entry)
    BY ReadAssumption DEF Inv, LogOK
  <2> QED BY <1>1, <2>1, Concatenated
<1>4. FilesOK'
  <2>1. p \in Path
    BY <1>2, <1>3, FullFile
  <2>2. p.level = Entries => IsSeq(Content(u, p))
    BY <1>2, <1>3, BundleIsSeq
  <2> QED BY <1>2, <2>1, <2>2 DEF Inv, FilesOK
<1> QED BY <1>2, <1>4 DEF Inv, LogOK, VerifiedTilesTrue, ReadersOK

\* A running read that looks at what is damaged now.
LEMMA WatchedOK ==
  ASSUME NEW r, NEW bad, ReaderOK(r, log, bad), r.pc # "idle",
         NEW now, NEW q, q = Watched(r, now)
  PROVE  ReaderOK(q, log, now)
<1>1. /\ Shape(r) /\ GotTrue(r, log) /\ Placed(r, log)
      /\ BundleTrue(r, log) /\ TilesTrue(r, log) /\ HitTrue(r, log, bad)
      /\ DOMAIN r = Fields /\ r.hit \in BOOLEAN
  BY DEF ReaderOK, Shape
<1>2. /\ DOMAIN q = Fields /\ q.pc = r.pc /\ q.op = r.op /\ q.level = r.level
      /\ q.at = r.at /\ q.next = r.next /\ q.bundle = r.bundle /\ q.loading = r.loading
      /\ q.trusted = r.trusted /\ q.got = r.got /\ q.failed = r.failed
      /\ q.hit = (r.hit \/ now \cap DependsOn(r) # {})
  BY <1>1 DEF Watched, Fields
<1>3. DependsOn(r) = Depends(r, log) /\ Depends(q, log) = Depends(r, log)
  BY <1>2, DependsIs
<1>4. Shape(q)
  BY <1>1, <1>2 DEF Shape
<1>5. GotTrue(q, log)
  BY <1>1, <1>2 DEF GotTrue
<1>6. Wanted(q) = Wanted(r) /\ UpTo(q) = UpTo(r) /\ (r.hit => q.hit)
  BY <1>2 DEF Wanted, UpTo
<1>7. Placed(q, log)
  BY <1>1, <1>2, <1>6 DEF Placed
<1>8. BundleTrue(q, log)
  BY <1>1, <1>2, <1>6 DEF BundleTrue
<1>9. TilesTrue(q, log)
  <2>1. \A k : TileAt(q, k) = TileAt(r, k)
    BY <1>2 DEF TileAt
  <2>2. \A k : TileTrue(r, log, k) => TileTrue(q, log, k)
    BY <1>2, <1>6, <2>1 DEF TileTrue
  <2>3. LastTrue(r, log) => LastTrue(q, log)
    BY <1>2, <2>1 DEF LastTrue
  <2> QED BY <1>1, <1>2, <2>2, <2>3 DEF TilesTrue
<1>10. HitTrue(q, log, now)
  BY <1>1, <1>2, <1>3, <1>6 DEF HitTrue
<1> QED BY <1>4, <1>5, <1>7, <1>8, <1>9, <1>10 DEF ReaderOK

\* Damage that comes or goes is seen by every running read.
LEMMA AlterOK ==
  ASSUME Inv, NEW p, NEW gone \in BOOLEAN, Alter(p, gone)
  PROVE  LogOK' /\ VerifiedTilesTrue' /\ ReadersOK'
<1>1. log' = log /\ verified' = verified
  BY DEF Alter
<1>2. PICK now : now = damaged'
  OBVIOUS
<1>3. reader' = [t \in Thread |-> IF reader[t].pc = "idle" THEN reader[t]
                                  ELSE Watched(reader[t], now)]
  BY <1>2 DEF Alter
<1>4. ASSUME NEW t \in Thread PROVE ReaderOK(reader'[t], log, now)
  <2>1. PICK r : r = reader[t]
    OBVIOUS
  <2>2. ReaderOK(r, log, damaged)
    BY <2>1 DEF Inv, ReadersOK
  <2>3. CASE r.pc = "idle"
    <3>1. GotTrue(r, log)
      BY <2>2 DEF ReaderOK
    <3>2. ReaderOK(r, log, now)
      <4>1. PICK s : s = log
        OBVIOUS
      <4>2. PICK bad : bad = damaged
        OBVIOUS
      <4>3. ReaderOK(r, s, bad) /\ GotTrue(r, s)
        BY <2>2, <3>1, <4>1, <4>2
      <4>4. ReaderOK(r, s, now)
        BY <2>3, <4>3, IdleOK
      <4> QED BY <4>1, <4>4
    <3> QED BY <1>3, <2>1, <2>3, <3>2
  <2>4. CASE r.pc # "idle"
    <3>1. PICK q : q = Watched(r, now)
      OBVIOUS
    <3>2. ReaderOK(q, log, now)
      BY <2>2, <2>4, <3>1, WatchedOK
    <3> QED BY <1>3, <2>1, <2>4, <3>1, <3>2
  <2> QED BY <2>3, <2>4
<1>5. ReadersOK'
  BY <1>1, <1>2, <1>3, <1>4 DEF ReadersOK
<1> QED BY <1>1, <1>5 DEF Inv, LogOK, VerifiedTilesTrue

\* A file of the log is lost or changed.
LEMMA DamageOK ==
  ASSUME Inv, NEW p \in FullFiles(log), Damage(p)
  PROVE  Inv'
<1>1. Alter(p, TRUE)
  BY DEF Damage
<1>2. LogOK' /\ VerifiedTilesTrue' /\ ReadersOK'
  BY <1>1, AlterOK
<1>3. log' = log /\ damaged' = damaged \cup {p}
  BY <1>1 DEF Alter
<1>4. FilesOK'
  <2>1. CASE files' = [q \in DOMAIN files \ {p} |-> files[q]]
    BY <1>3, <2>1 DEF Inv, FilesOK
  <2>2. CASE p \in DOMAIN files /\ \E c \in Garbage(log, p) : files' = [files EXCEPT ![p] = c]
    <3>1. PICK c \in Garbage(log, p) : files' = [files EXCEPT ![p] = c]
      BY <2>2
    <3>2. p.level = Entries => IsSeq(c)
      BY GarbageIsSeq DEF Inv, LogOK
    <3> QED BY <1>3, <2>2, <3>1, <3>2 DEF Inv, FilesOK
  <2> QED BY <2>1, <2>2 DEF Damage
<1> QED BY <1>2, <1>4 DEF Inv

\* It is put right again.
LEMMA RepairOK ==
  ASSUME Inv, NEW p \in FullFiles(log), Repair(p)
  PROVE  Inv'
<1>1. /\ Alter(p, FALSE)
      /\ files' = [q \in DOMAIN files \cup {p} |-> IF q = p THEN Content(log, p) ELSE files[q]]
  BY DEF Repair
<1>2. LogOK' /\ VerifiedTilesTrue' /\ ReadersOK'
  BY <1>1, AlterOK
<1>3. log' = log /\ damaged' = damaged \ {p}
  BY <1>1 DEF Alter
<1>4. FilesOK'
  <2>1. p \in Path
    BY FullFile DEF Inv, LogOK
  <2>2. p.level = Entries => IsSeq(Content(log, p))
    BY BundleIsSeq DEF Inv, LogOK
  <2> QED BY <1>1, <1>3, <2>1, <2>2 DEF Inv, FilesOK
<1> QED BY <1>2, <1>4 DEF Inv

----------------------------------------------------------------------------
(* The theorems. *)

\* A thread before its first read, or after one that a store error ended.
LEMMA NoReadOK == ReaderOK(NoRead, log, damaged)
<1>1. Shape(NoRead) /\ NoRead.pc = "idle" /\ ~NoRead.failed
  BY LevelFacts DEF NoRead, Shape, Fields
<1>2. GotTrue(NoRead, log)
  BY DEF NoRead, GotTrue
<1>3. ReaderOK(NoRead, log, damaged)
  <2>1. PICK s : s = log
    OBVIOUS
  <2>2. PICK bad : bad = damaged
    OBVIOUS
  <2>3. PICK q : q = NoRead
    OBVIOUS
  <2>4. Shape(q) /\ q.pc = "idle" /\ ~q.failed /\ GotTrue(q, s)
    BY <1>1, <1>2, <2>1, <2>3
  <2>5. ReaderOK(q, s, bad)
    BY <2>4, OverOK
  <2> QED BY <2>1, <2>2, <2>3, <2>5
<1> QED BY <1>3

\* A store error ends a read without an answer.
LEMMA StoreFailsOK ==
  ASSUME Inv, NEW t \in Thread, StoreFails(t)
  PROVE  Inv'
<1>1. PICK q : q = NoRead
  OBVIOUS
<1>2. Reading(t, q) /\ verified' = verified /\ ReaderOK(q, log, damaged)
  BY <1>1, NoReadOK DEF StoreFails
<1>3. VerifiedTilesTrue'
  BY <1>2 DEF Reading, Inv, VerifiedTilesTrue
<1> QED BY <1>2, <1>3, ReadStep DEF Inv

\* The handle starts in a state of the invariant.
LEMMA InitOK == Init => Inv
<1> SUFFICES ASSUME Init PROVE Inv
  OBVIOUS
<1>1. LogOK
  BY ReadAssumption DEF Init, LogOK
<1>2. FilesOK
  <2>1. /\ DOMAIN files = FullFiles(log) /\ damaged = {}
        /\ \A p \in FullFiles(log) : files[p] = Content(log, p)
    BY DEF Init
  <2>2. \A p \in FullFiles(log) : p \in Path /\ (p.level = Entries => IsSeq(Content(log, p)))
    BY <1>1, FullFile, BundleIsSeq DEF LogOK
  <2> QED BY <2>1, <2>2 DEF FilesOK
<1>3. VerifiedTilesTrue
  BY DEF Init, NoTiles, VerifiedTilesTrue
<1>4. ReadersOK
  BY NoReadOK DEF Init, ReadersOK
<1> QED BY <1>1, <1>2, <1>3, <1>4 DEF Inv

\* Every step keeps the invariant.
LEMMA NextOK == Inv /\ [Next]_vars => Inv'
<1> SUFFICES ASSUME Inv, [Next]_vars PROVE Inv'
  OBVIOUS
<1>1. \A i \in 0..(MaxSize - 1) : i \in Nat
  BY ReadAssumption
<1>2. ASSUME NEW t \in Thread, NEW op \in Op[t], NEW i \in 0..(MaxSize - 1), ReadEntries(t, op, i)
      PROVE  Inv'
  BY <1>1, <1>2, ReadEntriesOK
<1>3. ASSUME NEW t \in Thread, NEW l \in HashLevel, NEW i \in 0..(MaxSize - 1), ReadHash(t, l, i)
      PROVE  Inv'
  BY <1>1, <1>3, ReadHashOK
<1>4. ASSUME NEW t \in Thread, GetBundle(t) \/ LoadTile(t) \/ VerifyTile(t) \/ Answer(t) \/ StoreFails(t)
      PROVE  Inv'
  BY <1>4, GetBundleOK, LoadTileOK, VerifyTileOK, AnswerOK, StoreFailsOK
<1>5. ASSUME NEW batch \in Batch, Grow(batch) PROVE Inv'
  BY <1>5, GrowOK
<1>6. ASSUME FailToCommit PROVE Inv'
  BY <1>6, FailToCommitOK
<1>7. ASSUME NEW batch \in Batch, Len(log) + Len(batch) <= MaxSize,
             NEW p \in FullFiles(log \o batch), PutBeyond(p, batch)
      PROVE  Inv'
  BY <1>7, PutBeyondOK
<1>8. ASSUME NEW p \in FullFiles(log), Damage(p) \/ Repair(p) PROVE Inv'
  BY <1>8, DamageOK, RepairOK
<1>9. CASE UNCHANGED vars
  BY <1>9 DEF vars, Inv, LogOK, FilesOK, VerifiedTilesTrue, ReadersOK
<1> QED BY <1>2, <1>3, <1>4, <1>5, <1>6, <1>7, <1>8, <1>9 DEF Next

\* The invariant holds: for every number of threads, tile width and log size, each
\* running read has loaded the tiles above its entry, right but for damage it knows of.
THEOREM Invariance == Spec => []Inv
BY InitOK, NextOK, PTL DEF Spec

\* The variables keep their types: the log holds entries, and every full file that is
\* not damaged is in the store.
THEOREM TypeCorrect == Spec => []TypeOK
<1>1. Inv => TypeOK
  BY DEF Inv, LogOK, FilesOK, VerifiedTilesTrue, TypeOK
<1> QED BY <1>1, Invariance, PTL

SlicePrefix(s, a, m) == IsPrefix(SubSeq(s, a + 1, m), SubSeq(s, a + 1, Len(s)))

\* A slice of a log is a prefix of all that follows.
LEMMA SliceIsPrefix ==
  ASSUME NEW s \in Seq(Entry), NEW a \in Nat, NEW m \in Nat, a <= m, m <= Len(s)
  PROVE  SlicePrefix(s, a, m)
<1> DEFINE g == SubSeq(s, a + 1, m)
           rest == SubSeq(s, a + 1, Len(s))
<1>1. g \in Seq(Entry) /\ Len(g) = m - a /\ \A i \in 1..(m - a) : g[i] = s[a + i]
  OBVIOUS
<1>2. /\ rest \in Seq(Entry) /\ Len(rest) = Len(s) - a
      /\ \A i \in 1..(Len(s) - a) : rest[i] = s[a + i]
  OBVIOUS
<1> HIDE DEF g, rest
<1>3. Len(s) \in Nat /\ m - a \in Nat /\ m - a <= Len(rest)
  BY <1>2
<1> DEFINE x == SubSeq(g, 1, m - a)
           y == SubSeq(rest, 1, m - a)
<1>4. x \in Seq(Entry) /\ Len(x) = m - a /\ \A i \in 1..(m - a) : x[i] = g[i]
  BY <1>1, <1>3
<1>5. y \in Seq(Entry) /\ Len(y) = m - a /\ \A i \in 1..(m - a) : y[i] = rest[i]
  BY <1>2, <1>3
<1> HIDE DEF x, y
<1>6. \A i \in 1..(m - a) : x[i] = y[i]
  BY <1>1, <1>2, <1>3, <1>4, <1>5
<1>7. x = y
  BY <1>4, <1>5, <1>6, SameSequence
<1> QED BY <1>1, <1>3, <1>7 DEF SlicePrefix, IsPrefix, g, rest, x, y

\* No read gives out anything but the committed entries and hashes, whatever damage
\* comes and goes between its store calls.
THEOREM AnswersCommitted == Spec => []AnswersAreCommitted
<1>1. Inv => AnswersAreCommitted
  <2> SUFFICES ASSUME Inv, NEW t \in Thread
      PROVE  LET r == reader[t] IN
             IF r.op = "hash" THEN \A j \in DOMAIN r.got : r.got[j] = Stored(log, r.level, r.at)
             ELSE IsPrefix(r.got, SubSeq(log, r.at + 1, Len(log)))
    BY DEF AnswersAreCommitted
  <2>1. PICK r : r = reader[t]
    OBVIOUS
  <2>2. PICK s : s = log
    OBVIOUS
  <2>3. Shape(r) /\ GotTrue(r, s) /\ s \in Seq(Entry) /\ r.at \in Nat
    BY <2>1, <2>2 DEF Inv, LogOK, ReadersOK, ReaderOK, Shape
  <2>4. CASE r.op = "hash"
    <3>1. \A j \in DOMAIN r.got : r.got[j] = Stored(s, r.level, r.at)
      BY <2>3, <2>4 DEF GotTrue
    <3> QED BY <2>1, <2>2, <2>4, <3>1
  <2>5. CASE r.op # "hash"
    <3> DEFINE rest == SubSeq(s, r.at + 1, Len(s))
    <3>1. rest \in Seq(Entry)
      BY <2>3
    <3>2. CASE r.got = <<>>
      <4> HIDE DEF rest
      <4>1. SubSeq(rest, 1, 0) = <<>> /\ Len(rest) >= 0 /\ SubSeq(<<>>, 1, 0) = <<>> /\ Len(<<>>) = 0
        BY <3>1
      <4>2. IsPrefix(<<>>, rest)
        BY <4>1 DEF IsPrefix
      <4> QED BY <2>1, <2>2, <2>5, <3>2, <4>2 DEF rest
    <3>3. CASE r.got # <<>>
      <4>1. PICK m \in r.at..Len(s) : r.got = SubSeq(s, r.at + 1, m)
        BY <2>3, <2>5, <3>3 DEF GotTrue
      <4>2. PICK a : a = r.at
        OBVIOUS
      <4>3. PICK g : g = r.got
        OBVIOUS
      <4>4. a \in Nat /\ m \in Nat /\ a <= m /\ m <= Len(s) /\ g = SubSeq(s, a + 1, m)
        BY <2>3, <4>1, <4>2, <4>3
      <4>5. SlicePrefix(s, a, m)
        BY <2>3, <4>4, SliceIsPrefix
      <4>6. IsPrefix(g, SubSeq(s, a + 1, Len(s)))
        BY <4>4, <4>5 DEF SlicePrefix
      <4> QED BY <2>1, <2>2, <2>5, <4>2, <4>3, <4>6
    <3> QED BY <2>1, <2>2, <2>5, <3>2, <3>3
  <2> QED BY <2>4, <2>5
<1> QED BY <1>1, Invariance, PTL

\* The cache holds right tiles only: neither damage nor a file written beyond the log
\* by a failed append is ever taken for verified.
THEOREM TrueCache == Spec => []VerifiedTilesTrue
<1>1. Inv => VerifiedTilesTrue
  BY DEF Inv
<1> QED BY <1>1, Invariance, PTL

\* A read fails only if a file it depends on was damaged at its start or while it ran.
THEOREM FailuresAreDamage == Spec => []FailureMeansDamage
<1>1. Inv => FailureMeansDamage
  BY DEF Inv, ReadersOK, ReaderOK, HitTrue, FailureMeansDamage
<1> QED BY <1>1, Invariance, PTL
=============================================================================
