--------------------------- MODULE TileLogProofs ---------------------------
(***************************************************************************)
(* Proofs about TileLog, for every number of handles, entries, tile width  *)
(* and log size.                                                           *)
(***************************************************************************)
EXTENDS TileLog, TLAPS

----------------------------------------------------------------------------
(* Arithmetic of tile addresses. *)

\* Division of naturals: quotient and remainder.
LEMMA DivMod ==
  ASSUME NEW x \in Nat, NEW y \in Nat \ {0}
  PROVE  /\ x \div y \in Nat /\ x % y \in 0..(y - 1)
         /\ x = y * (x \div y) + (x % y)
  OBVIOUS

\* Multiplication is monotone.
LEMMA TimesMono ==
  ASSUME NEW x \in Nat, NEW y \in Nat, NEW k \in Nat, x <= y
  PROVE  x * k <= y * k /\ x * k \in Nat
  OBVIOUS

\* Every level is a level of its own span.
LEMMA SpanType ==
  ASSUME NEW l \in Level
  PROVE  Span[l] \in Nat \ {0} /\ W \in Nat \ {0} /\ l \in Int
  BY SizesAssumption DEF Level, HashLevel, Entries

\* A path of a log of this size is a path, and covers entries of that log only.
LEMMA CoversPath ==
  ASSUME NEW l \in Level, NEW size \in Nat,
         NEW p \in FullPaths(l, size) \cup EdgePaths(l, size)
  PROVE  /\ p \in Path /\ p.level = l
         /\ FirstEntry(p) \in Nat /\ FirstEntry(p) >= 1
         /\ LastEntry(p) \in Nat /\ LastEntry(p) <= size
         /\ FirstEntry(p) <= LastEntry(p) + 1
<1> DEFINE k == Items(l, size)
           s == Span[l]
<1>1. s \in Nat \ {0} /\ W \in Nat \ {0}
  BY SpanType
<1>2. k \in Nat /\ k * s <= size
  <2>1. k \in Nat /\ size % s \in 0..(s - 1) /\ size = s * k + (size % s)
    BY <1>1, DivMod DEF Items
  <2>2. s * k \in Nat /\ k * s = s * k
    BY <1>1, <2>1
  <2> QED BY <2>1, <2>2, <1>1
<1>3. k \div W \in Nat /\ k % W \in 0..(W - 1) /\ k = W * (k \div W) + (k % W)
  BY <1>1, <1>2, DivMod
<1>4. /\ p.level = l /\ p.n \in Nat /\ p.width \in 1..W
      /\ p = [level |-> l, n |-> p.n, width |-> p.width]
      /\ p.n * W + p.width <= k
  <2>1. CASE p \in FullPaths(l, size)
    <3>1. PICK n \in 0..(k \div W - 1) : p = [level |-> l, n |-> n, width |-> W]
      BY <2>1 DEF FullPaths
    <3>2. (n + 1) * W <= (k \div W) * W
      BY <3>1, <1>1, <1>3, TimesMono
    <3>3. (n + 1) * W = n * W + W /\ (k \div W) * W = W * (k \div W)
      BY <3>1, <1>1, <1>3
    <3>4. n * W + W <= k
      BY <3>1, <3>2, <3>3, <1>1, <1>3
    <3> QED BY <3>1, <3>4, <1>1, <1>3
  <2>2. CASE p \in EdgePaths(l, size)
    BY <2>2, <1>1, <1>3 DEF EdgePaths
  <2> QED BY <2>1, <2>2
<1>5. p \in Path
  BY <1>4 DEF Path
<1>6. LastEntry(p) \in Nat /\ LastEntry(p) <= k * s
  <2> DEFINE i == p.n * W + p.width
  <2>1. i \in Nat /\ i <= k
    BY <1>1, <1>4
  <2>2. i * s <= k * s /\ i * s \in Nat
    BY <2>1, <1>1, <1>2, TimesMono
  <2> QED BY <2>2, <1>4 DEF LastEntry
<1>7. FirstEntry(p) \in Nat /\ FirstEntry(p) >= 1 /\ FirstEntry(p) <= LastEntry(p) + 1
  <2> DEFINE j == p.n * W
             i == p.n * W + p.width
  <2>1. j \in Nat /\ i \in Nat /\ j <= i
    BY <1>1, <1>4
  <2>2. j * s <= i * s /\ j * s \in Nat /\ i * s \in Nat
    BY <2>1, <1>1, TimesMono
  <2>3. FirstEntry(p) = j * s + 1 /\ LastEntry(p) = i * s
    BY <1>4 DEF FirstEntry, LastEntry
  <2> HIDE DEF i, j
  <2> QED BY <2>2, <2>3
<1> QED
  BY <1>1, <1>2, <1>4, <1>5, <1>6, <1>7

----------------------------------------------------------------------------
(* Slices and prefixes. *)

\* A prefix agrees with the longer sequence at each of its positions.
LEMMA PrefixPointwise ==
  ASSUME NEW S, NEW s \in Seq(S), NEW t \in Seq(S)
  PROVE  IsPrefix(s, t) <=> Len(s) <= Len(t) /\ \A i \in 1..Len(s) : s[i] = t[i]
<1>1. ASSUME Len(s) <= Len(t)
      PROVE  /\ SubSeq(s, 1, Len(s)) = s
             /\ SubSeq(t, 1, Len(s)) = [i \in 1..Len(s) |-> t[i]]
             /\ s = [i \in 1..Len(s) |-> s[i]]
  BY <1>1
<1> QED BY <1>1 DEF IsPrefix

\* A sequence is a prefix of itself.
LEMMA PrefixRefl ==
  ASSUME NEW S, NEW s \in Seq(S)
  PROVE  IsPrefix(s, s)
BY PrefixPointwise

\* A prefix of a prefix is a prefix.
LEMMA PrefixTrans ==
  ASSUME NEW S, NEW r \in Seq(S), NEW s \in Seq(S), NEW t \in Seq(S),
         IsPrefix(r, s), IsPrefix(s, t)
  PROVE  IsPrefix(r, t)
BY PrefixPointwise

\* Appending extends.
LEMMA PrefixConcat ==
  ASSUME NEW S, NEW s \in Seq(S), NEW t \in Seq(S)
  PROVE  IsPrefix(s, s \o t) /\ s \o t \in Seq(S) /\ Len(s \o t) = Len(s) + Len(t)
<1> DEFINE u == s \o t
<1>1. u \in Seq(S) /\ Len(u) = Len(s) + Len(t) /\ Len(s) \in Nat /\ Len(t) \in Nat
  OBVIOUS
<1>2. \A i \in 1..Len(s) : s[i] = u[i]
  OBVIOUS
<1> HIDE DEF u
<1>3. IsPrefix(s, u)
  BY <1>1, <1>2, PrefixPointwise
<1> QED BY <1>1, <1>3 DEF u

\* The empty sequence is a prefix of every sequence.
LEMMA EmptyPrefix ==
  ASSUME NEW S, NEW s \in Seq(S)
  PROVE  IsPrefix(<<>>, s)
<1> DEFINE e == <<>>
<1>1. e \in Seq(S) /\ Len(e) = 0 /\ Len(s) \in Nat
  OBVIOUS
<1> HIDE DEF e
<1>2. Len(e) <= Len(s) /\ \A i \in 1..Len(e) : e[i] = s[i]
  BY <1>1
<1>3. IsPrefix(e, s)
  BY <1>1, <1>2, PrefixPointwise
<1> QED BY <1>3 DEF e

\* A slice within a log is a sequence of entries.
LEMMA SliceType ==
  ASSUME NEW p, NEW s \in Seq(Entry),
         FirstEntry(p) \in Nat, FirstEntry(p) >= 1,
         LastEntry(p) \in Nat, LastEntry(p) <= Len(s),
         FirstEntry(p) <= LastEntry(p) + 1
  PROVE  Slice(s, p) \in Seq(Entry)
BY DEF Slice

\* Every extension of a log has the same slice.
LEMMA SlicePrefix ==
  ASSUME NEW p, NEW s \in Seq(Entry), NEW t \in Seq(Entry), IsPrefix(s, t),
         FirstEntry(p) \in Nat, FirstEntry(p) >= 1,
         LastEntry(p) \in Nat, LastEntry(p) <= Len(s),
         FirstEntry(p) <= LastEntry(p) + 1
  PROVE  Slice(s, p) = Slice(t, p)
<1> DEFINE f == FirstEntry(p)
           e == LastEntry(p)
<1>1. Len(s) <= Len(t) /\ \A i \in 1..Len(s) : s[i] = t[i]
  BY PrefixPointwise
<1>2. /\ f \in Nat /\ e \in Nat /\ f >= 1 /\ f <= e + 1 /\ e <= Len(s)
      /\ Len(s) \in Nat /\ Len(t) \in Nat
  OBVIOUS
<1>3. Slice(s, p) = SubSeq(s, f, e) /\ Slice(t, p) = SubSeq(t, f, e)
  BY DEF Slice
<1> HIDE DEF f, e
<1>4. \A i \in 1..(e - f + 1) : s[f + i - 1] = t[f + i - 1]
  <2>1. TAKE i \in 1..(e - f + 1)
  <2>2. f + i - 1 \in 1..Len(s)
    BY <1>2
  <2> QED BY <1>1, <2>2
<1>5. SubSeq(s, f, e) = [i \in 1..(e - f + 1) |-> s[f + i - 1]]
  BY <1>2
<1>6. e <= Len(t)
  BY <1>1, <1>2
<1>7. SubSeq(t, f, e) = [i \in 1..(e - f + 1) |-> t[f + i - 1]]
  BY <1>2, <1>6
<1> QED BY <1>3, <1>4, <1>5, <1>7

\* The same for the paths a log consists of, and for those an append puts.
LEMMA CoversFacts ==
  ASSUME NEW levels \in SUBSET Level, NEW size \in Nat, NEW p \in Covers(levels, size)
  PROVE  /\ p \in Path /\ p.level \in levels
         /\ FirstEntry(p) \in Nat /\ FirstEntry(p) >= 1
         /\ LastEntry(p) \in Nat /\ LastEntry(p) <= size
         /\ FirstEntry(p) <= LastEntry(p) + 1
<1>1. PICK l \in levels : p \in FullPaths(l, size) \cup EdgePaths(l, size)
  BY DEF Covers
<1>2. l \in Level
  OBVIOUS
<1> QED BY <1>1, <1>2, CoversPath

\* The files of the longer log are those an append puts and files that the
\* shorter log has already.
LEMMA PutsSplit ==
  ASSUME NEW levels \in SUBSET Level, NEW x \in Nat, NEW y \in Nat
  PROVE  /\ Puts(levels, x, y) \subseteq Covers(levels, y)
         /\ Covers(levels, y) \subseteq Puts(levels, x, y) \cup Covers(levels, x)
BY DEF Puts, Covers

\* Bundles are at a level of their own.
LEMMA LevelFacts == HashLevel \subseteq Level /\ {Entries} \subseteq Level /\ Entries \notin HashLevel
BY SizesAssumption DEF Level, HashLevel, Entries

----------------------------------------------------------------------------
(* The inductive invariant.  It holds where lock_writer excludes other      *)
(* writers and the store is committed or new.                               *)

CleanStart == Locking /\ (Legacy => InitLogs = {<<>>})

Writing == {"pin", "put", "commit"}

\* Who writes holds the lock ...
LockHeld == \A h \in Handle : pc[h] \in Writing => lock = h

\* ... and nobody else moves the commit record from where it passed the fence.
Fenced ==
  \A h \in Handle :
    pc[h] \in Writing => commit = seen[h] /\ (pc[h] = "pin" <=> seen[h] = None)

\* A handle that read or wrote a commit record has that log in memory.
ViewIsSeen ==
  \A h \in Handle :
    pc[h] \in Writing \cup {"idle"} /\ seen[h] # None => leaves[h] = seen[h]

\* Records are only replaced by longer ones.
SeenIsCommitted ==
  \A h \in Handle :
    seen[h] # None => commit # None /\ IsPrefix(seen[h], commit)

\* Without commit record there are no bundles, and every handle has the empty log.
NothingYet ==
  commit = None =>
    /\ acked = <<>>
    /\ \A p \in DOMAIN files : p.level # Entries
    /\ \A h \in Handle : leaves[h] = <<>> /\ (pc[h] = "recover" => next[h] = <<>>)

\* An append extends its handle's log, and what it put so far is in the store.
AppendsAsPlanned ==
  \A h \in Handle : pc[h] \in Writing =>
    /\ IsPrefix(leaves[h], next[h])
    /\ todo[h] \subseteq Puts(Level, Len(leaves[h]), Len(next[h]))
    /\ \A p \in Puts(Level, Len(leaves[h]), Len(next[h])) \ todo[h] :
         p.level = Entries => Holds(p, next[h])
    /\ pc[h] = "commit" => todo[h] = {}

\* A recovery writes hash tiles of the log it rebuilt.
RecoversAsPlanned ==
  \A h \in Handle :
    pc[h] = "recover" => todo[h] \subseteq Covers(HashLevel, Len(next[h]))

AckedIsPrefix == commit # None => IsPrefix(acked, commit)

IndInv ==
  /\ TypeOK
  /\ LockHeld
  /\ Fenced
  /\ ViewIsSeen
  /\ SeenIsCommitted
  /\ NothingYet
  /\ AppendsAsPlanned
  /\ RecoversAsPlanned
  /\ CommittedReadable
  /\ AckedIsPrefix

----------------------------------------------------------------------------
(* Steps.  One lemma per action, one step per conjunct.                     *)

\* A log read from the store is a log of the size asked for.
LEMMA ReadingFacts ==
  ASSUME NEW paths, NEW size \in Nat, NEW s \in Reading(paths, size)
  PROVE  s \in Seq(Entry) /\ Len(s) = size
BY DEF Reading

\* scan_size finds nothing where there are no bundles.
LEMMA NewStoreIsEmpty ==
  ASSUME NEW size \in Nat, IsInferredSize(size), \A p \in DOMAIN files : p.level # Entries
  PROVE  size = 0
<1>1. \A n, w : ~Exists(Bundle(n, w))
  BY DEF Exists, Bundle
<1>2. size \div W \in Nat /\ size % W \in 0..(W - 1) /\ size = W * (size \div W) + (size % W)
  <2>1. W \in Nat \ {0}
    BY SizesAssumption
  <2> QED BY <2>1, DivMod
<1>3. size % W = 0
  <2>1. size % W > 0 => Exists(Bundle(size \div W, size % W))
    BY DEF IsInferredSize
  <2>2. ~(size % W > 0)
    BY <1>1, <2>1
  <2> QED BY <1>2, <2>2, SizesAssumption
<1>4. size \div W = 0
  <2>1. ASSUME size \div W > 0 PROVE FALSE
    <3>1. 0 \in 0..(size \div W - 1)
      BY <1>2, <2>1
    <3> QED BY <1>1, <3>1 DEF IsInferredSize
  <2> QED BY <2>1, <1>2
<1> QED BY <1>2, <1>3, <1>4, SizesAssumption

\* Where a bundle of a log lies.
LEMMA BundleFacts ==
  ASSUME NEW size \in Nat, NEW p \in Covers({Entries}, size)
  PROVE  /\ p \in Path /\ p.level = Entries
         /\ FirstEntry(p) \in Nat /\ FirstEntry(p) >= 1
         /\ LastEntry(p) \in Nat /\ LastEntry(p) <= size
         /\ FirstEntry(p) <= LastEntry(p) + 1
<1>1. {Entries} \in SUBSET Level
  BY LevelFacts
<1> QED BY <1>1, CoversFacts

\* A file is at one level only, so the bundles among an append's puts are what
\* growing the bundles puts.
LEMMA BundlePuts ==
  ASSUME NEW x \in Nat, NEW y \in Nat
  PROVE  Puts({Entries}, x, y) \subseteq Puts(Level, x, y)
<1> SUFFICES ASSUME NEW p \in Puts({Entries}, x, y) PROVE p \in Puts(Level, x, y)
  OBVIOUS
<1>1. p \in Covers({Entries}, y) /\ p \notin FullPaths(Entries, x)
  BY DEF Puts
<1>2. p \in Covers(Level, y) /\ p.level = Entries
  <2>1. Entries \in Level
    BY LevelFacts
  <2>2. p \in Covers(Level, y)
    BY <1>1, <2>1 DEF Covers
  <2> QED BY <1>1, <2>2, BundleFacts
<1>3. \A l \in Level : p \in FullPaths(l, x) => l = Entries
  BY <1>2, CoversPath
<1> QED BY <1>1, <1>2, <1>3 DEF Puts

\* The empty log has no files.
LEMMA NothingCovered ==
  ASSUME NEW levels \in SUBSET Level
  PROVE  Covers(levels, 0) = {}
<1> SUFFICES ASSUME NEW p \in Covers(levels, 0) PROVE FALSE
  OBVIOUS
<1>1. PICK l \in Level : p \in FullPaths(l, 0) \cup EdgePaths(l, 0)
  BY DEF Covers
<1>2. Span[l] \in Nat \ {0} /\ W \in Nat \ {0}
  BY SpanType
<1>3. Items(l, 0) = 0 /\ 0 \div W = 0 /\ 0 % W = 0
  BY <1>2 DEF Items
<1> QED BY <1>1, <1>2, <1>3 DEF FullPaths, EdgePaths

\* Reading the commit record: the handle's record is the current one.
LEMMA OpenInv ==
  ASSUME IndInv, CleanStart, NEW h \in Handle, Open(h)
  PROVE  IndInv'
<1> USE NoneAssumption DEF IndInv, TypeOK, Phase, Writing, Open
<1>1. TypeOK'
  OBVIOUS
<1>2. LockHeld'
  BY DEF LockHeld
<1>3. Fenced'
  BY DEF Fenced
<1>4. ViewIsSeen'
  BY DEF ViewIsSeen
<1>5. SeenIsCommitted'
  BY PrefixRefl DEF SeenIsCommitted
<1>6. NothingYet'
  BY DEF NothingYet
<1>7. AppendsAsPlanned'
  BY DEF AppendsAsPlanned, Holds, Exists
<1>8. RecoversAsPlanned'
  BY DEF RecoversAsPlanned
<1>9. CommittedReadable'
  BY DEF CommittedReadable, Holds, Exists
<1>10. AckedIsPrefix'
  BY DEF AckedIsPrefix
<1> QED BY <1>1, <1>2, <1>3, <1>4, <1>5, <1>6, <1>7, <1>8, <1>9, <1>10

\* Accepting the edge tiles: only the log of the record just read.
LEMMA LoadTilesInv ==
  ASSUME IndInv, CleanStart, NEW h \in Handle, LoadTiles(h)
  PROVE  IndInv'
<1>e. PICK size \in 0..MaxSize :
        /\ OpensAt(h, size)
        /\ \E s \in Accepted(h, size) : leaves' = [leaves EXCEPT ![h] = s]
  BY DEF LoadTiles
<1>a. PICK s \in Accepted(h, size) : leaves' = [leaves EXCEPT ![h] = s]
  BY <1>e
<1>b. s \in Seq(Entry) /\ Len(s) = size
  BY <1>a, ReadingFacts, BoundsAssumption DEF Accepted, FromEdges
<1>c. seen[h] # None => s = seen[h]
  BY DEF Accepted
<1>d. commit = None => s = <<>>
  <2>1. commit = None => IsInferredSize(size)
    BY <1>e DEF IndInv, SeenIsCommitted, OpensAt
  <2> QED BY <2>1, <1>b, NewStoreIsEmpty, BoundsAssumption DEF IndInv, NothingYet
<1> USE NoneAssumption DEF IndInv, TypeOK, Phase, Writing, LoadTiles
<1>1. TypeOK'
  BY <1>a, <1>b
<1>2. LockHeld'
  BY DEF LockHeld
<1>3. Fenced'
  BY DEF Fenced
<1>4. ViewIsSeen'
  BY <1>a, <1>c DEF ViewIsSeen
<1>5. SeenIsCommitted'
  BY DEF SeenIsCommitted
<1>6. NothingYet'
  BY <1>a, <1>d DEF NothingYet
<1>7. AppendsAsPlanned'
  BY DEF AppendsAsPlanned, Holds, Exists
<1>8. RecoversAsPlanned'
  BY DEF RecoversAsPlanned
<1>9. CommittedReadable'
  BY DEF CommittedReadable, Holds, Exists
<1>10. AckedIsPrefix'
  BY DEF AckedIsPrefix
<1> QED BY <1>1, <1>2, <1>3, <1>4, <1>5, <1>6, <1>7, <1>8, <1>9, <1>10

\* Rebuilding: what is planned are hash tiles of the log the bundles spell.
LEMMA StartRecoveryInv ==
  ASSUME IndInv, CleanStart, NEW h \in Handle, StartRecovery(h)
  PROVE  IndInv'
<1>e. PICK size \in 0..MaxSize :
        /\ OpensAt(h, size)
        /\ \E s \in FromBundles(size) : next' = [next EXCEPT ![h] = s]
        /\ todo' = [todo EXCEPT ![h] = Covers(HashLevel, size)]
  BY DEF StartRecovery
<1>a. PICK s \in FromBundles(size) : next' = [next EXCEPT ![h] = s]
  BY <1>e
<1>b. s \in Seq(Entry) /\ Len(s) = size
  BY <1>a, ReadingFacts, BoundsAssumption DEF FromBundles
<1>c. Covers(HashLevel, size) \subseteq Path
  BY CoversFacts, LevelFacts, BoundsAssumption
<1>d. commit = None => s = <<>>
  <2>1. commit = None => IsInferredSize(size)
    BY <1>e DEF IndInv, SeenIsCommitted, OpensAt
  <2> QED BY <2>1, <1>b, NewStoreIsEmpty, BoundsAssumption DEF IndInv, NothingYet
<1> USE NoneAssumption DEF IndInv, TypeOK, Phase, Writing, StartRecovery
<1>1. TypeOK'
  BY <1>a, <1>b, <1>c, <1>e
<1>2. LockHeld'
  BY DEF LockHeld
<1>3. Fenced'
  BY DEF Fenced
<1>4. ViewIsSeen'
  BY DEF ViewIsSeen
<1>5. SeenIsCommitted'
  BY DEF SeenIsCommitted
<1>6. NothingYet'
  BY <1>a, <1>d DEF NothingYet
<1>7. AppendsAsPlanned'
  BY <1>a, <1>e DEF AppendsAsPlanned, Holds, Exists
<1>8. RecoversAsPlanned'
  BY <1>a, <1>b, <1>e DEF RecoversAsPlanned
<1>9. CommittedReadable'
  BY DEF CommittedReadable, Holds, Exists
<1>10. AckedIsPrefix'
  BY DEF AckedIsPrefix
<1> QED BY <1>1, <1>2, <1>3, <1>4, <1>5, <1>6, <1>7, <1>8, <1>9, <1>10

\* A recovery ends with the committed root or not at all.
LEMMA FinishRecoveryInv ==
  ASSUME IndInv, CleanStart, NEW h \in Handle, FinishRecovery(h)
  PROVE  IndInv'
<1> USE NoneAssumption DEF IndInv, TypeOK, Phase, Writing, FinishRecovery
<1>1. TypeOK'
  OBVIOUS
<1>2. LockHeld'
  BY DEF LockHeld
<1>3. Fenced'
  BY DEF Fenced
<1>4. ViewIsSeen'
  BY DEF ViewIsSeen
<1>5. SeenIsCommitted'
  BY DEF SeenIsCommitted
<1>6. NothingYet'
  BY DEF NothingYet
<1>7. AppendsAsPlanned'
  BY DEF AppendsAsPlanned, Holds, Exists
<1>8. RecoversAsPlanned'
  BY DEF RecoversAsPlanned
<1>9. CommittedReadable'
  BY DEF CommittedReadable, Holds, Exists
<1>10. AckedIsPrefix'
  BY DEF AckedIsPrefix
<1> QED BY <1>1, <1>2, <1>3, <1>4, <1>5, <1>6, <1>7, <1>8, <1>9, <1>10

\* A handle that goes takes its lock and nothing else.
LEMMA CloseInv ==
  ASSUME IndInv, CleanStart, NEW h \in Handle, Close(h)
  PROVE  IndInv'
<1> USE NoneAssumption DEF IndInv, TypeOK, Phase, Writing, Close
<1>1. TypeOK'
  OBVIOUS
<1>2. LockHeld'
  BY DEF LockHeld
<1>3. Fenced'
  BY DEF Fenced
<1>4. ViewIsSeen'
  BY DEF ViewIsSeen
<1>5. SeenIsCommitted'
  BY DEF SeenIsCommitted
<1>6. NothingYet'
  BY DEF NothingYet
<1>7. AppendsAsPlanned'
  BY DEF AppendsAsPlanned, Holds, Exists
<1>8. RecoversAsPlanned'
  BY DEF RecoversAsPlanned
<1>9. CommittedReadable'
  BY DEF CommittedReadable, Holds, Exists
<1>10. AckedIsPrefix'
  BY DEF AckedIsPrefix
<1> QED BY <1>1, <1>2, <1>3, <1>4, <1>5, <1>6, <1>7, <1>8, <1>9, <1>10

\* A refused append only takes the lock.
LEMMA RefuseAppendInv ==
  ASSUME IndInv, CleanStart, NEW h \in Handle, RefuseAppend(h)
  PROVE  IndInv'
<1> USE NoneAssumption DEF IndInv, TypeOK, Phase, Writing, RefuseAppend, Acquire, CleanStart
<1>1. TypeOK'
  OBVIOUS
<1>2. LockHeld'
  BY DEF LockHeld
<1>3. Fenced'
  BY DEF Fenced
<1>4. ViewIsSeen'
  BY DEF ViewIsSeen
<1>5. SeenIsCommitted'
  BY DEF SeenIsCommitted
<1>6. NothingYet'
  BY DEF NothingYet
<1>7. AppendsAsPlanned'
  BY DEF AppendsAsPlanned, Holds, Exists
<1>8. RecoversAsPlanned'
  BY DEF RecoversAsPlanned
<1>9. CommittedReadable'
  BY DEF CommittedReadable, Holds, Exists
<1>10. AckedIsPrefix'
  BY DEF AckedIsPrefix
<1> QED BY <1>1, <1>2, <1>3, <1>4, <1>5, <1>6, <1>7, <1>8, <1>9, <1>10

\* The second look at the commit record changes nothing.
LEMMA CheckCommitInv ==
  ASSUME IndInv, CleanStart, NEW h \in Handle, CheckCommit(h)
  PROVE  IndInv'
<1> USE NoneAssumption DEF IndInv, TypeOK, Phase, Writing, CheckCommit, Fence
<1>1. TypeOK'
  OBVIOUS
<1>2. LockHeld'
  BY DEF LockHeld
<1>3. Fenced'
  BY DEF Fenced
<1>4. ViewIsSeen'
  BY DEF ViewIsSeen
<1>5. SeenIsCommitted'
  BY DEF SeenIsCommitted
<1>6. NothingYet'
  BY DEF NothingYet
<1>7. AppendsAsPlanned'
  BY DEF AppendsAsPlanned, Holds, Exists
<1>8. RecoversAsPlanned'
  BY DEF RecoversAsPlanned
<1>9. CommittedReadable'
  BY DEF CommittedReadable, Holds, Exists
<1>10. AckedIsPrefix'
  BY DEF AckedIsPrefix
<1> QED BY <1>1, <1>2, <1>3, <1>4, <1>5, <1>6, <1>7, <1>8, <1>9, <1>10

\* A failed append leaves the log its handle had.
LEMMA FailAppendInv ==
  ASSUME IndInv, CleanStart, NEW h \in Handle, FailAppend(h)
  PROVE  IndInv'
<1> USE NoneAssumption DEF IndInv, TypeOK, Phase, Writing, FailAppend, BackToIdle
<1>1. TypeOK'
  OBVIOUS
<1>2. LockHeld'
  BY DEF LockHeld
<1>3. Fenced'
  BY DEF Fenced
<1>4. ViewIsSeen'
  BY DEF ViewIsSeen
<1>5. SeenIsCommitted'
  BY DEF SeenIsCommitted
<1>6. NothingYet'
  BY DEF NothingYet
<1>7. AppendsAsPlanned'
  BY DEF AppendsAsPlanned, Holds, Exists
<1>8. RecoversAsPlanned'
  BY DEF RecoversAsPlanned
<1>9. CommittedReadable'
  BY DEF CommittedReadable, Holds, Exists
<1>10. AckedIsPrefix'
  BY DEF AckedIsPrefix
<1> QED BY <1>1, <1>2, <1>3, <1>4, <1>5, <1>6, <1>7, <1>8, <1>9, <1>10

\* Passing the fence with the lock in hand: the plan is the batch's files.
LEMMA BeginAppendInv ==
  ASSUME IndInv, CleanStart, NEW h \in Handle, NEW batch \in Batches, BeginAppend(h, batch)
  PROVE  IndInv'
<1> DEFINE new == leaves[h] \o batch
<1>d. batch \in Seq(Entry)
  BY BoundsAssumption DEF Batches
<1>a. new \in Seq(Entry) /\ IsPrefix(leaves[h], new)
  BY <1>d, PrefixConcat DEF IndInv, TypeOK
<1>b. Puts(Level, Len(leaves[h]), Len(new)) \subseteq Path
  BY <1>a, PutsSplit, CoversFacts DEF IndInv, TypeOK
<1> HIDE DEF new
<1>c. next' = [next EXCEPT ![h] = new] /\ todo' = [todo EXCEPT ![h] = Puts(Level, Len(leaves[h]), Len(new))]
  BY DEF BeginAppend, new, IndInv, TypeOK
<1>e. /\ pc[h] = "idle" /\ pc' = [pc EXCEPT ![h] = FirstPhase(h)] /\ lock \in {None, h} /\ lock' = h
      /\ commit = seen[h] /\ FirstPhase(h) \in {"pin", "put"}
      /\ FirstPhase(h) = "pin" <=> seen[h] = None
      /\ UNCHANGED <<files, commit, damaged, acked, leaves, seen>>
  BY DEF BeginAppend, Acquire, Fence, FirstPhase, CleanStart
<1> USE NoneAssumption DEF IndInv, TypeOK, Phase, Writing
<1>1. TypeOK'
  BY <1>a, <1>b, <1>c, <1>e
<1>2. LockHeld'
  BY <1>e DEF LockHeld
<1>3. Fenced'
  BY <1>e DEF Fenced, LockHeld
<1>4. ViewIsSeen'
  BY <1>e DEF ViewIsSeen
<1>5. SeenIsCommitted'
  BY <1>e DEF SeenIsCommitted
<1>6. NothingYet'
  BY <1>c, <1>e DEF NothingYet
<1>7. AppendsAsPlanned'
  BY <1>a, <1>c, <1>e DEF AppendsAsPlanned, Holds, Exists
<1>8. RecoversAsPlanned'
  BY <1>c, <1>e DEF RecoversAsPlanned
<1>9. CommittedReadable'
  BY <1>e DEF CommittedReadable, Holds, Exists
<1>10. AckedIsPrefix'
  BY <1>e DEF AckedIsPrefix
<1> QED BY <1>1, <1>2, <1>3, <1>4, <1>5, <1>6, <1>7, <1>8, <1>9, <1>10

\* The pin of a new store commits the empty log.
LEMMA PinInv ==
  ASSUME IndInv, CleanStart, NEW h \in Handle, Pin(h)
  PROVE  IndInv'
<1>a. commit = None /\ seen[h] = None /\ leaves[h] = <<>>
  BY DEF IndInv, Fenced, Writing, NothingYet, Pin
<1>b. commit' = <<>> /\ <<>> \in Seq(Entry) /\ Len(<<>>) = 0
  BY <1>a DEF Pin
<1>c. \A k \in Handle : seen[k] = None
  BY <1>a DEF IndInv, SeenIsCommitted
<1>d. \A k \in Handle : pc[k] \in Writing => k = h
  BY DEF IndInv, LockHeld, Writing, Pin
<1> USE NoneAssumption DEF IndInv, TypeOK, Phase, Writing, Pin
<1>1. TypeOK'
  OBVIOUS
<1>2. LockHeld'
  BY DEF LockHeld
<1>3. Fenced'
  BY <1>a, <1>b, <1>d DEF Fenced
<1>4. ViewIsSeen'
  BY <1>a, <1>c DEF ViewIsSeen
<1>5. SeenIsCommitted'
  BY <1>a, <1>b, <1>c, EmptyPrefix DEF SeenIsCommitted
<1>6. NothingYet'
  BY <1>b DEF NothingYet
<1>7. AppendsAsPlanned'
  BY DEF AppendsAsPlanned, Holds, Exists
<1>8. RecoversAsPlanned'
  BY DEF RecoversAsPlanned
<1>9. CommittedReadable'
  BY <1>b, NothingCovered, LevelFacts DEF CommittedReadable
<1>10. AckedIsPrefix'
  BY <1>a, <1>b, EmptyPrefix DEF AckedIsPrefix, NothingYet
<1> QED BY <1>1, <1>2, <1>3, <1>4, <1>5, <1>6, <1>7, <1>8, <1>9, <1>10

\* Once an append put everything, the bundles spell the log it is to commit.
LEMMA GrownReadable ==
  ASSUME NEW s \in Seq(Entry), NEW t \in Seq(Entry), IsPrefix(s, t),
         \A p \in Covers({Entries}, Len(s)) : Holds(p, s),
         \A p \in Puts(Level, Len(s), Len(t)) : p.level = Entries => Holds(p, t)
  PROVE  \A p \in Covers({Entries}, Len(t)) : Holds(p, t)
<1> SUFFICES ASSUME NEW p \in Covers({Entries}, Len(t)) PROVE Holds(p, t)
  OBVIOUS
<1>0. Len(s) \in Nat /\ Len(t) \in Nat
  OBVIOUS
<1>1. p.level = Entries
  BY <1>0, BundleFacts
<1>2. CASE p \in Puts({Entries}, Len(s), Len(t))
  <2>1. p \in Puts(Level, Len(s), Len(t))
    BY <1>0, <1>2, BundlePuts
  <2> QED BY <1>1, <2>1
<1>3. CASE p \in Covers({Entries}, Len(s))
  <2>1. Slice(s, p) = Slice(t, p)
    BY <1>0, <1>3, BundleFacts, SlicePrefix
  <2> QED BY <1>3, <2>1 DEF Holds
<1> QED BY <1>0, <1>2, <1>3, PutsSplit, LevelFacts

\* The commit record moves to a log whose bundles are all there.
LEMMA CommitInv ==
  ASSUME IndInv, CleanStart, NEW h \in Handle, Commit(h)
  PROVE  IndInv'
<1>a. commit = seen[h] /\ commit # None /\ leaves[h] = commit /\ todo[h] = {}
  BY DEF IndInv, Fenced, ViewIsSeen, AppendsAsPlanned, Writing, Commit
<1>b. commit \in Seq(Entry) /\ next[h] \in Seq(Entry) /\ IsPrefix(commit, next[h])
  BY <1>a DEF IndInv, TypeOK, AppendsAsPlanned, Writing, Commit
<1>c. \A k \in Handle : pc[k] \in Writing => k = h
  BY DEF IndInv, LockHeld, Writing, Commit
<1>d. \A p \in Covers({Entries}, Len(next[h])) : Holds(p, next[h])
  BY <1>a, <1>b, GrownReadable DEF IndInv, AppendsAsPlanned, CommittedReadable, Writing, Commit
<1>e. \A s \in Seq(Entry) : IsPrefix(s, commit) => IsPrefix(s, next[h])
  BY <1>b, PrefixTrans
<1> USE NoneAssumption DEF IndInv, TypeOK, Phase, Writing, Commit, BackToIdle
<1>1. TypeOK'
  OBVIOUS
<1>2. LockHeld'
  BY DEF LockHeld
<1>3. Fenced'
  BY <1>a, <1>c DEF Fenced
<1>4. ViewIsSeen'
  BY DEF ViewIsSeen
<1>5. SeenIsCommitted'
  BY <1>a, <1>b, <1>e, PrefixRefl DEF SeenIsCommitted
<1>6. NothingYet'
  BY <1>b, NoneAssumption DEF NothingYet
<1>7. AppendsAsPlanned'
  BY DEF AppendsAsPlanned, Holds, Exists
<1>8. RecoversAsPlanned'
  BY DEF RecoversAsPlanned
<1>9. CommittedReadable'
  BY <1>d DEF CommittedReadable, Holds, Exists
<1>10. AckedIsPrefix'
  BY <1>a, <1>b, <1>e, PrefixRefl DEF AckedIsPrefix
<1> QED BY <1>1, <1>2, <1>3, <1>4, <1>5, <1>6, <1>7, <1>8, <1>9, <1>10

\* One put leaves every committed bundle as it was.
LEMMA PutFileInv ==
  ASSUME IndInv, CleanStart, NEW h \in Handle, PutFile(h)
  PROVE  IndInv'
<1>a. PICK p \in todo[h] :
        /\ files' = [q \in DOMAIN files \cup {p} |->
                      IF q = p THEN Slice(next[h], p) ELSE files[q]]
        /\ damaged' = damaged \ {p}
        /\ todo' = [todo EXCEPT ![h] = @ \ {p}]
  BY DEF PutFile
<1>b. p \in Covers(Level, Len(next[h])) /\ p \in Path
  <2>1. pc[h] = "put" => p \in Covers(Level, Len(next[h]))
    BY PutsSplit DEF IndInv, TypeOK, AppendsAsPlanned, Writing
  <2>2. pc[h] = "recover" => p \in Covers(Level, Len(next[h]))
    BY LevelFacts DEF IndInv, RecoversAsPlanned, Covers
  <2>3. p \in Path
    BY DEF IndInv, TypeOK
  <2> QED BY <2>1, <2>2, <2>3 DEF PutFile
<1>c. Slice(next[h], p) \in Seq(Entry)
  BY <1>b, CoversFacts, SliceType DEF IndInv, TypeOK
<1>d. p.level = Entries => pc[h] = "put"
  <2>1. pc[h] = "recover" => p.level \in HashLevel
    BY CoversFacts, LevelFacts DEF IndInv, TypeOK, RecoversAsPlanned
  <2> QED BY <2>1, LevelFacts DEF PutFile
<1> USE NoneAssumption DEF IndInv, TypeOK, Phase, Writing, PutFile
<1>1. TypeOK'
  BY <1>a, <1>b, <1>c
<1>2. LockHeld'
  BY <1>a DEF LockHeld
<1>3. Fenced'
  BY DEF Fenced
<1>4. ViewIsSeen'
  BY DEF ViewIsSeen
<1>5. SeenIsCommitted'
  BY DEF SeenIsCommitted
<1>6. NothingYet'
  BY <1>a, <1>d DEF NothingYet, Fenced
<1>7. AppendsAsPlanned'
  <2> SUFFICES ASSUME NEW k \in Handle, pc[k] \in Writing
               PROVE  AppendsAsPlanned!(k)!2'
    BY <1>a DEF AppendsAsPlanned
  <2> QED BY <1>a, <1>d DEF AppendsAsPlanned, Holds, Exists, LockHeld
<1>8. RecoversAsPlanned'
  BY <1>a DEF RecoversAsPlanned
<1>9. CommittedReadable'
  <2> SUFFICES ASSUME commit # None, NEW q \in Covers({Entries}, Len(commit))
               PROVE  Holds(q, commit)'
    BY <1>a DEF CommittedReadable
  <2>1. Holds(q, commit) /\ commit \in Seq(Entry)
    BY DEF CommittedReadable
  <2>4. /\ q.level = Entries /\ FirstEntry(q) \in Nat /\ FirstEntry(q) >= 1
        /\ LastEntry(q) \in Nat /\ LastEntry(q) <= Len(commit)
        /\ FirstEntry(q) <= LastEntry(q) + 1
    <3>1. Len(commit) \in Nat
      BY <2>1
    <3> QED BY <3>1, BundleFacts
  <2>2. CASE q # p
    BY <1>a, <2>1, <2>2 DEF Holds, Exists
  <2>3. CASE q = p
    <3>1. commit = leaves[h] /\ IsPrefix(leaves[h], next[h])
      BY <2>3, <2>4, <1>d DEF Fenced, ViewIsSeen, AppendsAsPlanned
    <3>2. next[h] \in Seq(Entry)
      OBVIOUS
    <3>3. Slice(commit, p) = Slice(next[h], p)
      BY <2>1, <2>3, <2>4, <3>1, <3>2, SlicePrefix
    <3> QED BY <1>a, <2>3, <3>3 DEF Holds, Exists
  <2> QED BY <2>2, <2>3
<1>10. AckedIsPrefix'
  BY DEF AckedIsPrefix
<1> QED BY <1>1, <1>2, <1>3, <1>4, <1>5, <1>6, <1>7, <1>8, <1>9, <1>10

\* The same, although the put reported an error.
LEMMA CommitUnknownInv ==
  ASSUME IndInv, CleanStart, NEW h \in Handle, CommitUnknown(h)
  PROVE  IndInv'
<1> DEFINE new == IF pc[h] = "pin" THEN leaves[h] ELSE next[h]
<1>a. /\ pc[h] \in Writing /\ commit' = new
      /\ pc' = [pc EXCEPT ![h] = "idle"]
      /\ next' = [next EXCEPT ![h] = <<>>]
      /\ todo' = [todo EXCEPT ![h] = {}]
      /\ UNCHANGED <<files, lock, damaged, acked, leaves, seen>>
  BY DEF CommitUnknown, BackToIdle, Writing
<1>f. /\ pc[h] = "pin" => commit = None /\ new = <<>>
      /\ pc[h] # "pin" => /\ pc[h] = "commit" /\ commit = leaves[h] /\ commit \in Seq(Entry)
                          /\ todo[h] = {} /\ new = next[h]
                          /\ next[h] \in Seq(Entry) /\ IsPrefix(commit, next[h])
  BY <1>a DEF CommitUnknown, IndInv, TypeOK, Fenced, ViewIsSeen, NothingYet, AppendsAsPlanned, Writing
<1>b. new \in Seq(Entry) /\ new # None
  <2>1. <<>> \in Seq(Entry)
    OBVIOUS
  <2> QED BY <1>f, <2>1, NoneAssumption
<1>c. \A p \in Covers({Entries}, Len(new)) : Holds(p, new)
  <2>1. CASE pc[h] = "pin"
    <3>1. Len(new) = 0
      BY <1>f, <2>1
    <3> QED BY <3>1, NothingCovered, LevelFacts
  <2>2. CASE pc[h] # "pin"
    <3>1. \A p \in Covers({Entries}, Len(commit)) : Holds(p, commit)
      BY <1>f, <2>2, NoneAssumption DEF IndInv, CommittedReadable
    <3>2. \A p \in Puts(Level, Len(commit), Len(new)) : p.level = Entries => Holds(p, new)
      BY <1>f, <2>2 DEF IndInv, AppendsAsPlanned, Writing
    <3> HIDE DEF new
    <3> QED BY <1>b, <1>f, <2>2, <3>1, <3>2, GrownReadable
  <2> QED BY <2>1, <2>2
<1>d. \A k \in Handle : pc[k] \in Writing => k = h
  BY <1>a DEF IndInv, LockHeld
<1>e. \A s \in Seq(Entry) : commit # None /\ IsPrefix(s, commit) => IsPrefix(s, new)
  <2> SUFFICES ASSUME NEW s \in Seq(Entry), commit # None, IsPrefix(s, commit) PROVE IsPrefix(s, new)
    OBVIOUS
  <2>1. commit \in Seq(Entry) /\ new = next[h] /\ next[h] \in Seq(Entry) /\ IsPrefix(commit, next[h])
    BY <1>f
  <2> QED BY <2>1, PrefixTrans
<1> HIDE DEF new
<1> USE NoneAssumption DEF IndInv, TypeOK, Phase, Writing
<1>1. TypeOK'
  BY <1>a, <1>b
<1>2. LockHeld'
  BY <1>a DEF LockHeld
<1>3. Fenced'
  BY <1>a, <1>d DEF Fenced
<1>4. ViewIsSeen'
  BY <1>a DEF ViewIsSeen
<1>5. SeenIsCommitted'
  BY <1>a, <1>b, <1>e DEF SeenIsCommitted
<1>6. NothingYet'
  BY <1>a, <1>b DEF NothingYet
<1>7. AppendsAsPlanned'
  BY <1>a DEF AppendsAsPlanned, Holds, Exists
<1>8. RecoversAsPlanned'
  BY <1>a DEF RecoversAsPlanned
<1>9. CommittedReadable'
  BY <1>a, <1>c DEF CommittedReadable, Holds, Exists
<1>10. AckedIsPrefix'
  BY <1>a, <1>b, <1>e, EmptyPrefix DEF AckedIsPrefix, NothingYet
<1> QED BY <1>1, <1>2, <1>3, <1>4, <1>5, <1>6, <1>7, <1>8, <1>9, <1>10

\* Damage to hash tiles reaches no bundle.
LEMMA DamageInv ==
  ASSUME IndInv, NEW p \in DOMAIN files, Damage(p)
  PROVE  IndInv'
<1> USE NoneAssumption DEF IndInv, Phase, Writing
<1>a. /\ p.level # Entries /\ p \in Path
      /\ damaged' = damaged \cup {p} /\ DOMAIN files' \subseteq DOMAIN files
      /\ UNCHANGED <<commit, lock, acked, pc, leaves, seen, next, todo>>
  BY DEF Damage, TypeOK
<1>b. \A q \in DOMAIN files : q # p => q \in DOMAIN files' /\ files'[q] = files[q]
  BY DEF Damage
<1>c. p \in DOMAIN files' => files'[p] \in Seq(Entry)
  <2>1. files[p] \in Seq(Entry)
    BY DEF TypeOK
  <2>2. \A k \in Nat : [1..k -> Garbage] \subseteq Seq(Entry)
    BY BoundsAssumption
  <2>3. Len(files[p]) \in Nat /\ <<>> \in Seq(Entry)
    BY <2>1
  <2> QED BY <2>2, <2>3 DEF Damage
<1>d. \A q, s : q.level = Entries /\ Holds(q, s) => Exists(q)' /\ files'[q] = Slice(s, q)
  BY <1>a, <1>b DEF Holds, Exists
<1>1. TypeOK'
  BY <1>a, <1>b, <1>c DEF TypeOK
<1>2. LockHeld' /\ Fenced' /\ ViewIsSeen' /\ SeenIsCommitted' /\ AckedIsPrefix'
  BY <1>a DEF LockHeld, Fenced, ViewIsSeen, SeenIsCommitted, AckedIsPrefix
<1>3. NothingYet' /\ RecoversAsPlanned'
  BY <1>a DEF NothingYet, RecoversAsPlanned
<1>4. AppendsAsPlanned'
  BY <1>a, <1>d DEF AppendsAsPlanned, Holds
<1>5. CommittedReadable'
  <2> SUFFICES ASSUME commit # None, NEW q \in Covers({Entries}, Len(commit))
               PROVE  Holds(q, commit)'
    BY <1>a DEF CommittedReadable
  <2>1. Holds(q, commit) /\ commit \in Seq(Entry)
    BY DEF CommittedReadable, TypeOK
  <2>2. Len(commit) \in Nat
    BY <2>1
  <2>3. q.level = Entries
    BY <2>2, BundleFacts
  <2> QED BY <1>a, <1>d, <2>1, <2>3 DEF Holds
<1> QED BY <1>1, <1>2, <1>3, <1>4, <1>5

----------------------------------------------------------------------------
(* The inductive invariant holds initially, is preserved by every step, and *)
(* so holds always.                                                         *)

\* Every store a run starts from satisfies the invariant.
LEMMA InitInv == ASSUME Init, CleanStart PROVE IndInv
<1>1. PICK s \in InitLogs : \E missing \in IF Legacy THEN SUBSET Covers(HashLevel, Len(s)) ELSE {{}} :
        /\ files = [p \in Covers(Level, Len(s)) \ missing |-> Slice(s, p)]
        /\ commit = IF Legacy THEN None ELSE s
        /\ damaged = missing
        /\ acked = s
  BY DEF Init
<1>2. PICK missing \in IF Legacy THEN SUBSET Covers(HashLevel, Len(s)) ELSE {{}} :
        /\ files = [p \in Covers(Level, Len(s)) \ missing |-> Slice(s, p)]
        /\ commit = IF Legacy THEN None ELSE s
        /\ damaged = missing
        /\ acked = s
  BY <1>1
<1>3. s \in Seq(Entry) /\ Len(s) \in Nat /\ (Legacy => s = <<>>)
  BY BoundsAssumption DEF CleanStart
<1>4. \A p \in Covers(Level, Len(s)) : p \in Path /\ Slice(s, p) \in Seq(Entry)
  BY <1>3, CoversFacts, SliceType
<1>5. missing \subseteq Path
  BY <1>2, <1>3, CoversFacts, LevelFacts
<1>6. Legacy => Covers(Level, Len(s)) = {}
  <2>1. Legacy => Len(s) = 0
    BY <1>3
  <2> QED BY <2>1, NothingCovered
<1>7. ~Legacy => \A p \in Covers({Entries}, Len(s)) : Holds(p, s)
  <2> SUFFICES ASSUME ~Legacy, NEW p \in Covers({Entries}, Len(s)) PROVE Holds(p, s)
    OBVIOUS
  <2>1. p \in Covers(Level, Len(s)) \ missing
    BY <1>2, LevelFacts DEF Covers
  <2> QED BY <1>2, <2>1 DEF Holds, Exists
<1>8. lock = None /\ pc = [h \in Handle |-> "closed"] /\ leaves = [h \in Handle |-> <<>>]
      /\ seen = [h \in Handle |-> None] /\ next = [h \in Handle |-> <<>>] /\ todo = [h \in Handle |-> {}]
  BY DEF Init
<1>9. TypeOK
  BY <1>2, <1>3, <1>4, <1>5, <1>8 DEF TypeOK, Phase
<1>10. LockHeld /\ Fenced /\ ViewIsSeen /\ SeenIsCommitted /\ AppendsAsPlanned /\ RecoversAsPlanned
  BY <1>8 DEF LockHeld, Fenced, ViewIsSeen, SeenIsCommitted, AppendsAsPlanned, RecoversAsPlanned, Writing
<1>11. NothingYet
  BY <1>2, <1>3, <1>6, <1>8, NoneAssumption DEF NothingYet
<1>12. CommittedReadable
  BY <1>2, <1>7 DEF CommittedReadable
<1>13. AckedIsPrefix
  BY <1>2, <1>3, PrefixRefl DEF AckedIsPrefix
<1> QED BY <1>9, <1>10, <1>11, <1>12, <1>13 DEF IndInv

\* Every step preserves it.
LEMMA NextInv == ASSUME IndInv, CleanStart, [Next]_vars PROVE IndInv'
<1>1. ASSUME NEW h \in Handle, Open(h) PROVE IndInv'
  BY <1>1, OpenInv
<1>2. ASSUME NEW h \in Handle, LoadTiles(h) PROVE IndInv'
  BY <1>2, LoadTilesInv
<1>3. ASSUME NEW h \in Handle, StartRecovery(h) PROVE IndInv'
  BY <1>3, StartRecoveryInv
<1>4. ASSUME NEW h \in Handle, FinishRecovery(h) PROVE IndInv'
  BY <1>4, FinishRecoveryInv
<1>5. ASSUME NEW h \in Handle, Close(h) PROVE IndInv'
  BY <1>5, CloseInv
<1>6. ASSUME NEW h \in Handle, NEW batch \in Batches, BeginAppend(h, batch) PROVE IndInv'
  BY <1>6, BeginAppendInv
<1>7. ASSUME NEW h \in Handle, RefuseAppend(h) PROVE IndInv'
  BY <1>7, RefuseAppendInv
<1>8. ASSUME NEW h \in Handle, Pin(h) PROVE IndInv'
  BY <1>8, PinInv
<1>9. ASSUME NEW h \in Handle, PutFile(h) PROVE IndInv'
  BY <1>9, PutFileInv
<1>10. ASSUME NEW h \in Handle, CheckCommit(h) PROVE IndInv'
  BY <1>10, CheckCommitInv
<1>11. ASSUME NEW h \in Handle, Commit(h) PROVE IndInv'
  BY <1>11, CommitInv
<1>12. ASSUME NEW h \in Handle, CommitUnknown(h) PROVE IndInv'
  BY <1>12, CommitUnknownInv
<1>13. ASSUME NEW h \in Handle, FailAppend(h) PROVE IndInv'
  BY <1>13, FailAppendInv
<1>14. ASSUME NEW p \in DOMAIN files, Damage(p) PROVE IndInv'
  BY <1>14, DamageInv
<1>15. ASSUME UNCHANGED vars PROVE IndInv'
  <2>1. TypeOK'
    BY <1>15 DEF vars, IndInv, TypeOK
  <2>2. LockHeld' /\ Fenced' /\ ViewIsSeen' /\ SeenIsCommitted' /\ NothingYet' /\ AckedIsPrefix'
    BY <1>15 DEF vars, IndInv, LockHeld, Fenced, ViewIsSeen, SeenIsCommitted, NothingYet, AckedIsPrefix
  <2>3. AppendsAsPlanned' /\ RecoversAsPlanned' /\ CommittedReadable'
    BY <1>15 DEF vars, IndInv, AppendsAsPlanned, RecoversAsPlanned, CommittedReadable, Holds, Exists
  <2> QED BY <2>1, <2>2, <2>3 DEF IndInv
<1> QED
  BY <1>1, <1>2, <1>3, <1>4, <1>5, <1>6, <1>7, <1>8, <1>9, <1>10, <1>11, <1>12, <1>13, <1>14, <1>15
  DEF Next

\* Everything in the inductive invariant holds in every reachable state.
THEOREM Invariance == ASSUME CleanStart PROVE Spec => []IndInv
<1>1. Init => IndInv
  BY InitInv
<1>2. IndInv /\ [Next]_vars => IndInv'
  BY NextInv
<1> QED BY <1>1, <1>2, PTL DEF Spec

----------------------------------------------------------------------------
(* What follows from it. *)

\* Every variable keeps its type.
THEOREM TypeCorrect == ASSUME CleanStart PROVE Spec => []TypeOK
<1>1. IndInv => TypeOK
  BY DEF IndInv
<1> QED BY <1>1, Invariance, PTL

\* Whatever writers do, fail at or die in, the commit record points at bundles
\* that are in the store and spell the committed log.
THEOREM CommitIsReadable == ASSUME CleanStart PROVE Spec => []CommittedReadable
<1>1. IndInv => CommittedReadable
  BY DEF IndInv
<1> QED BY <1>1, Invariance, PTL

\* A new store, before its first commit record, is the empty log.
LEMMA NewContent == IndInv /\ commit = None => Content = <<>>
<1> SUFFICES ASSUME IndInv, commit = None PROVE Content = <<>>
  OBVIOUS
<1> DEFINE readable == UNION {FromBundles(size) : size \in 0..MaxSize}
           e == <<>>
<1>1. \A p \in DOMAIN files : p.level # Entries
  BY DEF IndInv, NothingYet
<1>2. ASSUME NEW s \in readable, IsInferredSize(Len(s)) PROVE s = e
  <2>1. PICK size \in 0..MaxSize : s \in FromBundles(size)
    OBVIOUS
  <2>2. s \in Seq(Entry) /\ Len(s) = size
    BY <2>1, ReadingFacts, BoundsAssumption DEF FromBundles
  <2>3. Len(s) = 0
    BY <1>1, <1>2, <2>2, NewStoreIsEmpty, BoundsAssumption
  <2> QED BY <2>2, <2>3
<1>3. e \in readable
  <2>1. Covers({Entries}, 0) = {}
    BY NothingCovered, LevelFacts
  <2>3. \A s \in Seq(Entry) : s \in [1..Len(s) -> Entry]
    OBVIOUS
  <2>4. e \in Seq(Entry) /\ Len(e) = 0
    OBVIOUS
  <2>5. e \in [1..0 -> Entry]
    BY <2>3, <2>4
  <2>2. e \in FromBundles(0)
    BY <2>1, <2>5 DEF FromBundles, Reading
  <2> QED BY <2>2, BoundsAssumption
<1>4. IsInferredSize(Len(e))
  <2>1. 0 \div W = 0 /\ 0 % W = 0 /\ Len(e) = 0
    BY SizesAssumption
  <2> QED BY <1>1, <2>1 DEF IsInferredSize, Exists, Bundle
<1>5. Content = CHOOSE s \in readable : IsInferredSize(Len(s))
  BY DEF Content
<1> HIDE DEF readable, e
<1>6. Content = e
  BY <1>2, <1>3, <1>4, <1>5
<1> QED BY <1>6 DEF e

\* The same in the next state.
LEMMA NewContentNext == (IndInv /\ commit = None => Content = <<>>)'
BY NewContent, PTL

\* A step replaces a commit record only by a longer one.
LEMMA CommitStep ==
  ASSUME IndInv, [Next]_vars, commit # None
  PROVE  commit' # None /\ IsPrefix(commit, commit')
<1>1. commit \in Seq(Entry)
  BY DEF IndInv, TypeOK
<1>2. ASSUME NEW h \in Handle, Pin(h) PROVE FALSE
  BY <1>2 DEF IndInv, Fenced, Writing, Pin
<1>3. ASSUME NEW h \in Handle, Commit(h) \/ CommitUnknown(h)
      PROVE  commit' # None /\ IsPrefix(commit, commit')
  <2>1. pc[h] = "commit" /\ commit = leaves[h] /\ IsPrefix(leaves[h], next[h])
    BY <1>3 DEF IndInv, Fenced, ViewIsSeen, AppendsAsPlanned, Writing, Commit, CommitUnknown
  <2>2. commit' = next[h] /\ next[h] \in Seq(Entry)
    BY <1>3, <2>1 DEF IndInv, TypeOK, Commit, CommitUnknown
  <2> QED BY <2>1, <2>2, NoneAssumption
<1>4. CASE commit' = commit
  BY <1>1, <1>4, PrefixRefl
<1> QED
  BY <1>2, <1>3, <1>4 DEF Next, vars, Open, LoadTiles, StartRecovery, FinishRecovery, Close,
     BeginAppend, RefuseAppend, PutFile, CheckCommit, FailAppend, Damage

\* No acknowledged entry is ever lost or replaced.
THEOREM AckedIsCommitted == ASSUME CleanStart PROVE Spec => []AckedCommitted
<1>1. ASSUME IndInv PROVE AckedCommitted
  <2>1. CASE commit = None
    <3>1. acked = <<>> /\ acked \in Seq(Entry) /\ Content = <<>>
      BY <1>1, <2>1, NewContent DEF IndInv, NothingYet, TypeOK
    <3> QED BY <3>1, PrefixRefl DEF AckedCommitted
  <2>2. CASE commit # None
    BY <1>1, <2>2 DEF IndInv, AckedIsPrefix, AckedCommitted, Content
  <2> QED BY <2>1, <2>2
<1> QED BY <1>1, Invariance, PTL

\* The committed log is only ever extended.
THEOREM OnlyGrows == ASSUME CleanStart PROVE Spec => ContentGrows
<1>1. ASSUME IndInv, IndInv', [Next]_vars PROVE IsPrefix(Content, Content')
  <2>1. CASE commit = None
    <3>1. Content = <<>>
      BY <1>1, <2>1, NewContent
    <3>2. CASE commit' = None
      <4>1. Content' = <<>>
        BY <1>1, <3>2, NewContentNext
      <4>2. <<>> \in Seq(Entry)
        OBVIOUS
      <4> QED BY <4>2, <3>1, <4>1, EmptyPrefix
    <3>3. CASE commit' # None
      <4>1. Content' = commit' /\ commit' \in Seq(Entry)
        BY <1>1, <3>3 DEF IndInv, TypeOK, Content
      <4> QED BY <3>1, <4>1, EmptyPrefix
    <3> QED BY <3>2, <3>3
  <2>2. CASE commit # None
    <3>1. Content = commit /\ commit \in Seq(Entry)
      BY <1>1, <2>2 DEF IndInv, TypeOK, Content
    <3>2. commit' # None /\ IsPrefix(commit, commit')
      BY <1>1, <2>2, <3>1, CommitStep
    <3> QED BY <3>1, <3>2 DEF Content
  <2> QED BY <2>1, <2>2
<1>2. IndInv /\ IndInv' /\ [Next]_vars => [IsPrefix(Content, Content')]_vars
  BY <1>1
<1> QED BY <1>2, Invariance, PTL DEF Spec, ContentGrows

----------------------------------------------------------------------------
(* What open handles see and what stays in the files; and, on a store that *)
(* has a commit record and where lock_writer excludes other writers, that  *)
(* the stored log implements AppendLog: every step of a handle, of a       *)
(* failing store or of the environment is a step of the abstract log or    *)
(* leaves it alone.                                                        *)

CommittedStart == Locking /\ ~Legacy

\* There always is a commit record, and every open handle has read it.
AllCommitted ==
  /\ commit # None
  /\ \A h \in Handle : pc[h] # "closed" => seen[h] # None

\* An append writes its handle's log and one batch.
WholeBatches ==
  \A h \in Handle :
    pc[h] \in Writing => \E batch \in Batches : next[h] = leaves[h] \o batch

RefInv == IndInv /\ AllCommitted /\ WholeBatches

\* The strengthening is inductive too.
LEMMA RefInvInit == ASSUME Init, CommittedStart PROVE RefInv
<1>1. IndInv
  BY InitInv DEF CommittedStart, CleanStart
<1>2. AllCommitted
  BY BoundsAssumption, NoneAssumption DEF Init, AllCommitted, CommittedStart
<1>3. WholeBatches
  BY DEF Init, WholeBatches, Writing
<1> QED BY <1>1, <1>2, <1>3 DEF RefInv

\* Every step keeps it.
LEMMA RefInvNext == ASSUME RefInv, CommittedStart, [Next]_vars PROVE RefInv'
<1>1. IndInv'
  BY NextInv DEF RefInv, CommittedStart, CleanStart
<1>2. commit' # None
  BY CommitStep DEF RefInv, AllCommitted
<1>3. \A h \in Handle : pc'[h] # "closed" => seen'[h] # None
  <2> USE NoneAssumption DEF RefInv, AllCommitted, IndInv, TypeOK, Phase
  <2>1. CASE UNCHANGED vars
    BY <2>1 DEF vars
  <2>2. ASSUME NEW k \in Handle,
               \/ Open(k) \/ LoadTiles(k) \/ StartRecovery(k) \/ FinishRecovery(k)
               \/ Close(k) \/ (\E batch \in Batches : BeginAppend(k, batch))
               \/ RefuseAppend(k) \/ PutFile(k) \/ CheckCommit(k) \/ FailAppend(k)
        PROVE  \A h \in Handle : pc'[h] # "closed" => seen'[h] # None
    BY <2>2 DEF Open, LoadTiles, StartRecovery, FinishRecovery, Close, BeginAppend,
       RefuseAppend, PutFile, CheckCommit, FailAppend, BackToIdle
  <2>3. ASSUME NEW k \in Handle, Pin(k) \/ Commit(k) \/ CommitUnknown(k)
        PROVE  \A h \in Handle : pc'[h] # "closed" => seen'[h] # None
    BY <2>3 DEF Pin, Commit, CommitUnknown, BackToIdle
  <2>4. ASSUME NEW p \in DOMAIN files, Damage(p)
        PROVE  \A h \in Handle : pc'[h] # "closed" => seen'[h] # None
    BY <2>4 DEF Damage
  <2> QED BY <2>1, <2>2, <2>3, <2>4 DEF Next
<1>4. WholeBatches'
  <2>0. /\ pc \in [Handle -> Phase]
        /\ leaves \in [Handle -> Seq(Entry)] /\ next \in [Handle -> Seq(Entry)]
        /\ WholeBatches
    BY DEF RefInv, IndInv, TypeOK
  <2> USE <2>0 DEF WholeBatches, Writing
  <2>1. CASE UNCHANGED vars
    BY <2>1 DEF vars
  <2>2. ASSUME NEW k \in Handle,
               \/ Open(k) \/ LoadTiles(k) \/ StartRecovery(k) \/ FinishRecovery(k)
               \/ Close(k) \/ RefuseAppend(k) \/ Pin(k) \/ PutFile(k) \/ CheckCommit(k)
               \/ Commit(k) \/ CommitUnknown(k) \/ FailAppend(k)
        PROVE  WholeBatches'
    <3>1. CASE Open(k) \/ LoadTiles(k) \/ Close(k)
      BY <3>1 DEF Open, LoadTiles, Close
    <3>2. CASE FinishRecovery(k)
      BY <3>2 DEF FinishRecovery
    <3>3. CASE StartRecovery(k)
      <4>1. /\ pc' = [pc EXCEPT ![k] = "recover"] /\ leaves' = leaves
            /\ \E z : next' = [next EXCEPT ![k] = z]
        BY <3>3 DEF StartRecovery
      <4>2. ASSUME NEW h \in Handle, pc'[h] \in {"pin", "put", "commit"}
            PROVE  h # k /\ pc[h] = pc'[h] /\ leaves'[h] = leaves[h] /\ next'[h] = next[h]
        BY <4>1, <4>2
      <4> QED BY <4>2
    <3>4. CASE RefuseAppend(k) \/ Pin(k) \/ CheckCommit(k)
      BY <3>4 DEF RefuseAppend, Pin, CheckCommit, BackToIdle
    <3>5. CASE PutFile(k)
      BY <3>5 DEF PutFile
    <3>6. CASE Commit(k) \/ CommitUnknown(k) \/ FailAppend(k)
      BY <3>6 DEF Commit, CommitUnknown, FailAppend, BackToIdle
    <3> QED BY <2>2, <3>1, <3>2, <3>3, <3>4, <3>5, <3>6
  <2>3. ASSUME NEW k \in Handle, NEW batch \in Batches, BeginAppend(k, batch)
        PROVE  WholeBatches'
    BY <2>3 DEF BeginAppend
  <2>4. ASSUME NEW p \in DOMAIN files, Damage(p) PROVE WholeBatches'
    BY <2>4 DEF Damage
  <2> QED BY <2>1, <2>2, <2>3, <2>4 DEF Next
<1> QED BY <1>1, <1>2, <1>3, <1>4 DEF RefInv, AllCommitted

\* So every reachable state satisfies it.
LEMMA RefInvariance == ASSUME CommittedStart PROVE Spec => []RefInv
<1>1. Init => RefInv
  BY RefInvInit
<1>2. RefInv /\ [Next]_vars => RefInv'
  BY RefInvNext
<1> QED BY <1>1, <1>2, PTL DEF Spec

\* What an open handle answers from is a prefix of the log.
THEOREM ViewsAreCommitted == ASSUME CommittedStart PROVE Spec => []ViewIsCommitted
<1>1. RefInv => ViewIsCommitted
  BY DEF RefInv, AllCommitted, IndInv, ViewIsSeen, SeenIsCommitted, ViewIsCommitted, Writing, Content
<1> QED BY <1>1, RefInvariance, PTL

----------------------------------------------------------------------------
(* Bundles spell one log only. *)

\* Every entry of a log is below one of its bundles.
LEMMA BundleOf ==
  ASSUME NEW size \in Nat, NEW i \in 1..size
  PROVE  \E p \in Covers({Entries}, size) : FirstEntry(p) <= i /\ i <= LastEntry(p)
<1> DEFINE n == (i - 1) \div W
           r == (i - 1) % W
           k == size \div W
           m == size % W
<1>1. W \in Nat \ {0} /\ Span[Entries] = 1
  BY SizesAssumption
<1>2. n \in Nat /\ r \in 0..(W - 1) /\ i - 1 = W * n + r
  <2>1. i - 1 \in Nat
    OBVIOUS
  <2> QED BY <1>1, <2>1, DivMod
<1>3. k \in Nat /\ m \in 0..(W - 1) /\ size = W * k + m
  BY <1>1, DivMod
<1>4. Items(Entries, size) = size
  BY <1>1 DEF Items
<1> HIDE DEF n, r, k, m
<1>5. n * W = W * n /\ k * W = W * k /\ W * n \in Nat /\ W * k \in Nat
  BY <1>1, <1>2, <1>3
<1>6. CASE n < k
  <2> DEFINE p == [level |-> Entries, n |-> n, width |-> W]
  <2>1. p \in Covers({Entries}, size)
    BY <1>2, <1>3, <1>4, <1>6 DEF Covers, FullPaths, k
  <2>2. FirstEntry(p) = W * n + 1 /\ LastEntry(p) = W * n + W
    BY <1>1, <1>2, <1>5 DEF FirstEntry, LastEntry
  <2> HIDE DEF p
  <2>3. FirstEntry(p) <= i /\ i <= LastEntry(p)
    BY <1>1, <1>2, <1>5, <2>2
  <2> QED BY <2>1, <2>3
<1>7. CASE ~(n < k)
  <2> DEFINE p == [level |-> Entries, n |-> k, width |-> m]
  <2>1. n = k
    <3>1. ASSUME n >= k + 1 PROVE FALSE
      <4>1. (k + 1) * W <= n * W /\ (k + 1) * W = W * k + W
        BY <1>1, <1>2, <1>3, <1>5, <3>1, TimesMono
      <4> QED BY <1>1, <1>2, <1>3, <1>5, <4>1
    <3> QED BY <1>2, <1>3, <1>7, <3>1
  <2>2. m > 0
    BY <1>1, <1>2, <1>3, <1>5, <2>1
  <2>3. p \in Covers({Entries}, size)
    BY <1>4, <2>2 DEF Covers, EdgePaths, k, m
  <2>4. FirstEntry(p) = W * k + 1 /\ LastEntry(p) = W * k + m
    BY <1>1, <1>3, <1>5 DEF FirstEntry, LastEntry
  <2> HIDE DEF p
  <2>5. FirstEntry(p) <= i /\ i <= LastEntry(p)
    BY <1>1, <1>2, <1>3, <1>5, <2>1, <2>4
  <2> QED BY <2>3, <2>5
<1> QED BY <1>6, <1>7

\* Logs of one size with the same bundles are the same.
LEMMA SameBundles ==
  ASSUME NEW s \in Seq(Entry), NEW t \in Seq(Entry), Len(s) = Len(t),
         \A p \in Covers({Entries}, Len(s)) : Slice(s, p) = Slice(t, p)
  PROVE  s = t
<1>1. Len(s) \in Nat
  OBVIOUS
<1>2. ASSUME NEW i \in 1..Len(s) PROVE s[i] = t[i]
  <2>1. PICK p \in Covers({Entries}, Len(s)) : FirstEntry(p) <= i /\ i <= LastEntry(p)
    BY <1>1, BundleOf
  <2>2. /\ FirstEntry(p) \in Nat /\ FirstEntry(p) >= 1
        /\ LastEntry(p) \in Nat /\ LastEntry(p) <= Len(s)
    BY <1>1, BundleFacts
  <2> DEFINE f == FirstEntry(p)
             e == LastEntry(p)
             j == i - f + 1
  <2>3. SubSeq(s, f, e) = SubSeq(t, f, e)
    BY DEF Slice
  <2> HIDE DEF f, e
  <2>4. j \in 1..(e - f + 1) /\ f + j - 1 = i
    BY <2>1, <2>2 DEF f, e
  <2>5. \A x \in {s, t} : \A k \in 1..(e - f + 1) : SubSeq(x, f, e)[k] = x[f + k - 1]
    BY <2>1, <2>2 DEF f, e
  <2> HIDE DEF j
  <2> QED BY <2>3, <2>4, <2>5
<1> QED BY <1>1, <1>2

----------------------------------------------------------------------------
(* What a handle opened on stays readable. *)

\* The bundles of a record a handle has read are in the store ...
SeenReadable ==
  \A h \in Handle : seen[h] # None =>
    \A p \in Covers({Entries}, Len(seen[h])) : Holds(p, seen[h])

\* ... and a recovery rebuilds the tiles of that record.
RebuildsSeen ==
  \A h \in Handle : pc[h] = "recover" /\ seen[h] # None => next[h] = seen[h]

\* Who puts a bundle is appending to the committed log.
LEMMA BundlePut ==
  ASSUME IndInv, CleanStart, NEW h \in Handle, PutFile(h), NEW p \in todo[h], p.level = Entries
  PROVE  /\ pc[h] = "put" /\ commit = leaves[h] /\ commit # None
         /\ IsPrefix(commit, next[h]) /\ next[h] \in Seq(Entry)
<1>1. next[h] \in Seq(Entry) /\ Len(next[h]) \in Nat
  BY DEF IndInv, TypeOK
<1>2. pc[h] = "put"
  <2>1. pc[h] = "recover" => p.level \in HashLevel
    BY <1>1, CoversFacts, LevelFacts DEF IndInv, RecoversAsPlanned
  <2> QED BY <2>1, LevelFacts DEF PutFile
<1> QED BY <1>1, <1>2, NoneAssumption DEF IndInv, Fenced, ViewIsSeen, AppendsAsPlanned, Writing

\* No step changes a bundle of a log that is a prefix of the committed one.
LEMMA BundleKept ==
  ASSUME IndInv, CleanStart, [Next]_vars, commit # None,
         NEW s \in Seq(Entry), IsPrefix(s, commit),
         NEW p \in Covers({Entries}, Len(s)), Holds(p, s)
  PROVE  Holds(p, s)'
<1>1. /\ Len(s) \in Nat /\ p.level = Entries
      /\ FirstEntry(p) \in Nat /\ FirstEntry(p) >= 1
      /\ LastEntry(p) \in Nat /\ LastEntry(p) <= Len(s)
      /\ FirstEntry(p) <= LastEntry(p) + 1
  <2>1. Len(s) \in Nat
    OBVIOUS
  <2> QED BY <2>1, BundleFacts
<1>2. commit \in Seq(Entry)
  BY DEF IndInv, TypeOK
<1>3. ASSUME NEW h \in Handle, PutFile(h) PROVE Holds(p, s)'
  <2>1. PICK q \in todo[h] :
          files' = [r \in DOMAIN files \cup {q} |-> IF r = q THEN Slice(next[h], q) ELSE files[r]]
    BY <1>3 DEF PutFile
  <2>2. CASE q # p
    BY <2>1, <2>2 DEF Holds, Exists
  <2>3. CASE q = p
    <3>1. IsPrefix(commit, next[h]) /\ next[h] \in Seq(Entry)
      BY <1>1, <1>3, <2>3, BundlePut
    <3>2. IsPrefix(s, next[h])
      BY <1>2, <3>1, PrefixTrans
    <3>3. Slice(s, p) = Slice(next[h], p)
      BY <1>1, <3>1, <3>2, SlicePrefix
    <3> QED BY <2>1, <2>3, <3>3 DEF Holds, Exists
  <2> QED BY <2>2, <2>3
<1>4. ASSUME NEW q \in DOMAIN files, Damage(q) PROVE Holds(p, s)'
  BY <1>1, <1>4 DEF Damage, Holds, Exists
<1>5. CASE files' = files
  BY <1>5 DEF Holds, Exists
<1> QED
  BY <1>3, <1>4, <1>5 DEF Next, vars, Open, LoadTiles, StartRecovery, FinishRecovery, Close,
     BeginAppend, RefuseAppend, Pin, CheckCommit, Commit, CommitUnknown, FailAppend

\* A handle's record only changes to the one in the store, or is given up.
LEMMA SeenStep ==
  ASSUME IndInv, [Next]_vars, NEW h \in Handle
  PROVE  seen'[h] \in {seen[h], None, commit'}
<1> USE DEF IndInv, TypeOK
<1>1. ASSUME NEW k \in Handle, Open(k) \/ Close(k) \/ Pin(k) \/ Commit(k)
      PROVE  seen'[h] \in {seen[h], None, commit'}
  BY <1>1 DEF Open, Close, Pin, Commit
<1>2. CASE seen' = seen
  BY <1>2
<1> QED
  BY <1>1, <1>2 DEF Next, vars, LoadTiles, StartRecovery, FinishRecovery, BeginAppend,
     RefuseAppend, PutFile, CheckCommit, CommitUnknown, FailAppend, Damage

\* A step keeps the bundles of every record that was read.
LEMMA SeenReadableNext ==
  ASSUME IndInv, IndInv', CleanStart, SeenReadable, [Next]_vars
  PROVE  SeenReadable'
<1> SUFFICES ASSUME NEW h \in Handle, seen'[h] # None
             PROVE  \A p \in Covers({Entries}, Len(seen'[h])) : Holds(p, seen[h])'
  BY DEF SeenReadable
<1>1. CASE seen'[h] = seen[h]
  <2>1. seen[h] \in Seq(Entry) /\ commit # None /\ IsPrefix(seen[h], commit)
    BY <1>1 DEF IndInv, TypeOK, SeenIsCommitted
  <2>2. \A p \in Covers({Entries}, Len(seen[h])) : Holds(p, seen[h])
    BY <1>1 DEF SeenReadable
  <2> DEFINE s == seen[h]
  <2>3. s \in Seq(Entry) /\ IsPrefix(s, commit)
    BY <2>1
  <2> HIDE DEF s
  <2>4. ASSUME NEW p \in Covers({Entries}, Len(s)) PROVE Exists(p)' /\ files'[p] = Slice(s, p)
    <3>1. Holds(p, s)
      BY <2>2 DEF s
    <3>2. PICK r : r = s
      OBVIOUS
    <3>3. r \in Seq(Entry) /\ IsPrefix(r, commit) /\ p \in Covers({Entries}, Len(r)) /\ Holds(p, r)
      BY <2>3, <3>1, <3>2
    <3>4. Holds(p, r)'
      BY <2>1, <3>3, BundleKept
    <3> QED BY <3>2, <3>4 DEF Holds
  <2> QED BY <1>1, <2>4 DEF Holds, s
<1>2. CASE seen'[h] = commit'
  BY <1>2 DEF IndInv, CommittedReadable, Holds
<1> QED BY <1>1, <1>2, SeenStep

\* A step keeps what a recovery rebuilds.
LEMMA RebuildsSeenNext ==
  ASSUME IndInv, CleanStart, SeenReadable, RebuildsSeen, [Next]_vars
  PROVE  RebuildsSeen'
<1> USE NoneAssumption DEF IndInv, TypeOK, Phase
<1>1. ASSUME NEW h \in Handle, StartRecovery(h) PROVE RebuildsSeen'
  <2>1. PICK size \in 0..MaxSize :
          OpensAt(h, size) /\ \E s \in FromBundles(size) : next' = [next EXCEPT ![h] = s]
    BY <1>1 DEF StartRecovery
  <2>2. PICK s \in FromBundles(size) : next' = [next EXCEPT ![h] = s]
    BY <2>1
  <2>3. seen[h] # None => s = seen[h]
    <3> SUFFICES ASSUME seen[h] # None PROVE s = seen[h]
      OBVIOUS
    <3>1. size = Len(seen[h]) /\ size \in Nat /\ seen[h] \in Seq(Entry)
      BY <2>1, BoundsAssumption DEF OpensAt
    <3>2. s \in Seq(Entry) /\ Len(s) = size
      BY <3>1, ReadingFacts DEF FromBundles
    <3>3. \A p \in Covers({Entries}, Len(s)) : Slice(s, p) = Slice(seen[h], p)
      BY <3>1, <3>2 DEF FromBundles, Reading, Holds, SeenReadable
    <3> QED BY <3>1, <3>2, <3>3, SameBundles
  <2> QED BY <1>1, <2>2, <2>3 DEF StartRecovery, RebuildsSeen
<1>2. ASSUME NEW h \in Handle,
             \/ Open(h) \/ LoadTiles(h) \/ FinishRecovery(h) \/ Close(h)
             \/ (\E batch \in Batches : BeginAppend(h, batch))
             \/ RefuseAppend(h) \/ PutFile(h) \/ CheckCommit(h) \/ FailAppend(h)
      PROVE  RebuildsSeen'
  BY <1>2 DEF RebuildsSeen, Open, LoadTiles, FinishRecovery, Close, BeginAppend, FirstPhase,
     RefuseAppend, PutFile, CheckCommit, FailAppend, BackToIdle
<1>3. ASSUME NEW h \in Handle, Pin(h) \/ Commit(h) \/ CommitUnknown(h)
      PROVE  RebuildsSeen'
  BY <1>3 DEF RebuildsSeen, Pin, Commit, CommitUnknown, BackToIdle
<1>4. ASSUME NEW p \in DOMAIN files, Damage(p) PROVE RebuildsSeen'
  BY <1>4 DEF Damage, RebuildsSeen
<1>5. CASE UNCHANGED vars
  BY <1>5 DEF vars, RebuildsSeen
<1> QED BY <1>1, <1>2, <1>3, <1>4, <1>5 DEF Next

\* A handle that read a commit record can finish opening, whatever writers do
\* meanwhile: the bundles of that record stay, and what a recovery rebuilds from
\* them has the committed root.
THEOREM OpenAlwaysSucceeds == ASSUME CleanStart PROVE Spec => []OpenSucceeds
<1> DEFINE Inv == IndInv /\ SeenReadable /\ RebuildsSeen
<1>1. Init => Inv
  <2>1. Init => IndInv
    BY InitInv
  <2>2. Init => SeenReadable /\ RebuildsSeen
    BY DEF Init, SeenReadable, RebuildsSeen
  <2> QED BY <2>1, <2>2
<1>2. Inv /\ [Next]_vars => Inv'
  BY NextInv, SeenReadableNext, RebuildsSeenNext
<1>3. Inv => OpenSucceeds
  <2> SUFFICES ASSUME Inv, NEW h \in Handle, seen[h] # None
               PROVE  /\ pc[h] = "opening" =>
                           BundlesLoad(Len(seen[h])) /\ seen[h] \in FromBundles(Len(seen[h]))
                      /\ pc[h] = "recover" => next[h] = seen[h]
    BY DEF OpenSucceeds
  <2> DEFINE s == seen[h]
             size == Len(s)
  <2>1. s \in Seq(Entry) /\ size \in Nat /\ s \in [1..size -> Entry]
    <3>1. s \in Seq(Entry)
      BY DEF IndInv, TypeOK
    <3> HIDE DEF s
    <3> QED BY <3>1
  <2>2. \A p \in Covers({Entries}, size) : Exists(p) /\ Holds(p, s)
    BY DEF SeenReadable, Holds
  <2> HIDE DEF s, size
  <2>3. s \in FromBundles(size)
    BY <2>1, <2>2 DEF FromBundles, Reading
  <2>4. BundlesLoad(size)
    <3>1. /\ Items(Entries, size) = size /\ W \in Nat \ {0}
          /\ size \div W \in Nat /\ size % W \in 0..(W - 1)
          /\ size = W * (size \div W) + (size % W)
      <4>1. W \in Nat \ {0} /\ Items(Entries, size) = size
        BY <2>1, SizesAssumption DEF Items
      <4> QED BY <2>1, <4>1, DivMod
    <3>2. ASSUME size % W > 0 PROVE Exists(Bundle(size \div W, size % W))
      <4>1. Bundle(size \div W, size % W) \in Covers({Entries}, size)
        BY <3>1, <3>2 DEF Covers, EdgePaths, Bundle
      <4> QED BY <2>2, <4>1
    <3>3. ASSUME size >= W PROVE Exists(Bundle(size \div W - 1, W))
      <4>1. size \div W > 0
        BY <3>1, <3>3, <2>1
      <4>2. Bundle(size \div W - 1, W) \in Covers({Entries}, size)
        BY <3>1, <4>1 DEF Covers, FullPaths, Bundle
      <4> QED BY <2>2, <4>2
    <3> QED BY <3>2, <3>3 DEF BundlesLoad
  <2> QED BY <2>3, <2>4 DEF RebuildsSeen, s, size
<1> QED BY <1>1, <1>2, <1>3, PTL DEF Spec

----------------------------------------------------------------------------
(* Hash tiles.                                                             *)

Right(p, s) == p \in damaged \/ Holds(p, s)

\* What an append put so far of its hash tiles is in the store, or damaged since.
TilesAsPlanned ==
  \A h \in Handle : pc[h] \in Writing =>
    \A p \in Puts(Level, Len(leaves[h]), Len(next[h])) \ todo[h] :
      p.level \in HashLevel => Right(p, next[h])

TilesInv ==
  RefInv /\ SeenReadable /\ RebuildsSeen /\ TilesAsPlanned /\ CommittedTilesTrue

\* One step for a file of a log: who writes it writes what is there.
LEMMA TileKept ==
  ASSUME RefInv, [Next]_vars, NEW s \in Seq(Entry), NEW p, Right(p, s),
         \A h \in Handle :
           pc[h] \in {"put", "recover"} /\ p \in todo[h] => Slice(next[h], p) = Slice(s, p)
  PROVE  Right(p, s)'
<1>1. ASSUME NEW h \in Handle, PutFile(h) PROVE Right(p, s)'
  <2>1. PICK q \in todo[h] :
          /\ files' = [r \in DOMAIN files \cup {q} |-> IF r = q THEN Slice(next[h], q) ELSE files[r]]
          /\ damaged' = damaged \ {q}
    BY <1>1 DEF PutFile
  <2>2. CASE q # p
    BY <2>1, <2>2 DEF Right, Holds, Exists
  <2>3. CASE q = p
    <3>1. Slice(next[h], p) = Slice(s, p)
      BY <1>1, <2>3 DEF PutFile
    <3> QED BY <2>1, <2>3, <3>1 DEF Right, Holds, Exists
  <2> QED BY <2>2, <2>3
<1>2. ASSUME NEW q \in DOMAIN files, Damage(q) PROVE Right(p, s)'
  BY <1>2 DEF Damage, Right, Holds, Exists
<1>3. CASE files' = files /\ damaged' = damaged
  BY <1>3 DEF Right, Holds, Exists
<1> QED
  BY <1>1, <1>2, <1>3 DEF Next, vars, Open, LoadTiles, StartRecovery, FinishRecovery, Close,
     BeginAppend, RefuseAppend, Pin, CheckCommit, Commit, CommitUnknown, FailAppend, BackToIdle

\* Whoever writes files writes those of a log that the committed log extends or
\* that extends the committed log.
LEMMA WritersAgree ==
  ASSUME RefInv, RebuildsSeen, NEW h \in Handle
  PROVE  /\ next[h] \in Seq(Entry) /\ commit \in Seq(Entry)
         /\ pc[h] \in Writing => commit = leaves[h] /\ IsPrefix(commit, next[h])
         /\ pc[h] = "recover" =>
              IsPrefix(next[h], commit) /\ todo[h] \subseteq Covers(HashLevel, Len(next[h]))
<1>1. next[h] \in Seq(Entry) /\ commit \in Seq(Entry)
  BY DEF RefInv, IndInv, TypeOK, AllCommitted
<1>2. pc[h] \in Writing => commit = leaves[h] /\ IsPrefix(commit, next[h])
  BY DEF RefInv, IndInv, AllCommitted, Fenced, ViewIsSeen, AppendsAsPlanned
<1>3. pc[h] = "recover" =>
        IsPrefix(next[h], commit) /\ todo[h] \subseteq Covers(HashLevel, Len(next[h]))
  BY DEF RefInv, IndInv, AllCommitted, SeenIsCommitted, RecoversAsPlanned, RebuildsSeen
<1> QED BY <1>1, <1>2, <1>3

\* A path of the shorter of two logs means the same in both.
LEMMA SameSlice ==
  ASSUME NEW s \in Seq(Entry), NEW t \in Seq(Entry), IsPrefix(s, t),
         NEW levels \in SUBSET Level, NEW p \in Covers(levels, Len(s))
  PROVE  Slice(s, p) = Slice(t, p)
<1>1. Len(s) \in Nat
  OBVIOUS
<1>2. /\ FirstEntry(p) \in Nat /\ FirstEntry(p) >= 1
      /\ LastEntry(p) \in Nat /\ LastEntry(p) <= Len(s)
      /\ FirstEntry(p) <= LastEntry(p) + 1
  BY <1>1, CoversFacts
<1> QED BY <1>2, SlicePrefix

\* A file is at one level only: what growing some levels puts is put when all
\* levels grow.
LEMMA PutsOfLevels ==
  ASSUME NEW levels \in SUBSET Level, NEW x \in Nat, NEW y \in Nat
  PROVE  Puts(levels, x, y) \subseteq Puts(Level, x, y)
<1> SUFFICES ASSUME NEW p \in Puts(levels, x, y) PROVE p \in Puts(Level, x, y)
  OBVIOUS
<1>1. p \in Covers(levels, y) /\ \A l \in levels : p \notin FullPaths(l, x)
  BY DEF Puts
<1>2. p \in Covers(Level, y) /\ p.level \in levels
  BY <1>1, CoversFacts DEF Covers
<1>3. \A l \in Level : p \in FullPaths(l, x) => l \in levels
  BY <1>2, CoversPath
<1> QED BY <1>1, <1>2, <1>3 DEF Puts

\* Once an append put everything, the hash tiles of the log it is to commit are right.
LEMMA GrownRight ==
  ASSUME NEW s \in Seq(Entry), NEW t \in Seq(Entry), IsPrefix(s, t),
         \A p \in Covers(HashLevel, Len(s)) : Right(p, s),
         \A p \in Puts(Level, Len(s), Len(t)) : p.level \in HashLevel => Right(p, t)
  PROVE  \A p \in Covers(HashLevel, Len(t)) : Right(p, t)
<1> SUFFICES ASSUME NEW p \in Covers(HashLevel, Len(t)) PROVE Right(p, t)
  OBVIOUS
<1>0. Len(s) \in Nat /\ Len(t) \in Nat /\ HashLevel \in SUBSET Level
  BY LevelFacts
<1>1. p.level \in HashLevel
  BY <1>0, CoversFacts
<1>2. CASE p \in Puts(HashLevel, Len(s), Len(t))
  BY <1>0, <1>1, <1>2, PutsOfLevels
<1>3. CASE p \in Covers(HashLevel, Len(s))
  <2>1. Slice(s, p) = Slice(t, p)
    BY <1>0, <1>3, SameSlice
  <2> QED BY <1>3, <2>1 DEF Right, Holds
<1> QED BY <1>0, <1>2, <1>3, PutsSplit

\* Tiles of the committed log stay right.
LEMMA CommittedTilesNext ==
  ASSUME TilesInv, CommittedStart, [Next]_vars
  PROVE  CommittedTilesTrue'
<1> USE DEF TilesInv
<1>1. commit \in Seq(Entry) /\ commit # None /\ HashLevel \in SUBSET Level
  BY LevelFacts DEF RefInv, AllCommitted, IndInv, TypeOK
<1>2. \A p \in Covers(HashLevel, Len(commit)) : Right(p, commit)
  BY <1>1 DEF CommittedTilesTrue, Right
<1>3. ASSUME NEW h \in Handle, Commit(h) \/ CommitUnknown(h) PROVE CommittedTilesTrue'
  <2>1. pc[h] = "commit"
    BY <1>3 DEF Commit, CommitUnknown, RefInv, AllCommitted, IndInv, Fenced, Writing
  <2>2. commit' = next[h] /\ files' = files /\ damaged' = damaged
    BY <1>3, <2>1 DEF Commit, CommitUnknown
  <2>3. next[h] \in Seq(Entry) /\ commit = leaves[h] /\ IsPrefix(commit, next[h])
    BY <2>1, WritersAgree DEF Writing
  <2>4. todo[h] = {}
    BY <2>1 DEF RefInv, IndInv, AppendsAsPlanned, Writing
  <2>5. \A p \in Puts(Level, Len(commit), Len(next[h])) :
          p.level \in HashLevel => Right(p, next[h])
    BY <2>1, <2>3, <2>4 DEF TilesAsPlanned, Writing
  <2>6. \A p \in Covers(HashLevel, Len(next[h])) : Right(p, next[h])
    BY <1>1, <1>2, <2>3, <2>5, GrownRight
  <2> QED BY <2>2, <2>6 DEF CommittedTilesTrue, Right, Holds, Exists
<1>4. CASE commit' = commit
  <2> SUFFICES ASSUME NEW p \in Covers(HashLevel, Len(commit)) PROVE Right(p, commit)'
    BY <1>4 DEF CommittedTilesTrue, Right
  <2>1. PICK s : s = commit
    OBVIOUS
  <2>2. ASSUME NEW h \in Handle, pc[h] \in {"put", "recover"}, p \in todo[h]
        PROVE  Slice(next[h], p) = Slice(s, p)
    <3>1. CASE pc[h] = "put"
      BY <1>1, <2>1, <3>1, WritersAgree, SameSlice DEF Writing
    <3>2. CASE pc[h] = "recover"
      BY <1>1, <2>1, <2>2, <3>2, WritersAgree, SameSlice
    <3> QED BY <2>2, <3>1, <3>2
  <2>3. s \in Seq(Entry) /\ Right(p, s)
    BY <1>1, <1>2, <2>1
  <2>4. Right(p, s)'
    BY <2>2, <2>3, TileKept
  <2> QED BY <1>4, <2>1, <2>4 DEF Right, Holds
<1>5. ASSUME NEW h \in Handle, Pin(h) PROVE FALSE
  BY <1>5 DEF Pin, RefInv, AllCommitted, IndInv, Fenced, Writing
<1> QED
  BY <1>3, <1>4, <1>5 DEF Next, vars, Open, LoadTiles, StartRecovery, FinishRecovery, Close,
     BeginAppend, RefuseAppend, PutFile, CheckCommit, FailAppend, BackToIdle, Damage

\* A writing handle has just planned its append, or goes on with it and put what
\* it struck off its plan.
LEMMA PlanStep ==
  ASSUME TilesInv, [Next]_vars, NEW h \in Handle, pc'[h] \in Writing
  PROVE  \/ todo'[h] = Puts(Level, Len(leaves'[h]), Len(next'[h]))
         \/ /\ pc[h] \in Writing /\ leaves'[h] = leaves[h] /\ next'[h] = next[h]
            /\ \A p \in todo[h] : p \in todo'[h] \/ Holds(p, next[h])'
<1> USE DEF TilesInv, RefInv, IndInv, TypeOK, Phase, Writing
<1> DEFINE Goes == /\ pc[h] \in Writing /\ leaves'[h] = leaves[h] /\ next'[h] = next[h]
                   /\ \A p \in todo[h] : p \in todo'[h] \/ Holds(p, next[h])'
<1>1. ASSUME NEW k \in Handle, NEW batch \in Batches, BeginAppend(k, batch)
      PROVE  Goes \/ todo'[h] = Puts(Level, Len(leaves'[h]), Len(next'[h]))
  BY <1>1 DEF BeginAppend
<1>2. ASSUME NEW k \in Handle, PutFile(k) PROVE Goes
  <2>1. PICK q \in todo[k] :
          /\ files' = [r \in DOMAIN files \cup {q} |-> IF r = q THEN Slice(next[k], q) ELSE files[r]]
          /\ todo' = [todo EXCEPT ![k] = @ \ {q}]
    BY <1>2 DEF PutFile
  <2>2. pc' = pc /\ leaves' = leaves /\ next' = next
    BY <1>2 DEF PutFile
  <2>3. ASSUME NEW p \in todo[h], p \notin todo'[h] PROVE Holds(p, next[h])'
    BY <2>1, <2>2, <2>3 DEF Holds, Exists
  <2> QED BY <2>2, <2>3
<1>3. ASSUME NEW k \in Handle,
             \/ Open(k) \/ LoadTiles(k) \/ StartRecovery(k) \/ FinishRecovery(k) \/ Close(k)
             \/ RefuseAppend(k) \/ Pin(k) \/ CheckCommit(k)
      PROVE  Goes
  BY <1>3 DEF Open, LoadTiles, StartRecovery, FinishRecovery, Close, RefuseAppend, Pin, CheckCommit
<1>4. ASSUME NEW k \in Handle, Commit(k) \/ CommitUnknown(k) \/ FailAppend(k) PROVE Goes
  BY <1>4 DEF Commit, CommitUnknown, FailAppend, BackToIdle
<1>5. ASSUME NEW q \in DOMAIN files, Damage(q) PROVE Goes
  BY <1>5 DEF Damage
<1>6. CASE UNCHANGED vars
  BY <1>6 DEF vars
<1> QED BY <1>1, <1>2, <1>3, <1>4, <1>5, <1>6 DEF Next

\* What an append put of its hash tiles stays right until it commits.
LEMMA TilesAsPlannedNext ==
  ASSUME TilesInv, CommittedStart, [Next]_vars
  PROVE  TilesAsPlanned'
<1> SUFFICES ASSUME NEW h \in Handle, pc'[h] \in Writing,
                    NEW p \in Puts(Level, Len(leaves'[h]), Len(next'[h])) \ todo'[h],
                    p.level \in HashLevel
             PROVE  Right(p, next[h])'
  BY DEF TilesAsPlanned
<1>1. /\ pc[h] \in Writing /\ leaves'[h] = leaves[h] /\ next'[h] = next[h]
      /\ p \in todo[h] => Holds(p, next[h])'
  BY PlanStep
<1>2. CASE p \in todo[h]
  BY <1>1, <1>2 DEF Right
<1>3. CASE p \notin todo[h]
  <2>1. PICK s : s = next[h]
    OBVIOUS
  <2>2. s \in Seq(Entry) /\ IsPrefix(commit, s) /\ commit \in Seq(Entry) /\ Right(p, s)
    BY <1>1, <1>3, <2>1, WritersAgree DEF TilesInv, TilesAsPlanned
  <2>3. ASSUME NEW k \in Handle, pc[k] \in {"put", "recover"}, p \in todo[k]
        PROVE  Slice(next[k], p) = Slice(s, p)
    <3>1. CASE pc[k] = "put"
      <4>1. k = h
        BY <1>1, <3>1 DEF TilesInv, RefInv, IndInv, LockHeld, Writing
      <4> QED BY <2>1, <4>1
    <3>2. CASE pc[k] = "recover"
      <4>1. /\ next[k] \in Seq(Entry) /\ IsPrefix(next[k], commit)
            /\ p \in Covers(HashLevel, Len(next[k]))
        BY <2>3, <3>2, WritersAgree DEF TilesInv
      <4>2. IsPrefix(next[k], s)
        BY <2>2, <4>1, PrefixTrans
      <4> QED BY <2>2, <4>1, <4>2, SameSlice, LevelFacts
    <3> QED BY <2>3, <3>1, <3>2
  <2>4. Right(p, s)'
    BY <2>2, <2>3, TileKept DEF TilesInv
  <2> QED BY <1>1, <2>1, <2>4 DEF Right, Holds
<1> QED BY <1>2, <1>3

\* Every hash tile of the committed size is right unless the environment
\* damaged it and nobody rewrote it since: neither a failed append nor a recovery
\* that runs beside a writer leaves a wrong one behind.
THEOREM CommittedTilesAreTrue ==
  ASSUME CommittedStart PROVE Spec => []CommittedTilesTrue
<1>1. CleanStart
  BY DEF CommittedStart, CleanStart
<1>2. Init => TilesInv
  <2> SUFFICES ASSUME Init PROVE TilesInv
    OBVIOUS
  <2>1. RefInv
    BY RefInvInit
  <2>2. SeenReadable /\ RebuildsSeen /\ TilesAsPlanned
    BY DEF Init, SeenReadable, RebuildsSeen, TilesAsPlanned, Writing
  <2>3. CommittedTilesTrue
    <3>1. PICK s \in InitLogs :
            \E missing \in IF Legacy THEN SUBSET Covers(HashLevel, Len(s)) ELSE {{}} :
              /\ files = [p \in Covers(Level, Len(s)) \ missing |-> Slice(s, p)]
              /\ commit = IF Legacy THEN None ELSE s
              /\ damaged = missing
      BY DEF Init
    <3>2. ~Legacy
      BY DEF CommittedStart
    <3>3. files = [p \in Covers(Level, Len(s)) |-> Slice(s, p)] /\ commit = s
      BY <3>1, <3>2
    <3>4. Covers(HashLevel, Len(s)) \subseteq Covers(Level, Len(s))
      BY LevelFacts DEF Covers
    <3> QED BY <3>3, <3>4 DEF CommittedTilesTrue, Holds, Exists
  <2> QED BY <2>1, <2>2, <2>3 DEF TilesInv
<1>3. TilesInv /\ [Next]_vars => TilesInv'
  <2> SUFFICES ASSUME TilesInv, [Next]_vars PROVE TilesInv'
    OBVIOUS
  <2>1. RefInv' /\ IndInv /\ IndInv'
    BY RefInvNext DEF TilesInv, RefInv
  <2>2. SeenReadable' /\ RebuildsSeen'
    BY <1>1, <2>1, SeenReadableNext, RebuildsSeenNext DEF TilesInv
  <2>3. TilesAsPlanned' /\ CommittedTilesTrue'
    BY TilesAsPlannedNext, CommittedTilesNext
  <2> QED BY <2>1, <2>2, <2>3 DEF TilesInv
<1>4. TilesInv => CommittedTilesTrue
  BY DEF TilesInv
<1> QED BY <1>2, <1>3, <1>4, PTL DEF Spec

----------------------------------------------------------------------------
(* The simulation. *)

View == [h \in Handle |-> ViewOf(h)]

\* Where a handle stands in the abstract log.
LEMMA ViewFacts ==
  ASSUME RefInv, NEW h \in Handle
  PROVE  /\ pc[h] = "closed" => ViewOf(h) = None
         /\ pc[h] # "closed" => ViewOf(h) \in Seq(Entry) /\ ViewOf(h) = seen[h]
         /\ Content = commit /\ commit \in Seq(Entry)
BY NoneAssumption DEF RefInv, AllCommitted, IndInv, TypeOK, Phase, ViewIsSeen, Writing, ViewOf, Content

\* The same after a step.
LEMMA ViewFactsNext ==
  ASSUME RefInv', NEW h \in Handle
  PROVE  /\ pc'[h] = "closed" => ViewOf(h)' = None
         /\ pc'[h] # "closed" => ViewOf(h)' \in Seq(Entry) /\ ViewOf(h)' = seen'[h]
         /\ Content' = commit' /\ commit' \in Seq(Entry)
BY NoneAssumption DEF RefInv, AllCommitted, IndInv, TypeOK, Phase, ViewIsSeen, Writing, ViewOf, Content

\* Most steps leave the abstract log and its views alone.
LEMMA Stutter ==
  ASSUME RefInv, RefInv', commit' = commit, seen' = seen,
         \A h \in Handle : pc'[h] = "closed" <=> pc[h] = "closed"
  PROVE  Content' = Content /\ View' = View
<1>1. Content' = Content
  BY ViewFacts, ViewFactsNext DEF RefInv, AllCommitted, Content
<1>2. \A h \in Handle : ViewOf(h)' = ViewOf(h)
  BY ViewFacts, ViewFactsNext
<1> QED BY <1>1, <1>2 DEF View

\* One handle's view changes, to what it has read or written.
LEMMA ViewChange ==
  ASSUME RefInv, RefInv', NEW h \in Handle,
         \A k \in Handle \ {h} : seen'[k] = seen[k] /\ (pc'[k] = "closed" <=> pc[k] = "closed")
  PROVE  View' = [View EXCEPT ![h] = ViewOf(h)']
<1>1. \A k \in Handle \ {h} : ViewOf(k)' = ViewOf(k)
  BY ViewFacts, ViewFactsNext
<1> QED BY <1>1 DEF View

\* Every step is a step of the abstract log or changes nothing of it.
LEMMA Simulation ==
  ASSUME RefInv, RefInv', CommittedStart, [Next]_vars
  PROVE  [Abstract!Next]_(Abstract!vars)
<1> USE DEF Abstract!Next, Abstract!vars
<1>1. ASSUME NEW h \in Handle, Open(h) PROVE Abstract!Open(h)
  <2>1. View[h] = None /\ Content' = Content /\ ViewOf(h)' = Content
    BY <1>1, ViewFacts, ViewFactsNext DEF Open, View, RefInv, IndInv, TypeOK
  <2>2. View' = [View EXCEPT ![h] = ViewOf(h)']
    BY <1>1, ViewChange DEF Open, RefInv, IndInv, TypeOK
  <2> QED BY <2>1, <2>2 DEF Abstract!Open, View
<1>2. ASSUME NEW h \in Handle, Close(h) PROVE Abstract!Close(h)
  <2>1. View[h] # None /\ Content' = Content /\ ViewOf(h)' = None
    BY <1>2, ViewFacts, ViewFactsNext, NoneAssumption DEF Close, View, RefInv, IndInv, TypeOK
  <2>2. View' = [View EXCEPT ![h] = ViewOf(h)']
    BY <1>2, ViewChange DEF Close, RefInv, IndInv, TypeOK
  <2> QED BY <2>1, <2>2 DEF Abstract!Close, View
<1>3. ASSUME NEW h \in Handle, Commit(h)
      PROVE  \E batch \in Batches : Abstract!AppendBatch(h, batch)
  <2>1. View[h] = Content /\ leaves[h] = Content /\ Content' = next[h] /\ ViewOf(h)' = Content'
    BY <1>3, ViewFacts, ViewFactsNext
    DEF Commit, BackToIdle, View, RefInv, IndInv, TypeOK, Fenced, ViewIsSeen, Writing, AllCommitted
  <2>2. View' = [View EXCEPT ![h] = ViewOf(h)']
    BY <1>3, ViewChange DEF Commit, BackToIdle, RefInv, IndInv, TypeOK
  <2>3. \E batch \in Batches : next[h] = leaves[h] \o batch
    BY <1>3 DEF Commit, RefInv, WholeBatches, Writing
  <2> QED BY <2>1, <2>2, <2>3 DEF Abstract!AppendBatch, View
<1>4. ASSUME NEW h \in Handle, CommitUnknown(h)
      PROVE  \E batch \in Batches : Abstract!AppendUnacknowledged(h, batch)
  <2>1. pc[h] = "commit"
    BY <1>4 DEF CommitUnknown, RefInv, AllCommitted, IndInv, Fenced, Writing
  <2>2. View[h] = Content /\ leaves[h] = Content /\ Content' = next[h]
    BY <1>4, <2>1, ViewFacts, ViewFactsNext
    DEF CommitUnknown, View, RefInv, IndInv, TypeOK, Fenced, ViewIsSeen, Writing, AllCommitted
  <2>3. \A k \in Handle : ViewOf(k)' = ViewOf(k)
    BY <1>4, <2>1, ViewFacts, ViewFactsNext DEF CommitUnknown, BackToIdle, RefInv, IndInv, TypeOK
  <2>4. \E batch \in Batches : next[h] = leaves[h] \o batch
    BY <2>1 DEF RefInv, WholeBatches, Writing
  <2> QED BY <2>2, <2>3, <2>4 DEF Abstract!AppendUnacknowledged, View
<1>5. ASSUME NEW h \in Handle, Pin(h) PROVE FALSE
  BY <1>5 DEF Pin, RefInv, AllCommitted, IndInv, Fenced, Writing
<1>6. ASSUME NEW h \in Handle,
             \/ LoadTiles(h) \/ StartRecovery(h) \/ FinishRecovery(h)
             \/ (\E batch \in Batches : BeginAppend(h, batch))
             \/ RefuseAppend(h) \/ PutFile(h) \/ CheckCommit(h) \/ FailAppend(h)
      PROVE  Content' = Content /\ View' = View
  <2>1. commit' = commit /\ seen' = seen /\ \A k \in Handle : pc'[k] = "closed" <=> pc[k] = "closed"
    BY <1>6 DEF LoadTiles, StartRecovery, FinishRecovery, BeginAppend, FirstPhase, RefuseAppend,
       PutFile, CheckCommit, FailAppend, BackToIdle, RefInv, IndInv, TypeOK
  <2> QED BY <2>1, Stutter
<1>7. ASSUME NEW p \in DOMAIN files, Damage(p) PROVE Content' = Content /\ View' = View
  BY <1>7, Stutter DEF Damage
<1>8. CASE UNCHANGED vars
  <2>1. Content' = Content /\ View' = View
    BY <1>8, Stutter DEF vars
  <2> QED BY <2>1 DEF View
<1>9. CASE Next
  <2>1. ASSUME Content' = Content /\ View' = View
        PROVE  [Abstract!Next]_(Abstract!vars)
    BY <2>1 DEF View
  <2> QED BY <1>1, <1>2, <1>3, <1>4, <1>5, <1>6, <1>7, <1>9, <2>1 DEF Next
<1> QED BY <1>8, <1>9

\* The tile log implements the abstract append-only log.
THEOREM Refinement == ASSUME CommittedStart PROVE Spec => ImplementsAppendLog
<1>1. Init => Abstract!Init
  <2> SUFFICES ASSUME Init PROVE Abstract!Init
    OBVIOUS
  <2>1. RefInv /\ \A h \in Handle : pc[h] = "closed"
    BY RefInvInit DEF Init
  <2>2. Content \in Seq(Entry)
    BY <2>1 DEF RefInv, AllCommitted, IndInv, TypeOK, Content
  <2>3. \A h \in Handle : ViewOf(h) = None
    BY <2>1, ViewFacts
  <2> QED BY <2>2, <2>3 DEF Abstract!Init
<1>2. RefInv /\ RefInv' /\ [Next]_vars => [Abstract!Next]_(Abstract!vars)
  BY Simulation
<1> QED BY <1>1, <1>2, RefInvariance, PTL DEF Spec, ImplementsAppendLog, Abstract!Spec
=============================================================================
