-------------------------- MODULE CheckpointProofs --------------------------
(***************************************************************************)
(* Proofs about checkpoints: what the loops over signature lines compute,  *)
(* and what follows for every note that reaches a verifier, for every set  *)
(* of origins, names, keys, trees and trusted witnesses.                   *)
(***************************************************************************)
EXTENDS Checkpoint, SequenceLemmas

(* The loops. *)

\* The keys that some line is a signature of.
Signers(text, lines, keys) ==
  {k \in keys : k.key \notin WeakKey /\ \E i \in DOMAIN lines : Valid(lines[i], text, k)}

\* valid_signers: every key with a signature on some line, each once.
LEMMA ValidSignersAre ==
  ASSUME NEW text, NEW L, NEW lines \in Seq(L), NEW keys, IsFiniteSet(keys)
  PROVE  LET signers == ValidSigners(text, lines, keys) IN
         /\ signers \in Seq(keys) /\ IsInjective(signers)
         /\ ToSet(signers) = Signers(text, lines, keys)
<1> DEFINE found(line) == {k \in keys : k.key \notin WeakKey /\ Valid(line, text, k)}
           new(i, x) == SetToSeq(found(lines[i]) \ ToSet(x))
           N == Len(lines)
           S == Seq(keys)
           F == [i \in 1..N |-> [x \in S |-> x \o new(i, x)]]
           ok == CHOOSE ok : ok = [i \in 0..N |->
                   IF i = 0 THEN <<>>
                   ELSE LET before == ok[i - 1]
                        IN  before \o SetToSeq(found(lines[i]) \ ToSet(before))]
<1>1. N \in Nat /\ DOMAIN lines = 1..N
  OBVIOUS
<1>2. ASSUME NEW i \in 1..N, NEW x \in S
      PROVE  /\ new(i, x) \in S /\ IsInjective(new(i, x))
             /\ ToSet(new(i, x)) = found(lines[i]) \ ToSet(x)
  <2> DEFINE T == found(lines[i]) \ ToSet(x)
  <2>1. IsFiniteSet(T)
    BY FS_Subset
  <2>2. T \subseteq keys
    OBVIOUS
  <2> HIDE DEF T
  <2>3. SetToSeq(T) \in Seq(T) /\ ToSet(SetToSeq(T)) = T /\ IsInjective(SetToSeq(T))
    BY <2>1, SetToSeqIs
  <2>4. SetToSeq(T) \in Seq(keys)
    BY <2>2, <2>3
  <2> QED BY <2>3, <2>4 DEF T
<1> HIDE DEF new
<1>3. F \in [1..N -> [S -> S]]
  BY <1>2
<1>4. \E f : f = [i \in 0..N |-> IF i = 0 THEN <<>> ELSE f[i - 1] \o new(i, f[i - 1])]
  <2>1. <<>> \in S
    OBVIOUS
  <2> HIDE DEF F, N, S
  <2>2. Recursion(N, S, <<>>, F)
    BY <1>1, <1>3, <2>1, RecursionExists
  <2>5. PICK f : f \in [0..N -> S] /\ f[0] = <<>> /\ \A i \in 1..N : f[i] = F[i][f[i - 1]]
    BY <2>2 DEF Recursion, Recursive
  <2>3. \A i \in 1..N : f[i] = f[i - 1] \o new(i, f[i - 1])
    <3>1. \A i \in 1..N : f[i - 1] \in S
      BY <1>1, <2>5
    <3> QED BY <2>5, <3>1 DEF F
  <2>4. f = [i \in 0..N |-> IF i = 0 THEN <<>> ELSE f[i - 1] \o new(i, f[i - 1])]
    BY <1>1, <2>5, <2>3
  <2> QED BY <2>4
<1>5. ok = [i \in 0..N |-> IF i = 0 THEN <<>> ELSE ok[i - 1] \o new(i, ok[i - 1])]
  BY <1>4 DEF new
<1>6. ValidSigners(text, lines, keys) = ok[N]
  BY DEF ValidSigners
<1> HIDE DEF ok, N, S, F, found
<1>7. ok[0] = <<>> /\ \A i \in 1..N : ok[i] = ok[i - 1] \o new(i, ok[i - 1])
  BY <1>1, <1>5
<1> DEFINE Seen(i) == UNION {found(lines[j]) : j \in 1..i}
           U == {i \in 0..N : ok[i] \in S /\ IsInjective(ok[i]) /\ ToSet(ok[i]) = Seen(i)}
<1>8. 0 \in U
  <2>1. <<>> \in S /\ IsInjective(<<>>) /\ ToSet(<<>>) = {}
    BY DEF ToSet, IsInjective, S
  <2>2. Seen(0) = {} /\ 0 \in 0..N
    BY <1>1
  <2> HIDE DEF Seen
  <2> QED BY <1>7, <2>1, <2>2
<1>9. ASSUME NEW i \in 0..(N - 1), i \in U PROVE i + 1 \in U
  <2> DEFINE b == ok[i]
             c == new(i + 1, b)
  <2>1. i + 1 \in 1..N /\ i + 1 \in 0..N /\ (i + 1) - 1 = i
    BY <1>1
  <2>2. b \in S /\ IsInjective(b) /\ ToSet(b) = Seen(i)
    BY <1>9
  <2>3. c \in S /\ IsInjective(c) /\ ToSet(c) = found(lines[i + 1]) \ ToSet(b)
    BY <1>2, <2>1, <2>2
  <2>4. ok[i + 1] = b \o c
    BY <1>7, <2>1
  <2> HIDE DEF b, c
  <2>5. /\ b \o c \in S /\ IsInjective(b \o c) /\ ToSet(b \o c) = ToSet(b) \cup ToSet(c)
    <3>1. ToSet(b) \cap ToSet(c) = {}
      BY <2>3
    <3> QED BY <2>2, <2>3, <3>1, JoinInjective DEF S
  <2>6. Seen(i + 1) = Seen(i) \cup found(lines[i + 1])
    <3>1. 1..(i + 1) = (1..i) \cup {i + 1}
      BY <2>1, <1>1
    <3> QED BY <3>1
  <2>7. ToSet(b \o c) = Seen(i + 1)
    BY <2>2, <2>3, <2>5, <2>6
  <2> QED BY <2>1, <2>4, <2>5, <2>7
<1>10. N \in U
  <2> HIDE DEF U
  <2>1. 0..N \subseteq U
    BY <1>1, <1>8, <1>9, NatUpTo
  <2> QED BY <1>1, <2>1
<1>11. Seen(N) = Signers(text, lines, keys)
  BY <1>1 DEF found, Signers
<1> QED BY <1>6, <1>10, <1>11 DEF S

\* One turn of the loop that counts signers.
Counting(before, s) ==
  [got |-> before.got + (IF NewSigner(before, s) THEN 1 ELSE 0),
   names |-> before.names \cup {s.name}, keys |-> before.keys \cup {s.key}]

Uncounted == [got |-> 0, names |-> {}, keys |-> {}]

\* The loop, turn by turn.
LEMMA GotIs ==
  ASSUME NEW K, NEW signers \in Seq(K)
  PROVE  \E count :
           /\ Got(signers) = count[Len(signers)].got
           /\ count[0] = Uncounted
           /\ \A i \in 1..Len(signers) : count[i] = Counting(count[i - 1], signers[i])
           /\ \A i \in 0..Len(signers) : count[i].got \in Nat
<1> DEFINE N == Len(signers)
           Names == {signers[i].name : i \in 1..N}
           Keys == {signers[i].key : i \in 1..N}
           S == [got : Nat, names : SUBSET Names, keys : SUBSET Keys]
           F == [i \in 1..N |-> [x \in S |-> Counting(x, signers[i])]]
           count == CHOOSE count : count = [i \in 0..N |->
                      IF i = 0 THEN Uncounted
                      ELSE LET before == count[i - 1]
                               s == signers[i]
                           IN  [got |-> before.got + (IF NewSigner(before, s) THEN 1 ELSE 0),
                                names |-> before.names \cup {s.name},
                                keys |-> before.keys \cup {s.key}]]
<1>1. N \in Nat
  OBVIOUS
<1>2. \A i \in 1..N : \A x \in S : Counting(x, signers[i]) \in S
  BY DEF Counting
<1>3. F \in [1..N -> [S -> S]]
  <2> HIDE DEF S
  <2> QED BY <1>2
<1>4. Uncounted \in S
  BY DEF Uncounted
<1> HIDE DEF S, N
<1>5. PICK f : f \in [0..N -> S] /\ f[0] = Uncounted /\ \A i \in 1..N : f[i] = F[i][f[i - 1]]
  <2> HIDE DEF F
  <2>1. Recursion(N, S, Uncounted, F)
    BY <1>1, <1>3, <1>4, RecursionExists
  <2> QED BY <2>1 DEF Recursion, Recursive
<1>6. \A i \in 1..N : f[i] = Counting(f[i - 1], signers[i])
  <2>1. \A i \in 1..N : f[i - 1] \in S
    BY <1>1, <1>5
  <2> QED BY <1>5, <2>1
<1> HIDE DEF F
<1>7. f = [i \in 0..N |-> IF i = 0 THEN Uncounted ELSE Counting(f[i - 1], signers[i])]
  BY <1>1, <1>5, <1>6
<1>8. count = [i \in 0..N |-> IF i = 0 THEN Uncounted ELSE Counting(count[i - 1], signers[i])]
  BY <1>7 DEF Counting
<1>9. Got(signers) = count[N].got
  BY DEF Got, N, Uncounted
<1> HIDE DEF count
<1>10. count[0] = Uncounted /\ \A i \in 1..N : count[i] = Counting(count[i - 1], signers[i])
  BY <1>1, <1>8
<1>11. \A i \in 0..N : count[i].got \in Nat
  <2> DEFINE U == {i \in 0..N : count[i].got \in Nat}
  <2>1. 0 \in U
    BY <1>1, <1>10 DEF Uncounted
  <2>2. ASSUME NEW i \in 0..(N - 1), i \in U PROVE i + 1 \in U
    <3>1. i + 1 \in 1..N /\ (i + 1) - 1 = i
      BY <1>1
    <3>2. count[i + 1] = Counting(count[i], signers[i + 1])
      BY <1>10, <3>1
    <3> QED BY <2>2, <3>1, <3>2 DEF Counting
  <2> HIDE DEF U
  <2>3. 0..N \subseteq U
    BY <1>1, <2>1, <2>2, NatUpTo
  <2> QED BY <2>3 DEF U
<1> QED BY <1>9, <1>10, <1>11 DEF N

\* The names and keys of a set of signers all differ.
TellApart(T) == \A j, k \in T : j # k => j.name # k.name /\ j.key # k.key

\* What is counted are different signers: as many as the count have names and keys
\* that all differ.
LEMMA GotIsReal ==
  ASSUME NEW K, NEW signers \in Seq(K)
  PROVE  /\ Got(signers) \in Nat
         /\ \E T \in SUBSET ToSet(signers) :
              IsFiniteSet(T) /\ Cardinality(T) = Got(signers) /\ TellApart(T)
<1> DEFINE N == Len(signers)
<1>1. PICK count :
        /\ Got(signers) = count[N].got
        /\ count[0] = Uncounted
        /\ \A i \in 1..N : count[i] = Counting(count[i - 1], signers[i])
        /\ \A i \in 0..N : count[i].got \in Nat
  BY GotIs
<1>2. N \in Nat /\ DOMAIN signers = 1..N
  OBVIOUS
<1> HIDE DEF N
<1> DEFINE Fits(i, T) ==
             /\ IsFiniteSet(T) /\ Cardinality(T) = count[i].got /\ TellApart(T)
             /\ \A k \in T : k.name \in count[i].names /\ k.key \in count[i].keys
           U == {i \in 0..N : \E T \in SUBSET ToSet(signers) : Fits(i, T)}
<1>3. 0 \in U
  <2>1. Fits(0, {})
    BY <1>1, FS_EmptySet DEF Uncounted, TellApart
  <2> HIDE DEF Fits
  <2> QED BY <1>2, <2>1
<1>4. ASSUME NEW i \in 0..(N - 1), i \in U PROVE i + 1 \in U
  <2>1. i + 1 \in 1..N /\ (i + 1) - 1 = i /\ i \in 0..N /\ i + 1 \in 0..N
    BY <1>2
  <2>2. PICK T \in SUBSET ToSet(signers) : Fits(i, T)
    BY <1>4
  <2> DEFINE c == count[i]
             d == count[i + 1]
             s == signers[i + 1]
  <2>3. d = Counting(c, s) /\ s \in ToSet(signers) /\ c.got \in Nat
    BY <1>1, <1>2, <2>1 DEF ToSet
  <2> HIDE DEF c, d, s
  <2>4. /\ d.got = c.got + (IF NewSigner(c, s) THEN 1 ELSE 0)
        /\ d.names = c.names \cup {s.name} /\ d.keys = c.keys \cup {s.key}
    BY <2>3 DEF Counting
  <2>5. /\ IsFiniteSet(T) /\ Cardinality(T) = c.got /\ TellApart(T)
        /\ \A k \in T : k.name \in c.names /\ k.key \in c.keys
    BY <2>2 DEF c
  <2>6. CASE NewSigner(c, s)
    <3>1. \A k \in T : k.name # s.name /\ k.key # s.key
      BY <2>5, <2>6 DEF NewSigner
    <3>2. s \notin T
      BY <3>1
    <3>3. IsFiniteSet(T \cup {s}) /\ Cardinality(T \cup {s}) = c.got + 1
      BY <2>5, <3>2, FS_AddElement
    <3>4. TellApart(T \cup {s})
      BY <2>5, <3>1 DEF TellApart
    <3>5. d.got = c.got + 1
      BY <2>4, <2>6
    <3>6. Fits(i + 1, T \cup {s})
      BY <2>4, <2>5, <3>3, <3>4, <3>5 DEF d
    <3>7. T \cup {s} \in SUBSET ToSet(signers)
      BY <2>3
    <3> HIDE DEF Fits
    <3> QED BY <2>1, <3>6, <3>7
  <2>7. CASE ~NewSigner(c, s)
    <3>1. d.got = c.got
      BY <2>3, <2>4, <2>7
    <3>2. Fits(i + 1, T)
      BY <2>4, <2>5, <3>1 DEF d
    <3> HIDE DEF Fits
    <3> QED BY <2>1, <3>2
  <2> QED BY <2>6, <2>7
<1>5. N \in U
  <2> HIDE DEF U
  <2>1. 0..N \subseteq U
    BY <1>2, <1>3, <1>4, NatUpTo
  <2> QED BY <1>2, <2>1
<1>6. Got(signers) \in Nat
  BY <1>1, <1>2
<1> QED BY <1>1, <1>5, <1>6

\* A signer that shares neither its name nor its key with another one counts,
\* whatever the others use up.
LEMMA ApartCount ==
  ASSUME NEW K, NEW signers \in Seq(K), IsInjective(signers)
  PROVE  Cardinality(Apart(ToSet(signers))) <= Got(signers)
<1> DEFINE N == Len(signers)
           all == ToSet(signers)
           A(i) == {s \in Apart(all) : \E j \in 1..i : signers[j] = s}
<1>1. PICK count :
        /\ Got(signers) = count[N].got
        /\ count[0] = Uncounted
        /\ \A i \in 1..N : count[i] = Counting(count[i - 1], signers[i])
        /\ \A i \in 0..N : count[i].got \in Nat
  BY GotIs
<1>2. N \in Nat /\ DOMAIN signers = 1..N
  OBVIOUS
<1>3. \A i \in 1..N : signers[i] \in all
  BY <1>2 DEF ToSet
<1>4. \A i, j \in 1..N : i # j => signers[i] # signers[j]
  BY <1>2 DEF IsInjective
<1>5. A(N) = Apart(all)
  BY <1>2 DEF Apart, ToSet
<1> HIDE DEF N, all
<1> DEFINE U == {i \in 0..N : /\ IsFiniteSet(A(i)) /\ Cardinality(A(i)) <= count[i].got
                              /\ count[i].names = {signers[j].name : j \in 1..i}
                              /\ count[i].keys = {signers[j].key : j \in 1..i}}
<1>6. 0 \in U
  <2>1. A(0) = {} /\ {signers[j].name : j \in 1..0} = {} /\ {signers[j].key : j \in 1..0} = {}
    OBVIOUS
  <2> HIDE DEF A
  <2>2. count[0].got = 0 /\ count[0].names = {} /\ count[0].keys = {}
    BY <1>1 DEF Uncounted
  <2>3. IsFiniteSet(A(0)) /\ Cardinality(A(0)) <= count[0].got
    <3>1. IsFiniteSet(A(0)) /\ Cardinality(A(0)) = 0
      BY <2>1, FS_EmptySet
    <3> QED BY <2>2, <3>1
  <2>4. 0 \in 0..N
    BY <1>2
  <2> QED BY <2>1, <2>2, <2>3, <2>4
<1>7. ASSUME NEW i \in 0..(N - 1), i \in U PROVE i + 1 \in U
  <2>1. /\ i + 1 \in 1..N /\ (i + 1) - 1 = i /\ i + 1 \in 0..N /\ i \in 0..N
        /\ 1..(i + 1) = (1..i) \cup {i + 1}
        /\ \A j \in 1..i : j \in 1..N /\ j # i + 1
    BY <1>2
  <2> DEFINE c == count[i]
             d == count[i + 1]
             s == signers[i + 1]
             B == A(i)
  <2>2. d = Counting(c, s)
    BY <1>1, <2>1
  <2>3. /\ IsFiniteSet(B) /\ Cardinality(B) <= c.got
        /\ c.names = {signers[j].name : j \in 1..i}
        /\ c.keys = {signers[j].key : j \in 1..i}
    BY <1>7
  <2>4. A(i + 1) = B \cup (IF s \in Apart(all) THEN {s} ELSE {})
    BY <2>1
  <2>5. s \in Apart(all) => NewSigner(c, s)
    <3>1. ASSUME s \in Apart(all), NEW j \in 1..i
          PROVE  signers[j].name # s.name /\ signers[j].key # s.key
      <4>1. signers[j] # s /\ signers[j] \in all
        BY <1>3, <1>4, <2>1
      <4> QED BY <3>1, <4>1 DEF Apart
    <3> QED BY <2>3, <3>1 DEF NewSigner
  <2>6. c.got \in Nat
    BY <1>1, <2>1
  <2>7. Cardinality(B) \in Nat
    BY <2>3, FS_CardinalityType
  <2> HIDE DEF A
  <2>8. /\ d.names = {signers[j].name : j \in 1..(i + 1)}
        /\ d.keys = {signers[j].key : j \in 1..(i + 1)}
    <3>1. d.names = c.names \cup {s.name} /\ d.keys = c.keys \cup {s.key}
      BY <2>2 DEF Counting
    <3> HIDE DEF c, d
    <3> QED BY <2>1, <2>3, <3>1
  <2>9. d.got = c.got + (IF NewSigner(c, s) THEN 1 ELSE 0)
    BY <2>2 DEF Counting
  <2> HIDE DEF c, d, s, B
  <2>10. IsFiniteSet(A(i + 1)) /\ Cardinality(A(i + 1)) <= d.got
    <3>1. CASE s \in Apart(all)
      <4>1. A(i + 1) = B \cup {s}
        BY <2>4, <3>1
      <4>2. IsFiniteSet(B \cup {s}) /\ Cardinality(B \cup {s}) <= Cardinality(B) + 1
        <5>1. CASE s \in B
          <6>1. B \cup {s} = B
            BY <5>1
          <6>2. Cardinality(B) <= Cardinality(B) + 1
            BY <2>7
          <6> QED BY <2>3, <6>1, <6>2, Zenon
        <5>2. CASE s \notin B
          <6>1. IsFiniteSet(B \cup {s}) /\ Cardinality(B \cup {s}) = Cardinality(B) + 1
            BY <2>3, <5>2, FS_AddElement
          <6> QED BY <2>7, <6>1
        <5> QED BY <5>1, <5>2
      <4>3. d.got = c.got + 1
        BY <2>5, <2>9, <3>1
      <4>4. Cardinality(B \cup {s}) \in Nat
        BY <4>2, FS_CardinalityType
      <4>5. Cardinality(B \cup {s}) <= d.got
        BY <2>3, <2>6, <2>7, <4>2, <4>3, <4>4
      <4> QED BY <4>1, <4>2, <4>5
    <3>2. CASE s \notin Apart(all)
      <4>1. A(i + 1) = B
        BY <2>4, <3>2
      <4>2. d.got >= c.got
        BY <2>6, <2>9
      <4>3. d.got \in Nat
        BY <2>6, <2>9
      <4>4. Cardinality(B) <= d.got
        BY <2>3, <2>6, <2>7, <4>2, <4>3
      <4> QED BY <2>3, <4>1, <4>4
    <3> QED BY <3>1, <3>2
  <2> QED BY <2>1, <2>8, <2>10 DEF d
<1>8. N \in U
  <2> HIDE DEF U
  <2>1. 0..N \subseteq U
    BY <1>2, <1>6, <1>7, NatUpTo
  <2> QED BY <1>2, <2>1
<1> QED BY <1>1, <1>5, <1>8 DEF all

----------------------------------------------------------------------------
(* The invariant. *)

\* A line stands for a signature that was made: the text and the key id in it
\* cannot be altered, the name before it can.
Carries(line, s) == s.id = line.id /\ s.by = line.by /\ s.over = line.over

SignaturesAreMade ==
  IsFiniteSet(signed) /\ \A s \in signed : s = SignatureLine(s.over, s.name, s.by)

\* Every signature line of the note carries a signature that was made.
LinesWereSigned ==
  /\ note \in Seq(ToSet(note))
  /\ \A x \in ToSet(note) : x.kind = "signature" => \E s \in signed : Carries(x, s)

\* What sequencers issued has an origin that is one line.
IssuedAreCarried ==
  \A cp \in issued :
    /\ cp = [origin |-> cp.origin, size |-> cp.size, root |-> cp.root]
    /\ cp.origin \in Origin /\ CarriedOrigin(cp.origin)

\* As long as nobody changes the note, it starts with an issued text.
FreshNote ==
  changes = 0 /\ note # <<>> =>
    \E cp \in issued :
      /\ Len(note) >= 4 /\ note[4] = Blank
      /\ \A i \in 1..3 : note[i] = Text(cp)[i]

\* What the operator signed was issued.
OperatorSigned ==
  \A s \in signed :
    s.by = Operator.key /\ s.name = Operator.name => \E cp \in issued : s.over = Text(cp)

IInv ==
  /\ SignaturesAreMade /\ LinesWereSigned /\ IssuedAreCarried /\ FreshNote
  /\ changes \in Nat

----------------------------------------------------------------------------
(* Lines of a note. *)

\* One line and two more are three.
LEMMA ThreeLines ==
  ASSUME NEW T, NEW o \in Seq(T), Len(o) = 1, NEW a \in T, NEW b \in T
  PROVE  o \o <<a, b>> = <<o[1], a, b>>
<1> DEFINE l == <<a>>
<1>1. l \in Seq(T) /\ <<a, b>> = Append(l, b)
  OBVIOUS
<1>2. o \o l = Append(o, a)
  BY OneMore
<1> HIDE DEF l
<1>3. o \o Append(l, b) = Append(o \o l, b)
  BY <1>1, ConcatAppend
<1>4. o = <<o[1]>> /\ o[1] \in T
  OBVIOUS
<1>5. Append(Append(o, a), b) = <<o[1], a, b>>
  <2> DEFINE m == Append(o, a)
             n == Append(m, b)
             r == <<o[1], a, b>>
  <2>0. \A s \in Seq(T), x \in T :
           /\ Append(s, x) \in Seq(T) /\ Len(Append(s, x)) = Len(s) + 1
           /\ Append(s, x)[Len(s) + 1] = x
           /\ \A i \in 1..Len(s) : Append(s, x)[i] = s[i]
    BY AppendIs
  <2>1. m \in Seq(T) /\ Len(m) = 2 /\ m[1] = o[1] /\ m[2] = a
    <3>1. /\ m \in Seq(T) /\ Len(m) = Len(o) + 1 /\ m[Len(o) + 1] = a
          /\ \A i \in 1..Len(o) : m[i] = o[i]
      BY <2>0
    <3> HIDE DEF m
    <3> QED BY <3>1
  <2> HIDE DEF m
  <2>2. n \in Seq(T) /\ Len(n) = 3 /\ n[1] = o[1] /\ n[2] = a /\ n[3] = b
    <3>1. /\ n \in Seq(T) /\ Len(n) = Len(m) + 1 /\ n[Len(m) + 1] = b
          /\ \A i \in 1..Len(m) : n[i] = m[i]
      BY <2>0, <2>1
    <3> HIDE DEF n
    <3> QED BY <2>1, <3>1
  <2> HIDE DEF n
  <2>3. r \in Seq(T) /\ Len(r) = 3 /\ r[1] = o[1] /\ r[2] = a /\ r[3] = b
    BY <1>4
  <2> HIDE DEF r
  <2>4. \A i \in 1..3 : i = 1 \/ i = 2 \/ i = 3
    OBVIOUS
  <2>5. n = r
    BY <2>2, <2>3, <2>4, SameSequence
  <2> QED BY <2>5 DEF m, n, r
<1> QED BY <1>1, <1>2, <1>3, <1>5
\* The text of an issued checkpoint has three lines, none blank, none a signature.
LEMMA TextIs ==
  ASSUME NEW cp, cp.origin \in Origin, CarriedOrigin(cp.origin)
  PROVE  /\ Text(cp) = <<cp.origin[1], SizeLine(cp.size, TRUE), RootLine(cp.root)>>
         /\ \A i \in 1..3 : Text(cp)[i] # Blank /\ Text(cp)[i].kind # "signature"
<1> DEFINE o == cp.origin
           a == SizeLine(cp.size, TRUE)
           b == RootLine(cp.root)
           T == ToSet(o) \cup {a, b}
<1>1. o \in Seq(ToSet(o)) /\ Len(o) = 1 /\ o[1].kind = "name"
  BY CheckpointAssumption DEF CarriedOrigin
<1>2. a.kind = "size" /\ b.kind = "root" /\ Blank.kind = "blank"
  BY DEF SizeLine, RootLine, Blank
<1>3. Text(cp) = o \o <<a, b>>
  BY DEF Text
<1>4. o \in Seq(T) /\ a \in T /\ b \in T
  <2> HIDE DEF o, a, b
  <2> QED BY <1>1
<1> HIDE DEF o, a, b, T
<1>5. o \o <<a, b>> = <<o[1], a, b>>
  BY <1>1, <1>4, ThreeLines
<1>6. \A x : x = Blank => x.kind = "blank"
  BY <1>2
<1>7. \A i \in 1..3 : i = 1 \/ i = 2 \/ i = 3
  OBVIOUS
<1>8. \A i \in 1..3 : Text(cp)[i] # Blank /\ Text(cp)[i].kind # "signature"
  BY SMTT(30), <1>1, <1>2, <1>3, <1>5, <1>6, <1>7
<1> QED BY <1>3, <1>5, <1>8 DEF o, a, b

\* What sign_line makes is a signature line under a name without control characters.
LEMMA SignedIs ==
  ASSUME NEW text, NEW name, NEW key
  PROVE  LET line == Signed(text, name, key) IN
         /\ line = SignatureLine(text, line.name, key)
         /\ line.kind = "signature" /\ line.by = key /\ line.over = text
         /\ line.id = <<line.name, key>>
         /\ line.name \notin ControlName
         /\ name \notin ControlName => line.name = name
BY CheckpointAssumption DEF Signed, SignatureLine

\* A note as a sequencer sends it: the text, a blank line, one signature line.
LEMMA NewNote ==
  ASSUME NEW cp, cp.origin \in Origin, CarriedOrigin(cp.origin), NEW line
  PROVE  LET n == Note(Text(cp), <<line>>) IN
         /\ n \in Seq(ToSet(n)) /\ Len(n) = 5 /\ n[4] = Blank /\ n[5] = line
         /\ \A i \in 1..3 : n[i] = Text(cp)[i]
<1> DEFINE t == Text(cp)
           a == cp.origin[1]
           b == SizeLine(cp.size, TRUE)
           c == RootLine(cp.root)
           T == {a, b, c, Blank, line}
<1>1. t = <<a, b, c>>
  BY TextIs
<1> HIDE DEF t, a, b, c
<1>2. a \in T /\ b \in T /\ c \in T /\ Blank \in T /\ line \in T
  OBVIOUS
<1> HIDE DEF T
<1>3. t \in Seq(T) /\ Len(t) = 3
  BY <1>1, <1>2
<1>4. \A s \in Seq(T), x \in T :
        /\ Append(s, x) \in Seq(T) /\ Len(Append(s, x)) = Len(s) + 1
        /\ Append(s, x)[Len(s) + 1] = x
        /\ \A i \in 1..Len(s) : Append(s, x)[i] = s[i]
  BY AppendIs
<1> DEFINE m == Append(t, Blank)
           u == Append(m, line)
<1>5. m \in Seq(T) /\ Len(m) = 4 /\ m[4] = Blank /\ \A i \in 1..3 : m[i] = t[i]
  <2>1. /\ m \in Seq(T) /\ Len(m) = Len(t) + 1 /\ m[Len(t) + 1] = Blank
        /\ \A i \in 1..Len(t) : m[i] = t[i]
    BY <1>2, <1>3, <1>4
  <2> HIDE DEF m
  <2> QED BY <1>3, <2>1
<1>6. t \o <<Blank>> = m
  BY <1>2, <1>3, OneMore
<1> HIDE DEF m
<1>7. u \in Seq(T) /\ Len(u) = 5 /\ u[5] = line /\ \A i \in 1..4 : u[i] = m[i]
  <2>1. /\ u \in Seq(T) /\ Len(u) = Len(m) + 1 /\ u[Len(m) + 1] = line
        /\ \A i \in 1..Len(m) : u[i] = m[i]
    BY <1>2, <1>4, <1>5
  <2> HIDE DEF u
  <2> QED BY <1>5, <2>1
<1>8. m \o <<line>> = u
  BY <1>2, <1>5, OneMore
<1> HIDE DEF u
<1>9. Note(Text(cp), <<line>>) = u
  BY <1>6, <1>8 DEF Note, t
<1>10. u \in Seq(ToSet(u))
  BY <1>7, ElementsOf
<1> QED BY <1>5, <1>7, <1>9, <1>10 DEF t

----------------------------------------------------------------------------
(* Splitting a note. *)

\* The lines a verifier takes for the text and for signatures are lines of the note.
LEMMA PartsOfNote ==
  ASSUME NEW T, NEW n \in Seq(T), SplitAt(n) # 0
  PROVE  /\ SplitAt(n) \in 2..Len(n) /\ n[SplitAt(n)] = Blank
         /\ \A i \in 2..(SplitAt(n) - 1) : n[i] # Blank
         /\ TextOf(n) \in Seq(T) /\ LinesOf(n) \in Seq(T)
         /\ Len(TextOf(n)) = SplitAt(n) - 1
         /\ \A i \in 1..(SplitAt(n) - 1) : TextOf(n)[i] = n[i]
         /\ Len(LinesOf(n)) = Len(n) - SplitAt(n)
         /\ \A i \in 1..(Len(n) - SplitAt(n)) : LinesOf(n)[i] = n[SplitAt(n) + i]
         /\ ToSet(LinesOf(n)) \subseteq ToSet(n)
<1> DEFINE blanks == {i \in 2..Len(n) : n[i] = Blank}
           k == SplitAt(n)
<1>1. Len(n) \in Nat /\ DOMAIN n = 1..Len(n)
  OBVIOUS
<1>2. blanks # {} /\ blanks \subseteq Nat
  BY <1>1 DEF SplitAt
<1>3. \E i \in blanks : \A j \in blanks : i <= j
  <2> HIDE DEF blanks
  <2> QED BY <1>2, NatLeast
<1>4. k \in blanks /\ \A j \in blanks : k <= j
  <2>1. k = CHOOSE i \in blanks : \A j \in blanks : i <= j
    BY <1>2 DEF SplitAt
  <2> HIDE DEF blanks, k
  <2> QED BY <1>3, <2>1
<1> HIDE DEF k
<1>5. k \in 2..Len(n) /\ n[k] = Blank /\ \A i \in 2..(k - 1) : n[i] # Blank
  BY <1>1, <1>4
<1>6. /\ SubSeq(n, 1, k - 1) \in Seq(T) /\ Len(SubSeq(n, 1, k - 1)) = k - 1
      /\ \A i \in 1..(k - 1) : SubSeq(n, 1, k - 1)[i] = n[i]
  BY <1>1, <1>5
<1> DEFINE l == SubSeq(n, k + 1, Len(n))
<1>7. /\ l \in Seq(T) /\ Len(l) = Len(n) - k
      /\ \A i \in 1..(Len(n) - k) : l[i] = n[k + i]
  <2>1. /\ l \in Seq(T) /\ Len(l) = Len(n) - k
        /\ \A i \in 1..(Len(n) - k) : l[i] = n[(k + 1) + i - 1]
    BY <1>1, <1>5
  <2>2. \A i \in 1..(Len(n) - k) : (k + 1) + i - 1 = k + i
    BY <1>1, <1>5
  <2> HIDE DEF l
  <2> QED BY <2>1, <2>2
<1> HIDE DEF l
<1>8. ToSet(l) \subseteq ToSet(n)
  <2>1. ASSUME NEW x \in ToSet(l) PROVE x \in ToSet(n)
    <3>1. PICK i \in 1..Len(l) : l[i] = x
      BY <1>7, ElementsOf
    <3>2. k + i \in DOMAIN n /\ n[k + i] = x
      BY <1>1, <1>5, <1>7, <3>1
    <3> QED BY <3>2 DEF ToSet
  <2> QED BY <2>1
<1> QED BY <1>5, <1>6, <1>7, <1>8 DEF TextOf, LinesOf, k, l

\* Who signed a note, for a verifier.
LEMMA SignersOfNote ==
  ASSUME NEW n, n \in Seq(ToSet(n)), SplitAt(n) # 0, NEW keys, IsFiniteSet(keys)
  PROVE  LET signers == ValidSigners(TextOf(n), LinesOf(n), keys) IN
         /\ signers \in Seq(keys) /\ IsInjective(signers)
         /\ ToSet(signers) = Signers(TextOf(n), LinesOf(n), keys)
<1>1. LinesOf(n) \in Seq(ToSet(n))
  BY PartsOfNote
<1> QED BY <1>1, ValidSignersAre
----------------------------------------------------------------------------
(* The invariant is inductive. *)

\* Nothing is signed, issued or on its way at first.
LEMMA InitHolds ==
  ASSUME Init
  PROVE  IInv /\ OperatorSigned /\ TypeOK
<1>1. note \in Seq(ToSet(note)) /\ ToSet(note) = {}
  BY DEF Init, ToSet
<1> QED
  BY <1>1, CheckpointAssumption, FS_EmptySet
  DEF Init, IInv, SignaturesAreMade, LinesWereSigned, IssuedAreCarried, FreshNote,
      OperatorSigned, TypeOK

\* A new signature is one that was made, and the bound on signatures keeps.
LEMMA OneSignatureMore ==
  ASSUME IInv, TypeOK, Cardinality(signed) < MaxSignatures, NEW text, NEW name, NEW key,
         signed' = signed \cup {Signed(text, name, key)}
  PROVE  /\ SignaturesAreMade'
         /\ \A s \in signed' : s.kind = "signature" /\ s.name \notin ControlName
         /\ Cardinality(signed') <= MaxSignatures
<1> DEFINE line == Signed(text, name, key)
<1>1. IsFiniteSet(signed')
  BY FS_AddElement DEF IInv, SignaturesAreMade
<1>2. Cardinality(signed') <= MaxSignatures
  <2>1. Cardinality(signed') = IF line \in signed THEN Cardinality(signed)
                                                  ELSE Cardinality(signed) + 1
    BY FS_AddElement DEF IInv, SignaturesAreMade
  <2>2. Cardinality(signed) \in Nat
    BY FS_CardinalityType DEF IInv, SignaturesAreMade
  <2> QED BY <2>1, <2>2, CheckpointAssumption
<1>3. line = SignatureLine(line.over, line.name, line.by) /\ line.kind = "signature"
      /\ line.name \notin ControlName
  BY SignedIs
<1> QED BY <1>1, <1>2, <1>3 DEF IInv, SignaturesAreMade, TypeOK

\* A sequencer's checkpoint.
LEMMA IssueHolds ==
  ASSUME IInv, TypeOK, NEW origin \in Origin, NEW name \in Name, NEW tree \in Tree,
         IssueCheckpoint(origin, name, tree)
  PROVE  IInv' /\ TypeOK'
<1> DEFINE cp == [origin |-> origin, size |-> tree.size, root |-> tree.root]
           line == Signed(Text(cp), name, Operator.key)
<1>1. /\ CarriedOrigin(origin) /\ Cardinality(signed) < MaxSignatures
      /\ note' = Note(Text(cp), <<line>>)
      /\ issued' = issued \cup {cp} /\ signed' = signed \cup {line}
      /\ changes' = changes
  BY DEF IssueCheckpoint
<1>2. cp.origin = origin /\ cp = [origin |-> cp.origin, size |-> cp.size, root |-> cp.root]
  OBVIOUS
<1>3. line.kind = "signature" /\ Carries(line, line)
  BY SignedIs DEF Carries
<1>4. /\ SignaturesAreMade'
      /\ \A s \in signed' : s.kind = "signature" /\ s.name \notin ControlName
      /\ Cardinality(signed') <= MaxSignatures
  BY <1>1, OneSignatureMore
<1> HIDE DEF cp, line
<1>5. /\ note' \in Seq(ToSet(note')) /\ Len(note') = 5 /\ note'[4] = Blank /\ note'[5] = line
      /\ \A i \in 1..3 : note'[i] = Text(cp)[i]
  BY <1>1, <1>2, NewNote
<1>6. LinesWereSigned'
  <2>1. ASSUME NEW x \in ToSet(note'), x.kind = "signature" PROVE x = line
    <3>1. PICK i \in 1..5 : note'[i] = x
      BY <1>5 DEF ToSet
    <3>2. CASE i \in 1..3
      BY <1>1, <1>2, <1>5, <2>1, <3>1, <3>2, TextIs
    <3>3. CASE i = 4
      BY <1>5, <2>1, <3>1, <3>3 DEF Blank
    <3>4. CASE i = 5
      BY <1>5, <3>1, <3>4
    <3> QED BY <3>2, <3>3, <3>4
  <2> QED BY <1>1, <1>3, <1>5, <2>1 DEF LinesWereSigned
<1>7. IssuedAreCarried'
  BY <1>1, <1>2 DEF IInv, IssuedAreCarried
<1>8. FreshNote'
  BY <1>1, <1>5 DEF FreshNote
<1>9. TypeOK'
  BY <1>1, <1>2, <1>4 DEF TypeOK
<1> QED BY <1>1, <1>4, <1>6, <1>7, <1>8, <1>9 DEF IInv

\* A witness's signature line.
LEMMA CosignHolds ==
  ASSUME IInv, TypeOK, NEW k \in Witness, Cosign(k)
  PROVE  IInv' /\ TypeOK'
<1> DEFINE line == Signed(TextOf(note), k.name, k.key)
<1>1. /\ Cardinality(signed) < MaxSignatures
      /\ note' = Append(note, line) /\ signed' = signed \cup {line}
      /\ issued' = issued /\ changes' = changes /\ SplitAt(note) # 0
  BY DEF Cosign
<1>2. line.kind = "signature" /\ Carries(line, line)
  BY SignedIs DEF Carries
<1>3. /\ SignaturesAreMade'
      /\ \A s \in signed' : s.kind = "signature" /\ s.name \notin ControlName
      /\ Cardinality(signed') <= MaxSignatures
  BY <1>1, OneSignatureMore
<1> HIDE DEF line
<1> DEFINE T == ToSet(note) \cup {line}
<1>4. note \in Seq(T) /\ line \in T
  <2>1. note \in Seq(ToSet(note))
    BY DEF IInv, LinesWereSigned
  <2> HIDE DEF ToSet
  <2> QED BY <2>1
<1> HIDE DEF T
<1>5. /\ note' \in Seq(T) /\ Len(note') = Len(note) + 1 /\ Len(note) \in Nat
      /\ \A i \in 1..Len(note) : note'[i] = note[i]
  <2>1. /\ Append(note, line) \in Seq(T) /\ Len(Append(note, line)) = Len(note) + 1
        /\ \A i \in 1..Len(note) : Append(note, line)[i] = note[i]
    BY <1>4, AppendIs
  <2> QED BY <1>1, <1>4, <2>1
<1>6. LinesWereSigned'
  <2>1. note' \in Seq(ToSet(note')) /\ ToSet(note') \subseteq T
    BY <1>5, ElementsOf
  <2>2. \A x \in T : x.kind = "signature" => \E s \in signed' : Carries(x, s)
    BY <1>1, <1>2 DEF T, IInv, LinesWereSigned
  <2> QED BY <2>1, <2>2 DEF LinesWereSigned
<1>7. IssuedAreCarried'
  BY <1>1 DEF IInv, IssuedAreCarried
<1>8. FreshNote'
  <2>1. SUFFICES ASSUME changes = 0 PROVE FreshNote'
    BY <1>1 DEF FreshNote
  <2>2. note # <<>>
    <3>1. note = <<>> => {i \in 2..Len(note) : note[i] = Blank} = {}
      OBVIOUS
    <3> QED BY <1>1, <3>1 DEF SplitAt
  <2>3. PICK cp \in issued : /\ Len(note) >= 4 /\ note[4] = Blank
                             /\ \A i \in 1..3 : note[i] = Text(cp)[i]
    BY <2>1, <2>2 DEF IInv, FreshNote
  <2>4. /\ Len(note') >= 4 /\ note'[4] = Blank
        /\ \A i \in 1..3 : note'[i] = Text(cp)[i]
    BY <1>5, <2>3
  <2> QED BY <1>1, <2>4 DEF FreshNote
<1>9. TypeOK'
  BY <1>1, <1>3 DEF TypeOK
<1> QED BY <1>1, <1>3, <1>6, <1>7, <1>8, <1>9 DEF IInv

\* A signature line that gets into a note stands for a signature that was made.
LEMMA StrayWereSigned ==
  ASSUME SignaturesAreMade, NEW x \in Stray, x.kind = "signature"
  PROVE  \E s \in signed : Carries(x, s)
<1>1. CASE x \in signed
  BY <1>1 DEF Carries
<1>2. CASE x \in {[s EXCEPT !.name = k.name] : s \in signed, k \in Independent(Witness)}
  <2>1. PICK s \in signed, k \in Independent(Witness) : x = [s EXCEPT !.name = k.name]
    BY <1>2
  <2>2. s = SignatureLine(s.over, s.name, s.by)
    BY DEF SignaturesAreMade
  <2>3. x.id = s.id /\ x.by = s.by /\ x.over = s.over
    BY <2>1, <2>2 DEF SignatureLine
  <2> QED BY <2>3 DEF Carries
<1>3. CASE x = Blank \/ (\E t \in Tree, c \in BOOLEAN : x = SizeLine(t.size, c))
                     \/ (\E t \in Tree : x = RootLine(t.root))
  BY <1>3 DEF Blank, SizeLine, RootLine
<1> QED BY <1>1, <1>2, <1>3 DEF Stray

\* A change on the way.
LEMMA ChangeHolds ==
  ASSUME IInv, TypeOK, Change
  PROVE  IInv' /\ TypeOK'
<1> DEFINE T == ToSet(note) \cup Stray
<1>1. changes' = changes + 1 /\ changes < MaxChanges /\ issued' = issued /\ signed' = signed
  BY DEF Change
<1>2. note \in Seq(T) /\ Blank \in T
  <2>1. note \in Seq(ToSet(note)) /\ Blank \in Stray
    BY DEF IInv, LinesWereSigned, Stray
  <2> HIDE DEF ToSet, Stray, Blank
  <2> QED BY <2>1
<1>3. \A x \in Stray : x \in T
  OBVIOUS
<1> HIDE DEF T
<1>4. \A x \in T :
        /\ \A i \in DOMAIN note : RemoveAt(note, i) \in Seq(T)
        /\ \A i \in 1..(Len(note) + 1) : InsertAt(note, i, x) \in Seq(T)
        /\ \A i \in DOMAIN note : ReplaceAt(note, i, x) \in Seq(T)
        /\ \A i \in 1..(Len(note) - 1) :
             [note EXCEPT ![i] = note[i + 1], ![i + 1] = note[i]] \in Seq(T)
  BY <1>2, ChangedPlace
<1>5. note' \in Seq(T)
  BY <1>2, <1>3, <1>4 DEF Change
<1>6. LinesWereSigned'
  <2>1. note' \in Seq(ToSet(note')) /\ ToSet(note') \subseteq T
    BY <1>5, ElementsOf
  <2>2. \A x \in T : x.kind = "signature" => \E s \in signed : Carries(x, s)
    BY StrayWereSigned DEF T, IInv, LinesWereSigned
  <2> QED BY <1>1, <2>1, <2>2 DEF LinesWereSigned
<1>7. FreshNote'
  BY <1>1 DEF IInv, FreshNote
<1>8. SignaturesAreMade' /\ IssuedAreCarried' /\ changes' \in Nat
  BY <1>1 DEF IInv, SignaturesAreMade, IssuedAreCarried
<1>9. TypeOK'
  BY <1>1, CheckpointAssumption DEF TypeOK, IInv
<1> QED BY <1>6, <1>7, <1>8, <1>9 DEF IInv

\* Every step keeps the invariant.
LEMMA NextHolds ==
  ASSUME IInv, TypeOK, [Next]_vars
  PROVE  IInv' /\ TypeOK'
<1>1. CASE \E origin \in Origin, name \in Name, tree \in Tree :
             IssueCheckpoint(origin, name, tree)
  BY <1>1, IssueHolds
<1>2. CASE \E k \in Witness : Cosign(k)
  BY <1>2, CosignHolds
<1>3. CASE Change
  BY <1>3, ChangeHolds
<1>4. CASE UNCHANGED vars
  BY <1>4 DEF vars, IInv, SignaturesAreMade, LinesWereSigned, IssuedAreCarried, FreshNote, TypeOK
<1> QED BY <1>1, <1>2, <1>3, <1>4 DEF Next

\* What the operator signed stays among what was issued, step by step.
LEMMA OperatorSignedHolds ==
  ASSUME OperatorIsAlone, OperatorSigned, [Next]_vars
  PROVE  OperatorSigned'
<1>1. ASSUME NEW origin \in Origin, NEW name \in Name, NEW tree \in Tree,
             IssueCheckpoint(origin, name, tree)
      PROVE  OperatorSigned'
  <2> DEFINE cp == [origin |-> origin, size |-> tree.size, root |-> tree.root]
             line == Signed(Text(cp), name, Operator.key)
  <2>1. issued' = issued \cup {cp} /\ signed' = signed \cup {line}
    BY <1>1 DEF IssueCheckpoint
  <2>2. line.over = Text(cp)
    BY SignedIs
  <2> HIDE DEF cp, line
  <2> QED BY <2>1, <2>2 DEF OperatorSigned
<1>2. ASSUME NEW k \in Witness, Cosign(k) PROVE OperatorSigned'
  <2> DEFINE line == Signed(TextOf(note), k.name, k.key)
  <2>1. issued' = issued /\ signed' = signed \cup {line}
    BY <1>2 DEF Cosign
  <2>2. line.by = k.key /\ line.name = Signed(<<>>, k.name, k.key).name
    BY DEF Signed, SignatureLine
  <2>3. ~(line.by = Operator.key /\ line.name = Operator.name)
    BY <2>2 DEF OperatorIsAlone
  <2> HIDE DEF line
  <2> QED BY <2>1, <2>3 DEF OperatorSigned
<1>3. CASE Change
  BY <1>3 DEF Change, OperatorSigned
<1>4. CASE UNCHANGED vars
  BY <1>4 DEF vars, OperatorSigned
<1> QED BY <1>1, <1>2, <1>3, <1>4 DEF Next
----------------------------------------------------------------------------
(* Theorems. *)

\* A model of checkpoints is what it says it is: signature lines under names without
\* control characters, checkpoints of origins that sequencers are opened with, and
\* the bounds on signatures and changes.
THEOREM TypeCorrect == Spec => []TypeOK
<1>1. Init => IInv /\ TypeOK
  BY InitHolds
<1>2. IInv /\ TypeOK /\ [Next]_vars => IInv' /\ TypeOK'
  BY NextHolds
<1> QED BY <1>1, <1>2, PTL DEF Spec

\* Behind every signature a verifier finds valid in a note there is one that was made.
LEMMA ValidWasSigned ==
  ASSUME IInv, SplitAt(note) # 0, NEW k,
         \E i \in DOMAIN LinesOf(note) : Valid(LinesOf(note)[i], TextOf(note), k)
  PROVE  SignatureLine(TextOf(note), k.name, k.key) \in signed
<1>1. note \in Seq(ToSet(note))
  BY DEF IInv, LinesWereSigned
<1>2. PICK i \in DOMAIN LinesOf(note) : Valid(LinesOf(note)[i], TextOf(note), k)
  OBVIOUS
<1> DEFINE x == LinesOf(note)[i]
<1>3. x \in ToSet(note)
  <2>1. x \in ToSet(LinesOf(note))
    BY DEF ToSet
  <2> QED BY <1>1, <2>1, PartsOfNote
<1>4. PICK s \in signed : s.id = x.id /\ s.by = x.by /\ s.over = x.over
  BY <1>2, <1>3 DEF IInv, LinesWereSigned, Carries, Valid
<1>5. s.id = <<k.name, k.key>> /\ s.by = k.key /\ s.over = TextOf(note)
  BY <1>2, <1>4 DEF Valid
<1>6. s = SignatureLine(s.over, s.name, s.by)
  BY DEF IInv, SignaturesAreMade
<1>7. s.id = <<s.name, s.by>>
  BY <1>6 DEF SignatureLine
<1>8. s.name = k.name
  BY <1>5, <1>7
<1> QED BY <1>5, <1>6, <1>8

\* In every state that satisfies the invariant, a quorum is real.
LEMMA QuorumFollows ==
  ASSUME IInv
  PROVE  QuorumIsReal
<1>1. SUFFICES ASSUME NEW witnesses \in Policy, NEW need \in 0..(Cardinality(signed) + 1),
                      VerifyNote(note, witnesses, need)
               PROVE  \E lines \in SUBSET {s \in signed : s.over = TextOf(note)} :
                        /\ Cardinality(lines) = need /\ Distinct(lines)
                        /\ \A s \in lines : s.by # Operator.key /\ s.name # Operator.name
                             /\ [name |-> s.name, key |-> s.by] \in witnesses
  BY DEF QuorumIsReal
<1> DEFINE text == TextOf(note)
           keys == Independent(witnesses)
           signers == ValidSigners(text, LinesOf(note), keys)
           line(k) == SignatureLine(text, k.name, k.key)
<1>2. SplitAt(note) # 0 /\ Got(signers) >= need /\ note \in Seq(ToSet(note))
  BY <1>1 DEF VerifyNote, IInv, LinesWereSigned
<1>3. IsFiniteSet(keys) /\ keys \subseteq witnesses
  BY CheckpointAssumption, FS_Subset DEF Independent
<1>4. signers \in Seq(keys) /\ ToSet(signers) = Signers(text, LinesOf(note), keys)
  BY <1>2, <1>3, SignersOfNote
<1> HIDE DEF signers
<1>5. PICK T \in SUBSET ToSet(signers) :
        IsFiniteSet(T) /\ Cardinality(T) = Got(signers) /\ TellApart(T)
  BY <1>4, GotIsReal
<1>6. PICK W \in SUBSET T : IsFiniteSet(W) /\ Cardinality(W) = need
  <2>1. need \in Nat /\ Got(signers) \in Nat
    BY <1>4, GotIsReal, FS_CardinalityType DEF IInv, SignaturesAreMade
  <2>2. need \in 0..Cardinality(T)
    BY <1>2, <1>5, <2>1
  <2> QED BY <1>5, <2>2, SubsetOfSize
<1>7. \A k \in W : /\ k \in keys /\ line(k) \in signed
                   /\ line(k).name = k.name /\ line(k).by = k.key /\ line(k).over = text
                   /\ [name |-> k.name, key |-> k.key] = k
  <2>1. ASSUME NEW k \in W PROVE k \in keys /\ line(k) \in signed
    <3>1. k \in Signers(text, LinesOf(note), keys)
      BY <1>4, <1>5
    <3> QED BY <1>2, <3>1, ValidWasSigned DEF Signers
  <2>2. \A k \in W : [name |-> k.name, key |-> k.key] = k
    BY <1>3, <2>1, CheckpointAssumption
  <2> QED BY <2>1, <2>2 DEF SignatureLine
<1> DEFINE lines == {line(k) : k \in W}
<1>8. Cardinality(lines) = need
  <2> DEFINE f == [k \in W |-> line(k)]
  <2>1. f \in Bijection(W, lines)
    <3>1. \A j, k \in W : line(j) = line(k) => j = k
      BY <1>5, <1>6, <1>7 DEF TellApart
    <3> HIDE DEF line
    <3> QED BY <3>1 DEF Bijection, Injection, Surjection, IsInjective
  <2> HIDE DEF f, lines
  <2>2. ExistsBijection(W, lines)
    BY <2>1 DEF ExistsBijection
  <2> QED BY <1>6, <2>2, FS_Bijection
<1>9. Distinct(lines)
  <2>1. \A j, k \in W : line(j) # line(k) => j # k
    OBVIOUS
  <2>2. \A j, k \in W : j # k => line(j).name # line(k).name /\ line(j).by # line(k).by
    BY <1>5, <1>6, <1>7 DEF TellApart
  <2> HIDE DEF line
  <2> QED BY <2>1, <2>2 DEF Distinct
<1>10. \A s \in lines : /\ s \in signed /\ s.over = text
                        /\ s.by # Operator.key /\ s.name # Operator.name
                        /\ [name |-> s.name, key |-> s.by] \in witnesses
  <2>1. \A k \in W : /\ line(k).by # Operator.key /\ line(k).name # Operator.name
                     /\ [name |-> line(k).name, key |-> line(k).by] \in witnesses
    BY <1>3, <1>7 DEF Independent
  <2> HIDE DEF line
  <2> QED BY <1>7, <2>1
<1> HIDE DEF lines
<1> QED BY <1>8, <1>9, <1>10

\* For every set of names, keys, witnesses and trees, and whatever happens to a note
\* on its way: as many trusted witnesses as a verifier demands signed the text it
\* accepts, under names and keys that all differ, none of them the operator's.
THEOREM QuorumNeverInflated == Spec => []QuorumIsReal
<1>1. Init => IInv /\ TypeOK
  BY InitHolds
<1>2. IInv /\ TypeOK /\ [Next]_vars => IInv' /\ TypeOK'
  BY NextHolds
<1>3. IInv => QuorumIsReal
  BY QuorumFollows
<1> QED BY <1>1, <1>2, <1>3, PTL DEF Spec

\* What a verifier reads in the text of a checkpoint is that checkpoint.
LEMMA ParseText ==
  ASSUME NEW cp \in issued, IssuedAreCarried
  PROVE  Parse(Text(cp)) = cp /\ Parse(Text(cp)) # Malformed
<1>1. /\ cp = [origin |-> cp.origin, size |-> cp.size, root |-> cp.root]
      /\ cp.origin \in Origin /\ CarriedOrigin(cp.origin)
  BY DEF IssuedAreCarried
<1> DEFINE o == cp.origin
           a == SizeLine(cp.size, TRUE)
           b == RootLine(cp.root)
           t == Text(cp)
<1>2. t = <<o[1], a, b>> /\ t[1] # Blank
  <2>1. \A i \in 1..3 : t[i] # Blank
    BY <1>1, TextIs
  <2>2. t = <<o[1], a, b>>
    BY <1>1, TextIs
  <2> HIDE DEF t
  <2> QED BY <2>1, <2>2
<1>3. a.kind = "size" /\ a.canonical /\ a.is = cp.size /\ b.kind = "root" /\ b.is = cp.root
  BY DEF SizeLine, RootLine
<1>4. o = <<o[1]>> /\ o # <<>>
  BY <1>1, CheckpointAssumption DEF CarriedOrigin
<1> HIDE DEF t, a, b, o
<1>5. Len(t) = 3 /\ t[1] = o[1] /\ t[2] = a /\ t[3] = b
  BY <1>2
<1>6. Parse(t) = [origin |-> <<o[1]>>, size |-> cp.size, root |-> cp.root]
  BY <1>2, <1>3, <1>5 DEF Parse
<1>7. cp = [origin |-> o, size |-> cp.size, root |-> cp.root]
  BY <1>1 DEF o
<1>8. Parse(t) = cp
  BY <1>4, <1>6, <1>7
<1>9. cp # Malformed
  BY <1>4, <1>7 DEF Malformed, o
<1> QED BY <1>8, <1>9 DEF t

\* In every state of the invariants, what a verifier accepts was issued.
LEMMA AcceptedFollows ==
  ASSUME IInv, OperatorSigned
  PROVE  AcceptedWasIssued
<1>1. SUFFICES ASSUME NEW origin \in Origin, VerifyNoteForOrigin(note, origin, {}, 0)
               PROVE  [Parse(TextOf(note)) EXCEPT !.origin = origin] \in issued
  BY DEF AcceptedWasIssued
<1>2. /\ SplitAt(note) # 0 /\ note \in Seq(ToSet(note))
      /\ Operator \in ToSet(ValidSigners(TextOf(note), LinesOf(note), {Operator}))
      /\ Parse(TextOf(note)).origin = origin
  BY <1>1 DEF VerifyNoteForOrigin, VerifyNote, IInv, LinesWereSigned
<1>3. Operator \in Signers(TextOf(note), LinesOf(note), {Operator})
  <2>1. IsFiniteSet({Operator})
    BY FS_Singleton
  <2> QED BY <1>2, <2>1, SignersOfNote
<1>4. SignatureLine(TextOf(note), Operator.name, Operator.key) \in signed
  BY <1>2, <1>3, ValidWasSigned DEF Signers
<1>5. PICK cp \in issued : TextOf(note) = Text(cp)
  BY <1>4 DEF OperatorSigned, SignatureLine
<1>6. Parse(TextOf(note)) = cp /\ cp = [origin |-> cp.origin, size |-> cp.size, root |-> cp.root]
  BY <1>5, ParseText DEF IInv, IssuedAreCarried
<1>7. [cp EXCEPT !.origin = origin] = cp
  BY <1>2, <1>6
<1> QED BY <1>6, <1>7

\* As long as only the sequencers sign as the operator, the checkpoint a verifier
\* takes from a note is one a sequencer issued for that very log.
THEOREM NoForeignCheckpoint ==
  ASSUME OperatorIsAlone
  PROVE  Spec => []AcceptedWasIssued
<1>1. Init => IInv /\ OperatorSigned /\ TypeOK
  BY InitHolds
<1>2. IInv /\ OperatorSigned /\ TypeOK /\ [Next]_vars => IInv' /\ OperatorSigned' /\ TypeOK'
  BY NextHolds, OperatorSignedHolds
<1>3. IInv /\ OperatorSigned => AcceptedWasIssued
  BY AcceptedFollows
<1> QED BY <1>1, <1>2, <1>3, PTL DEF Spec

\* In every state of the invariant, those that signed are counted at most once
\* each, those that are apart are counted, and an unchanged note is accepted.
LEMMA ExactFollows ==
  ASSUME IInv
  PROVE  QuorumIsExact
<1>1. SUFFICES ASSUME SplitAt(note) # 0, NEW witnesses \in Policy
      PROVE  LET signers == Counted(witnesses)
                 sure == Cardinality(Apart(signers))
                 got == Got(ValidSigners(TextOf(note), LinesOf(note), Independent(witnesses)))
             IN  /\ sure <= got /\ got <= Cardinality(signers)
                 /\ changes = 0
                    /\ Signed(TextOf(note), Operator.name, Operator.key) \in ToSet(note) =>
                      VerifyNote(note, witnesses, sure)
  BY DEF QuorumIsExact
<1> DEFINE text == TextOf(note)
           keys == Independent(witnesses)
           signers == ValidSigners(text, LinesOf(note), keys)
           line == Signed(text, Operator.name, Operator.key)
           sure == Cardinality(Apart(Counted(witnesses)))
<1>2. note \in Seq(ToSet(note))
  BY DEF IInv, LinesWereSigned
<1>3. sure <= Got(signers) /\ Got(signers) <= Cardinality(Counted(witnesses))
  <2>1. IsFiniteSet(keys)
    BY CheckpointAssumption, FS_Subset DEF Independent
  <2>2. /\ signers \in Seq(keys) /\ IsInjective(signers)
        /\ ToSet(signers) = Signers(text, LinesOf(note), keys)
    BY <1>1, <1>2, <2>1, SignersOfNote
  <2>3. Signers(text, LinesOf(note), keys) = Counted(witnesses)
    BY DEF Signers, Counted
  <2>4. IsFiniteSet(Counted(witnesses))
    BY CheckpointAssumption, FS_Subset DEF Counted, Independent
  <2> HIDE DEF signers
  <2>5. sure <= Got(signers)
    BY <2>2, <2>3, ApartCount
  <2>6. Got(signers) <= Cardinality(Counted(witnesses))
    <3>1. PICK T \in SUBSET ToSet(signers) : IsFiniteSet(T) /\ Cardinality(T) = Got(signers)
      BY <2>2, GotIsReal
    <3> QED BY <2>2, <2>3, <2>4, <3>1, FS_Subset
  <2> QED BY <2>5, <2>6
<1>4. ASSUME changes = 0, line \in ToSet(note)
      PROVE  VerifyNote(note, witnesses, sure)
  <2>1. note # <<>>
    <3>1. note = <<>> => {i \in 2..Len(note) : note[i] = Blank} = {}
      OBVIOUS
    <3> QED BY <1>1, <3>1 DEF SplitAt
  <2>2. PICK cp \in issued : /\ Len(note) >= 4 /\ note[4] = Blank
                             /\ \A i \in 1..3 : note[i] = Text(cp)[i]
    BY <1>4, <2>1 DEF IInv, FreshNote
  <2>3. cp.origin \in Origin /\ CarriedOrigin(cp.origin)
    BY DEF IInv, IssuedAreCarried
  <2>4. \A i \in 1..3 : note[i] # Blank /\ note[i].kind # "signature"
    BY <2>2, <2>3, TextIs
  <2>5. /\ SplitAt(note) \in 2..Len(note) /\ Len(note) \in Nat /\ note[SplitAt(note)] = Blank
        /\ \A i \in 2..(SplitAt(note) - 1) : note[i] # Blank
        /\ text \in Seq(ToSet(note)) /\ Len(text) = SplitAt(note) - 1
        /\ \A i \in 1..(SplitAt(note) - 1) : text[i] = note[i]
    <3>1. /\ SplitAt(note) \in 2..Len(note) /\ note[SplitAt(note)] = Blank
          /\ \A i \in 2..(SplitAt(note) - 1) : note[i] # Blank
      BY <1>1, <1>2, PartsOfNote
    <3>2. /\ text \in Seq(ToSet(note)) /\ Len(text) = SplitAt(note) - 1
          /\ \A i \in 1..(SplitAt(note) - 1) : text[i] = note[i]
      BY <1>1, <1>2, PartsOfNote
    <3>3. Len(note) \in Nat
      BY <1>2
    <3> QED BY <3>1, <3>2, <3>3
  <2>6. SplitAt(note) = 4
    <3>1. ~(SplitAt(note) \in 1..3)
      BY <2>4, <2>5
    <3>2. 4 \notin 2..(SplitAt(note) - 1)
      BY <2>2, <2>5
    <3> QED BY <2>2, <2>5, <3>1, <3>2
  <2>7. text = Text(cp)
    <3>1. \A i \in 1..3 : text[i] = Text(cp)[i]
      BY <2>2, <2>5, <2>6
    <3>2. Text(cp) = <<cp.origin[1], SizeLine(cp.size, TRUE), RootLine(cp.root)>>
      BY <2>3, TextIs
    <3> DEFINE x == cp.origin[1]
               a == SizeLine(cp.size, TRUE)
               b == RootLine(cp.root)
    <3>3. Text(cp) = <<x, a, b>>
      BY <3>2
    <3> HIDE DEF text, x, a, b
    <3>4. text[1] = x /\ text[2] = a /\ text[3] = b
      BY <3>1, <3>3
    <3>5. text = <<text[1], text[2], text[3]>>
      BY <2>5, <2>6
    <3> QED BY <3>3, <3>4, <3>5
  <2>8. Parse(text) # Malformed
    BY <2>7, ParseText DEF IInv
  <2>9. Operator \in ToSet(ValidSigners(text, LinesOf(note), {Operator}))
    <3>1. line = SignatureLine(text, Operator.name, Operator.key) /\ line.kind = "signature"
      BY CheckpointAssumption, SignedIs
    <3>2. Valid(line, text, Operator)
      BY <3>1 DEF Valid, SignatureLine
    <3>3. PICK i \in 1..Len(note) : note[i] = line
      BY <1>2, <1>4 DEF ToSet
    <3>4. i # 4
      BY <2>2, <3>1, <3>3 DEF Blank
    <3>5. i \notin 1..3
      BY <2>4, <3>1, <3>3
    <3> HIDE DEF line
    <3>6. i - 4 \in 1..(Len(note) - 4) /\ 4 + (i - 4) = i
      BY <2>5, <3>3, <3>4, <3>5
    <3>7. /\ LinesOf(note) \in Seq(ToSet(note)) /\ Len(LinesOf(note)) = Len(note) - 4
          /\ LinesOf(note)[i - 4] = note[i]
      <4>1. /\ LinesOf(note) \in Seq(ToSet(note))
            /\ Len(LinesOf(note)) = Len(note) - SplitAt(note)
            /\ \A j \in 1..(Len(note) - SplitAt(note)) :
                 LinesOf(note)[j] = note[SplitAt(note) + j]
        BY <1>1, <1>2, PartsOfNote
      <4> QED BY <2>6, <3>6, <4>1
    <3>8. i - 4 \in DOMAIN LinesOf(note) /\ Valid(LinesOf(note)[i - 4], text, Operator)
      BY <3>2, <3>3, <3>6, <3>7
    <3>9. Operator \in Signers(text, LinesOf(note), {Operator})
      BY <3>8, CheckpointAssumption DEF Signers
    <3>10. IsFiniteSet({Operator})
      BY FS_Singleton
    <3>11. ToSet(ValidSigners(text, LinesOf(note), {Operator}))
             = Signers(text, LinesOf(note), {Operator})
      BY <1>1, <1>2, <3>10, SignersOfNote
    <3> QED BY <3>9, <3>11
  <2>10. Got(signers) >= sure
    <3>1. Got(signers) \in Nat /\ sure \in Nat
      <4>1. IsFiniteSet(keys) /\ IsFiniteSet(Apart(Counted(witnesses)))
        BY CheckpointAssumption, FS_Subset DEF Apart, Counted, Independent
      <4>2. signers \in Seq(keys)
        BY <1>1, <1>2, <4>1, SignersOfNote
      <4> HIDE DEF signers
      <4> QED BY <4>1, <4>2, GotIsReal, FS_CardinalityType
    <3> HIDE DEF signers, sure
    <3> QED BY <1>3, <3>1
  <2> HIDE DEF sure
  <2> QED BY <1>1, <2>8, <2>9, <2>10 DEF VerifyNote
<1> QED BY <1>3, <1>4

\* Whatever the order and the number of the lines, and whatever names and keys the
\* trusted witnesses share, a verifier counts nobody twice and leaves out nobody who
\* shares neither with another signer; a note that nobody changed is accepted with
\* all of these.
THEOREM QuorumCountsAll == Spec => []QuorumIsExact
<1>1. Init => IInv /\ TypeOK
  BY InitHolds
<1>2. IInv /\ TypeOK /\ [Next]_vars => IInv' /\ TypeOK'
  BY NextHolds
<1>3. IInv => QuorumIsExact
  BY ExactFollows
<1> QED BY <1>1, <1>2, <1>3, PTL DEF Spec
=============================================================================
