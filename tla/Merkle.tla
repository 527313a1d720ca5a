------------------------------- MODULE Merkle -------------------------------
(***************************************************************************)
(* Merkle trees: the tree hash, the inclusion and consistency proofs and   *)
(* their verification of vc-log (lib.rs), and the same tree read from hash *)
(* tiles by vc-store (tilelog.rs), whose provers are loops.                *)
(*                                                                         *)
(* A log answers a question with a proof; on its way to a verifier, who    *)
(* trusts the root of the larger tree only, parts of the answer change.    *)
(* Hashes are collision free and of separate domains: a leaf hash is a     *)
(* 1-tuple, a node a pair, the hash of the empty tree is empty.            *)
(***************************************************************************)
EXTENDS Integers, Sequences, SequencesExt

CONSTANTS
  H,           \* HEIGHT: a tile holds 2^H hashes
  Size,        \* entries of the log that proves
  MaxChanges,  \* bound: changes to one answer
  MaxChanged   \* bound: entries of a tree whose answers change

ASSUME MerkleAssumption ==
  H \in Nat \ {0} /\ Size \in Nat /\ MaxChanges \in Nat /\ MaxChanged \in 0..Size

VARIABLES
  claim,     \* the question, the proof, and what a verifier takes it to show
  changes    \* how often the claim was changed since the log gave it

vars == <<claim, changes>>

----------------------------------------------------------------------------
(* Tree hashes. *)

LeafHash(e) == <<e>>
NodeHash(l, r) == <<l, r>>
EmptyHash == <<>>

Pow2[i \in Nat] == IF i = 0 THEN 1 ELSE 2 * Pow2[i - 1]

Odd(x) == x % 2 = 1
TrailingZeros(x) == CHOOSE k \in 0..x : x % Pow2[k] = 0 /\ Odd(x \div Pow2[k])
IsPower(n) == n > 0 /\ n = Pow2[TrailingZeros(n)]

\* The largest power of two below n (split, largest_pow2_below).
Split(n) == Pow2[CHOOSE i \in 0..n : Pow2[i] < n /\ n <= 2 * Pow2[i]]

\* Roots(d)[n][a]: the root of the n hashes of d that follow the first a.  The
\* code calls itself on slices d[a..a + n]; here and below n and a are the slice.
Roots(d) ==
  LET root[n \in 0..Len(d)] == [a \in Nat |->
        CASE n = 0 -> EmptyHash
          [] n = 1 -> d[a + 1]
          [] OTHER -> NodeHash(root[Split(n)][a], root[n - Split(n)][a + Split(n)])]
  IN  root

Root(d) == Roots(d)[Len(d)][0]

----------------------------------------------------------------------------
(* The provers of vc-log.  The code counts m from the start of the slice,    *)
(* here it is a place in d.                                                  *)

InclusionProof(d, m) ==
  LET path[n \in 1..Len(d)] == [a \in Nat |->
        IF n = 1 THEN <<>>
        ELSE LET k == Split(n)
             IN  IF m < a + k THEN Append(path[k][a], Roots(d)[n - k][a + k])
                              ELSE Append(path[n - k][a + k], Roots(d)[k][a])]
  IN  path[Len(d)][0]

\* The code's flag b is lost with the first turn to the right: the slice then
\* no longer starts at 0.
ConsistencyProof(d, m) ==
  LET sub[n \in 1..Len(d)] == [a \in Nat |->
        IF m = a + n \/ n = 1 THEN IF a = 0 THEN <<>> ELSE <<Roots(d)[n][a]>>
        ELSE LET k == Split(n)
             IN  IF m <= a + k THEN Append(sub[k][a], Roots(d)[n - k][a + k])
                               ELSE Append(sub[n - k][a + k], Roots(d)[k][a])]
  IN  sub[Len(d)][0]

----------------------------------------------------------------------------
(* The verifiers: a loop over the path.  fn and sn are the positions, at the *)
(* current level, of the node proved and of the last node of the tree.       *)

Shift(s, k) == [s EXCEPT !.fn = @ \div Pow2[k], !.sn = @ \div Pow2[k]]

\* The sibling is on the left, or there was none on the levels up to here.
FromLeft(s) == Odd(s.fn) \/ s.fn = s.sn

\* Mutant: levels at which the last node has no sibling are not skipped.
RiseOneLevel(s) == Shift(s, 1)

\* Up one level, and past the levels at which the last node has no sibling.
Rise(s) ==
  IF FromLeft(s) /\ ~Odd(s.fn) /\ s.fn # 0
  THEN Shift(s, TrailingZeros(s.fn) + 1)
  ELSE Shift(s, 1)

InclusionStep(s, c) ==
  IF s.sn = 0 THEN [s EXCEPT !.valid = FALSE]
  ELSE [Rise(s) EXCEPT !.r = IF FromLeft(s) THEN NodeHash(c, @) ELSE NodeHash(@, c)]

InclusionEnd(leaf, index, size, path) ==
  LET state[i \in 0..Len(path)] ==
        IF i = 0 THEN [fn |-> index, sn |-> size - 1, r |-> leaf, valid |-> TRUE]
        ELSE InclusionStep(state[i - 1], path[i])
  IN  state[Len(path)]

\* Mutant: a path that ends below the root is not refused.
VerifyInclusionShort(leaf, index, size, path, root) ==
  /\ index < size
  /\ LET end == InclusionEnd(leaf, index, size, path)
     IN  end.valid /\ end.r = root

VerifyInclusion(leaf, index, size, path, root) ==
  /\ index < size
  /\ LET end == InclusionEnd(leaf, index, size, path)
     IN  end.valid /\ end.sn = 0 /\ end.r = root

ConsistencyStep(s, c) ==
  IF s.sn = 0 THEN [s EXCEPT !.valid = FALSE]
  ELSE IF FromLeft(s)
       THEN [Rise(s) EXCEPT !.fr = NodeHash(c, @), !.sr = NodeHash(c, @)]
       ELSE [Rise(s) EXCEPT !.sr = NodeHash(@, c)]

\* Both roots as the path gives them; it starts below the last perfect subtree
\* of the first tree, which is the whole of it at a power of two.
RootsFromPath(first, second, path) ==
  LET state[i \in 1..Len(path)] ==
        IF i = 1
        THEN Shift([fn |-> first - 1, sn |-> second - 1, fr |-> path[1], sr |-> path[1],
                    valid |-> TRUE], TrailingZeros(first))
        ELSE ConsistencyStep(state[i - 1], path[i])
  IN  state[Len(path)]

\* Mutant: the root of the first tree is not compared.
VerifyConsistencyOneRoot(first, second, first_root, second_root, proof) ==
  LET path == IF IsPower(first) THEN <<first_root>> \o proof ELSE proof IN
  /\ first > 0 /\ first <= second
  /\ IF first = second THEN proof = <<>> /\ first_root = second_root
     ELSE /\ path # <<>>
          /\ LET end == RootsFromPath(first, second, path)
             IN  end.valid /\ end.sn = 0 /\ end.sr = second_root

VerifyConsistency(first, second, first_root, second_root, proof) ==
  LET path == IF IsPower(first) THEN <<first_root>> \o proof ELSE proof IN
  /\ first > 0 /\ first <= second
  /\ IF first = second THEN proof = <<>> /\ first_root = second_root
     ELSE /\ path # <<>>
          /\ LET end == RootsFromPath(first, second, path)
             IN  end.valid /\ end.sn = 0 /\ end.fr = first_root /\ end.sr = second_root

----------------------------------------------------------------------------
(* The tile log: stored hashes are those of subtrees of H levels. *)

log == [i \in 1..Size |-> LeafHash(i)]

\* A tile that becomes full gives one hash of the level above (push_hash).
Stored[l \in 0..Size] == [i \in Nat |->
  IF l = 0 THEN log[i + 1]
  ELSE Root([j \in 1..Pow2[H] |-> Stored[l - 1][i * Pow2[H] + j - 1]])]

\* Mutant: the hashes of a subtree are looked up one place too far.
SubtreeNext(k, i) ==
  LET w == Pow2[k % H] IN Root([j \in 1..w |-> Stored[k \div H][i * w + (j % w)]])

\* The hash of the perfect subtree at tree level k from the stored level below.
Subtree(k, i) ==
  LET w == Pow2[k % H] IN Root([j \in 1..w |-> Stored[k \div H][i * w + j - 1]])

RangeHash[n \in 0..Size] == [a \in Nat |->
  CASE n = 0 -> EmptyHash
    [] IsPower(n) /\ a % n = 0 -> Subtree(TrailingZeros(n), a \div n)
    [] OTHER -> NodeHash(RangeHash[Split(n)][a], RangeHash[n - Split(n)][a + Split(n)])]

TileRoots == [n \in 0..Size |-> RangeHash[n][0]]
RootAt(size) == TileRoots[size]

\* The loop collects the siblings from the root down and reverses them.
TiledInclusionProof(index, size) ==
  LET siblings[n \in 1..size] == [a \in Nat |->
        IF n = 1 THEN <<>>
        ELSE LET k == Split(n)
             IN  IF index < a + k THEN <<RangeHash[n - k][a + k]>> \o siblings[k][a]
                                  ELSE <<RangeHash[k][a]>> \o siblings[n - k][a + k]]
  IN  Reverse(siblings[size][0])

TiledConsistencyProof(first, second) ==
  LET border[n \in 1..second] == [a \in Nat |->
        IF first = a + n \/ n = 1 THEN IF a = 0 THEN <<>> ELSE <<RangeHash[n][a]>>
        ELSE LET k == Split(n)
             IN  IF first <= a + k THEN <<RangeHash[n - k][a + k]>> \o border[k][a]
                                   ELSE <<RangeHash[k][a]>> \o border[n - k][a + k]]
  IN  Reverse(border[second][0])

----------------------------------------------------------------------------
(* A claim: leaf or first root `from' stands at index or first size `at' of *)
(* the tree of `size' entries, whose root the verifier has.                 *)

NoClaim == [kind |-> "none", at |-> 0, size |-> 0, from |-> EmptyHash,
            root |-> EmptyHash, proof |-> <<>>]

Init == claim = NoClaim /\ changes = 0

\* Mutant: the index is compared with the log, not with the tree asked about.
AskInclusionInLog(index, size) ==
  /\ claim.kind = "none"
  /\ index < Size /\ size \in 1..Size
  /\ claim' = [kind |-> "inclusion", at |-> index, size |-> size, from |-> Stored[0][index],
               root |-> RootAt(size), proof |-> TiledInclusionProof(index, size)]
  /\ UNCHANGED changes

AskInclusion(index, size) ==
  /\ claim.kind = "none"
  /\ index < size /\ size <= Size
  /\ claim' = [kind |-> "inclusion", at |-> index, size |-> size, from |-> Stored[0][index],
               root |-> RootAt(size), proof |-> TiledInclusionProof(index, size)]
  /\ UNCHANGED changes

AskConsistency(first, second) ==
  /\ claim.kind = "none"
  /\ first > 0 /\ first <= second /\ second <= Size
  /\ claim' = [kind |-> "consistency", at |-> first, size |-> second, from |-> RootAt(first),
               root |-> RootAt(second), proof |-> TiledConsistencyProof(first, second)]
  /\ UNCHANGED changes

\* The log with another entry in one place.
Forked(i) == [log EXCEPT ![i] = LeafHash(0)]

\* Hashes a changed claim may hold: those of the claim and of its tree, also of
\* inner nodes, and what they are in another log.
Known ==
  ToSet(claim.proof) \cup {claim.from, claim.root}
  \cup {Root(SubSeq(d, 1, n)) : d \in {log} \cup {Forked(i) : i \in {1, claim.at + 1} \cap 1..Size},
                              n \in 1..claim.size}

\* One part of the claim is changed: what it is about, or one hash of the proof
\* is left out, added, replaced or swapped with its neighbour.
Change ==
  /\ claim.kind # "none" /\ claim.size <= MaxChanged /\ changes < MaxChanges
  /\ changes' = changes + 1
  /\ LET p == claim.proof IN
     \/ \E at \in 0..(claim.size + 1) : claim' = [claim EXCEPT !.at = at]
     \/ \E size \in 0..MaxChanged : claim' = [claim EXCEPT !.size = size, !.root = RootAt(size)]
     \/ \E h \in Known : claim' = [claim EXCEPT !.from = h]
     \/ \E i \in DOMAIN p : claim' = [claim EXCEPT !.proof = RemoveAt(p, i)]
     \/ \E i \in 1..(Len(p) + 1), h \in Known : claim' = [claim EXCEPT !.proof = InsertAt(p, i, h)]
     \/ \E i \in DOMAIN p, h \in Known : claim' = [claim EXCEPT !.proof = ReplaceAt(p, i, h)]
     \/ \E i \in 1..(Len(p) - 1) :
          claim' = [claim EXCEPT !.proof = [p EXCEPT ![i] = p[i + 1], ![i + 1] = p[i]]]

Next ==
  \/ \E index, size \in 0..Size : AskInclusion(index, size)
  \/ \E first, second \in 0..Size : AskConsistency(first, second)
  \/ Change

Spec == Init /\ [][Next]_vars

----------------------------------------------------------------------------
(* Properties. *)

Verified ==
  CASE claim.kind = "inclusion" ->
         VerifyInclusion(claim.from, claim.at, claim.size, claim.proof, claim.root)
    [] claim.kind = "consistency" ->
         VerifyConsistency(claim.at, claim.size, claim.from, claim.root, claim.proof)
    [] OTHER -> FALSE

\* Until it is changed a claim is the log's answer to a question it may be asked,
\* and later it is still about a size of the log, with the root the tiles give.
ClaimOK ==
  /\ changes \in 0..MaxChanges
  /\ claim \in [kind : {"none", "inclusion", "consistency"}, at : 0..(Size + 1), size : 0..Size,
               from : {claim.from}, root : {RootAt(claim.size)}, proof : Seq(ToSet(claim.proof))]
  /\ changes = 0 =>
       \/ claim = NoClaim
       \/ /\ claim.kind = "inclusion" /\ claim.at < claim.size
          /\ claim.from = log[claim.at + 1]
          /\ claim.proof = TiledInclusionProof(claim.at, claim.size)
       \/ /\ claim.kind = "consistency" /\ claim.at \in 1..claim.size
          /\ claim.from = RootAt(claim.at)
          /\ claim.proof = TiledConsistencyProof(claim.at, claim.size)

\* What the log answers is accepted, for every index and every pair of sizes,
\* powers of two, last leaves and equal sizes among them.
HonestProofVerifies == claim.kind # "none" /\ changes = 0 => Verified

\* An accepted inclusion proof tells the truth: the leaf is the entry of that
\* index, whatever was cut out of, added to or exchanged in the answer.
VerifiedInclusionIsTrue ==
  claim.kind = "inclusion" /\ Verified =>
    claim.at \in 0..(claim.size - 1) /\ claim.from = log[claim.at + 1]

\* An accepted consistency proof tells the truth: the first root is that of the
\* first entries of the second tree, so a log that changed an entry cannot be
\* taken for the same log grown.
VerifiedConsistencyIsTrue ==
  claim.kind = "consistency" /\ Verified =>
    claim.at \in 1..claim.size /\ claim.from = Root(SubSeq(log, 1, claim.at))

\* The tile log's loops over tiles give the proofs and roots that vc-log's
\* recursion gives over the leaves (tilelog.rs, "iterative form of PATH").
TiledAnswersAgree ==
  changes = 0 =>
    LET d == SubSeq(log, 1, claim.size) IN
    /\ claim.root = Root(d)
    /\ claim.kind = "inclusion" => claim.proof = InclusionProof(d, claim.at)
    /\ claim.kind = "consistency" =>
         /\ claim.proof = ConsistencyProof(d, claim.at)
         /\ claim.from = Root(SubSeq(d, 1, claim.at))
=============================================================================
