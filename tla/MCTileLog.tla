----------------------------- MODULE MCTileLog -----------------------------
(* TLC instances of TileLog: tiles of two, three hash levels, two entries. *)
EXTENDS TileLogProofs, TLC

CONSTANTS a, b, h1, h2

\* Span[l] = W^l with W = 2, and bundles at level -1.
MCSpan == [l \in {-1, 0, 1, 2} |-> CASE l = -1 -> 1 [] l = 0 -> 1 [] l = 1 -> 2 [] l = 2 -> 4]

\* The logs a store starts with.
EmptyLog == {<<>>}
TwoEntries == {<<a, b>>}
UpToTwo == {<<>>, <<a>>, <<a, b>>}

Symmetry == Permutations({h1, h2})
=============================================================================
