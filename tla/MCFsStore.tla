----------------------------- MODULE MCFsStore -----------------------------
(* TLC instances of FsStore: a file in a directory of the root.              *)
EXTENDS FsStore, TLC

CONSTANTS w1, w2, p1, p2

StoreRoot == <<"log">>
OneFile == {<<"log", "tile", "x001", "000">>}

\* A new store, and one whose root has been made durable.
NoDirs == {}
RootOnly == {StoreRoot}

\* Two processes of one pid namespace.
MCPid == [p \in Process |-> IF p = p1 THEN 1 ELSE 2]

Symmetry == Permutations({w1, w2})
=============================================================================
