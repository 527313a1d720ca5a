----------------------------- MODULE MCTileRead -----------------------------
(* TLC instances of TileRead: tiles of two, three entries, then four.        *)
EXTENDS TileRead, TLC

CONSTANTS a, b, t1, t2

\* W^l.
Powers == [l \in 0..Levels |-> W^l]

ThreeEntries == <<a, b, b>>
FourEntries == <<a, b, b, a>>

OneEntry == {<<a>>}

\* One thread scans and reads entries, the other one reads hashes.
TwoReaders == [t \in Thread |-> IF t = t1 THEN {"scan", "entry"} ELSE {"hash"}]
Scans == [t \in Thread |-> {"scan"}]

\* The first bundle, its hash tile or both; the tile above.
OneFile == {{}} \cup {{p} : p \in Path}
FirstEntries == SUBSET {Tile(Entries, 0), Tile(0, 0)} \cup {{Tile(1, 0)}}
=============================================================================
