------------------------------ MODULE TileLog ------------------------------
(***************************************************************************)
(* The append-only log of vc-store (tilelog.rs) over a blob store.         *)
(*                                                                         *)
(* A log of `size' entries is kept as entry bundles (the source of truth), *)
(* Merkle hash tiles (derived) and one commit record (size and root).  An  *)
(* append writes bundles, then tiles, then the commit record; everything   *)
(* in the store beyond the committed size is garbage of a failed append.   *)
(* A handle is one TileLog instance: several processes may hold one over   *)
(* the same store, each store call may fail with or without effect, and a  *)
(* handle may die between any two calls.                                   *)
(*                                                                         *)
(* Hashes are collision free, so a hash is represented by what it hashes:  *)
(* a Merkle root is the sequence of entries below it, a commit record is   *)
(* the committed sequence (its size is the length), a hash tile is the     *)
(* sequence of entries its hashes cover, and the edge hashes a handle      *)
(* keeps in memory are the whole log as that handle knows it (`leaves').   *)
(* Because a handle only accepts edges whose level 0 agrees with its       *)
(* partial bundle, `leaves' determines that bundle (`entry_edge') too.     *)
(***************************************************************************)
EXTENDS Integers, Sequences, SequencesExt, FiniteSets

CONSTANTS
  Handle,      \* TileLog instances over the store
  Entry,       \* possible entries
  W,           \* TILE_WIDTH: entries in a bundle, hashes in a tile
  Levels,      \* MAX_LEVELS: number of hash levels
  Span,        \* Span[l]: entries below one item of level l
  MaxBatch,    \* bound: entries in one append
  MaxSize,     \* bound: entries in the log
  MaxDamage,   \* bound: hash tiles damaged at any one time
  Garbage,     \* bound: entries whose hashes a damaged tile may hold
  Locking,     \* does the store's lock_writer exclude other writers?
  Legacy,      \* does the store start without a commit record?
  InitLogs,    \* the logs the store may start with
  None         \* no commit record, no lock holder, a closed handle's view

\* Bundles are addressed like tiles, at a level of their own ("tile/entries").
Entries == -1
HashLevel == 0..(Levels - 1)
Level == HashLevel \cup {Entries}

ASSUME SizesAssumption ==
  /\ W \in Nat /\ W > 1
  /\ Levels \in Nat /\ Levels > 0
  /\ Span \in [Level -> Nat \ {0}]
  /\ Span[Entries] = 1 /\ Span[0] = 1
  /\ \A l \in 1..(Levels - 1) : Span[l] = W * Span[l - 1]

\* A log that fills the top level would end in StoreError::Range.
ASSUME BoundsAssumption ==
  /\ MaxBatch \in Nat /\ MaxDamage \in Nat /\ Garbage \subseteq Entry
  /\ MaxSize \in Nat /\ MaxSize < W * Span[Levels - 1]
  /\ InitLogs \subseteq Seq(Entry)
  /\ \A s \in InitLogs : Len(s) <= MaxSize

ASSUME NoneAssumption == None \notin Handle /\ None \notin Seq(Entry)

ASSUME ModeAssumption == Locking \in BOOLEAN /\ Legacy \in BOOLEAN

VARIABLES
  files,     \* the bundles and tiles in the store: a function on some paths
  commit,    \* the commit record: the committed log, or None
  lock,      \* who holds the writer lock
  damaged,   \* hash tiles lost or corrupted behind the log's back
  acked,     \* history: the longest log an append acknowledged
  pc,        \* where each handle is
  leaves,    \* edge and entry_edge of each open handle, as the log they spell
  seen,      \* the commit record each handle last read or wrote
  next,      \* the log a running append or recovery is writing
  todo       \* the paths it has yet to put

vars == <<files, commit, lock, damaged, acked, pc, leaves, seen, next, todo>>

Phase == {"closed", "opening", "recover", "idle", "pin", "put", "commit"}
Path == [level : Level, n : Nat, width : 1..W]

----------------------------------------------------------------------------
(* Tile addressing. *)

\* The number of level-l items in a log of `size' entries.
Items(l, size) == size \div Span[l]

\* Where the items of a path start and end, counted in entries.
FirstEntry(p) == (p.n * W) * Span[p.level] + 1
LastEntry(p) == (p.n * W + p.width) * Span[p.level]

\* What the file at p holds in the log s.
Slice(s, p) == SubSeq(s, FirstEntry(p), LastEntry(p))

FullPaths(l, size) ==
  {[level |-> l, n |-> n, width |-> W] : n \in 0..(Items(l, size) \div W - 1)}

\* Mutant: put_edges does not skip empty edges.
EdgePathsEvenEmpty(l, size) ==
  {[level |-> l, n |-> Items(l, size) \div W, width |-> Items(l, size) % W]}

EdgePaths(l, size) ==
  IF Items(l, size) % W = 0 THEN {}
  ELSE {[level |-> l, n |-> Items(l, size) \div W, width |-> Items(l, size) % W]}

\* The files a log of this size consists of, at the given levels.
Covers(levels, size) ==
  UNION {FullPaths(l, size) \cup EdgePaths(l, size) : l \in levels}

\* Mutant: only the partial tiles of the bundles and of level 0 are written.
PutsNoUpperEdges(levels, a, b) ==
  Covers(levels \cap {Entries, 0}, b) \ UNION {FullPaths(l, a) : l \in levels}

\* What growing from size a to size b puts: the tiles that become full and the
\* new partial ones.
Puts(levels, a, b) ==
  Covers(levels, b) \ UNION {FullPaths(l, a) : l \in levels}

\* The order of the puts: bundles, then full tiles as the last of their
\* entries is pushed (lower level first), then the partial tiles by level.
Stage(p) == IF p.level = Entries THEN 1 ELSE IF p.width = W THEN 2 ELSE 3

Before(p, q) ==
  \/ Stage(p) < Stage(q)
  \/ /\ Stage(p) = Stage(q)
     /\ \/ Stage(p) < 3 /\ LastEntry(p) < LastEntry(q)
        \/ (Stage(p) = 3 \/ LastEntry(p) = LastEntry(q)) /\ p.level < q.level

----------------------------------------------------------------------------
(* Reading the store. *)

Exists(p) == p \in DOMAIN files
Holds(p, s) == Exists(p) /\ files[p] = Slice(s, p)
Bundle(n, width) == [level |-> Entries, n |-> n, width |-> width]

\* The logs of this size that the files at these paths spell (at most one when
\* every entry is below one of the paths).
Reading(paths, size) == {s \in [1..size -> Entry] : \A p \in paths : Holds(p, s)}

\* scan_size finds this size: full bundles up to the first one missing, then
\* the widest partial bundle.
IsInferredSize(size) ==
  LET full == size \div W IN
  /\ \A n \in 0..(full - 1) : Exists(Bundle(n, W))
  /\ ~Exists(Bundle(full, W))
  /\ size % W > 0 => Exists(Bundle(full, size % W))
  /\ \A w \in ((size % W) + 1)..(W - 1) : ~Exists(Bundle(full, w))

\* Mutant: the bundle probed is the one after the last full one.
BundlesLoadOffByOne(size) ==
  /\ size % W > 0 => Exists(Bundle(size \div W, size % W))
  /\ size >= W => Exists(Bundle(size \div W, W))

\* load_partial_bundle and the existence check on the last full bundle.
BundlesLoad(size) ==
  /\ size % W > 0 => Exists(Bundle(size \div W, size % W))
  /\ size >= W => Exists(Bundle(size \div W - 1, W))

\* What a handle takes from the edge tiles and the partial bundle (load_edges
\* and edge0_matches_bundle: the level-0 edge and the bundle spell the same):
\* every partial tile is there and well formed, and so is the last full tile of
\* each level, whose bytes are not read.
FromEdges(size) ==
  IF \A l \in HashLevel :
       LET full == Items(l, size) \div W
       IN  full > 0 => Exists([level |-> l, n |-> full - 1, width |-> W])
  THEN Reading(UNION {EdgePaths(l, size) : l \in Level}, size)
  ELSE {}

FromBundles(size) == Reading(Covers({Entries}, size), size)

----------------------------------------------------------------------------
(* The content of the log: what is committed; without a commit record, what *)
(* an opening handle infers from the bundles.                               *)
Content ==
  IF commit = None
  THEN CHOOSE s \in UNION {FromBundles(size) : size \in 0..MaxSize} : IsInferredSize(Len(s))
  ELSE commit

\* A store left by earlier appends.  One without commit record comes from a
\* version that wrote none and may have died before its hash tiles.
Init ==
  /\ \E s \in InitLogs :
       \E missing \in IF Legacy THEN SUBSET Covers(HashLevel, Len(s)) ELSE {{}} :
         /\ files = [p \in Covers(Level, Len(s)) \ missing |-> Slice(s, p)]
         /\ commit = IF Legacy THEN None ELSE s
         /\ damaged = missing
         /\ acked = s
  /\ lock = None
  /\ pc = [h \in Handle |-> "closed"]
  /\ leaves = [h \in Handle |-> <<>>]
  /\ seen = [h \in Handle |-> None]
  /\ next = [h \in Handle |-> <<>>]
  /\ todo = [h \in Handle |-> {}]

----------------------------------------------------------------------------
(* Opening a log.  The commit record is read first, everything else later. *)

Open(h) ==
  /\ pc[h] = "closed"
  /\ pc' = [pc EXCEPT ![h] = "opening"]
  /\ seen' = [seen EXCEPT ![h] = commit]
  /\ UNCHANGED <<files, commit, lock, damaged, acked, leaves, next, todo>>

\* The size an opening handle works with.
OpensAt(h, size) == IF seen[h] = None THEN IsInferredSize(size) ELSE size = Len(seen[h])

\* Mutant: the loaded edges are not compared with the committed root.
AcceptedNoRoot(h, size) == FromEdges(size)

\* The edges a handle accepts: with a commit record, only the committed root.
Accepted(h, size) == {s \in FromEdges(size) : seen[h] # None => s = seen[h]}

\* The stored edge tiles are right: open is done.
LoadTiles(h) ==
  /\ pc[h] = "opening"
  /\ \E size \in 0..MaxSize :
       /\ OpensAt(h, size) /\ BundlesLoad(size)
       /\ \E s \in Accepted(h, size) : leaves' = [leaves EXCEPT ![h] = s]
  /\ pc' = [pc EXCEPT ![h] = "idle"]
  /\ UNCHANGED <<files, commit, lock, damaged, acked, seen, next, todo>>

\* They are not: recover rebuilds every hash tile from the bundles.
StartRecovery(h) ==
  /\ pc[h] = "opening"
  /\ \E size \in 0..MaxSize :
       /\ OpensAt(h, size) /\ BundlesLoad(size)
       /\ Accepted(h, size) = {}
       /\ \E s \in FromBundles(size) : next' = [next EXCEPT ![h] = s]
       /\ todo' = [todo EXCEPT ![h] = Covers(HashLevel, size)]
  /\ pc' = [pc EXCEPT ![h] = "recover"]
  /\ UNCHANGED <<files, commit, lock, damaged, acked, leaves, seen>>

\* The rebuilt root must be the committed one.
FinishRecovery(h) ==
  /\ pc[h] = "recover" /\ todo[h] = {}
  /\ seen[h] # None => next[h] = seen[h]
  /\ pc' = [pc EXCEPT ![h] = "idle"]
  /\ leaves' = [leaves EXCEPT ![h] = next[h]]
  /\ next' = [next EXCEPT ![h] = <<>>]
  /\ UNCHANGED <<files, commit, lock, damaged, acked, seen, todo>>

\* The handle is gone: its process died, it was dropped, or open returned an
\* error.  Its lock goes with it.
Close(h) ==
  /\ pc[h] # "closed"
  /\ pc' = [pc EXCEPT ![h] = "closed"]
  /\ leaves' = [leaves EXCEPT ![h] = <<>>]
  /\ seen' = [seen EXCEPT ![h] = None]
  /\ next' = [next EXCEPT ![h] = <<>>]
  /\ todo' = [todo EXCEPT ![h] = {}]
  /\ lock' = IF lock = h THEN None ELSE lock
  /\ UNCHANGED <<files, commit, damaged, acked>>

----------------------------------------------------------------------------
(* Appending a batch.  An append that does not get the lock changes nothing *)
(* and is not an action here.                                               *)

\* Mutant: the lock is looked at but not taken.
AcquireNothing(h) == lock \in {None, h} /\ UNCHANGED lock

\* lock_writer: idempotent, kept until the handle is gone.
Acquire(h) ==
  IF Locking THEN lock \in {None, h} /\ lock' = h ELSE UNCHANGED lock

Batches == UNION {[1..k -> Entry] : k \in 1..MaxBatch}

\* Mutant: a stale handle is let through.
NoFence(h) == TRUE

\* The fence: the store is where this handle last saw it.
Fence(h) == commit = seen[h]

\* Mutant: a store without commit record is not pinned.
FirstPhaseNoPin(h) == "put"

FirstPhase(h) == IF seen[h] = None THEN "pin" ELSE "put"

BeginAppend(h, batch) ==
  /\ pc[h] = "idle"
  /\ Len(leaves[h]) + Len(batch) <= MaxSize
  /\ Acquire(h)
  /\ Fence(h)
  /\ pc' = [pc EXCEPT ![h] = FirstPhase(h)]
  /\ next' = [next EXCEPT ![h] = leaves[h] \o batch]
  /\ todo' = [todo EXCEPT ![h] = Puts(Level, Len(leaves[h]), Len(next'[h]))]
  /\ UNCHANGED <<files, commit, damaged, acked, leaves, seen>>

\* The fence refuses (Conflict), or the commit record cannot be read: nothing
\* is written, but the lock stays with this handle.
RefuseAppend(h) ==
  /\ pc[h] = "idle"
  /\ Acquire(h)
  /\ UNCHANGED <<files, commit, damaged, acked, pc, leaves, seen, next, todo>>

\* Mutant: the pinned record describes an empty log.
PinEmpty(h) ==
  /\ pc[h] = "pin"
  /\ commit' = <<>>
  /\ seen' = [seen EXCEPT ![h] = <<>>]
  /\ pc' = [pc EXCEPT ![h] = "put"]
  /\ UNCHANGED <<files, lock, damaged, acked, leaves, next, todo>>

\* A store without commit record gets one for its present content before any
\* entry is written.
Pin(h) ==
  /\ pc[h] = "pin"
  /\ commit' = leaves[h]
  /\ seen' = [seen EXCEPT ![h] = leaves[h]]
  /\ pc' = [pc EXCEPT ![h] = "put"]
  /\ UNCHANGED <<files, lock, damaged, acked, leaves, next, todo>>

\* One put of an append or of a recovery, in the order of the code.
PutFile(h) ==
  /\ pc[h] \in {"put", "recover"}
  /\ \E p \in todo[h] :
       /\ \A q \in todo[h] : ~Before(q, p)
       /\ files' = [q \in DOMAIN files \cup {p} |->
                      IF q = p THEN Slice(next[h], p) ELSE files[q]]
       /\ damaged' = damaged \ {p}
       /\ todo' = [todo EXCEPT ![h] = @ \ {p}]
  /\ UNCHANGED <<commit, lock, acked, pc, leaves, seen, next>>

\* write_commit reads the commit record again ...
CheckCommit(h) ==
  /\ pc[h] = "put" /\ todo[h] = {}
  /\ Fence(h)
  /\ pc' = [pc EXCEPT ![h] = "commit"]
  /\ UNCHANGED <<files, commit, lock, damaged, acked, leaves, seen, next, todo>>

BackToIdle(h) ==
  /\ pc' = [pc EXCEPT ![h] = "idle"]
  /\ next' = [next EXCEPT ![h] = <<>>]
  /\ todo' = [todo EXCEPT ![h] = {}]

\* ... and then replaces it: a get and a put, not one atomic step.
Commit(h) ==
  /\ pc[h] = "commit"
  /\ commit' = next[h]
  /\ seen' = [seen EXCEPT ![h] = next[h]]
  /\ leaves' = [leaves EXCEPT ![h] = next[h]]
  /\ acked' = next[h]
  /\ BackToIdle(h)
  /\ UNCHANGED <<files, lock, damaged>>

\* A commit record (of a pin or of an append) that reached the store although
\* the put reported an error: the handle goes on as if it had not.
CommitUnknown(h) ==
  /\ pc[h] \in {"pin", "commit"}
  /\ commit' = IF pc[h] = "pin" THEN leaves[h] ELSE next[h]
  /\ BackToIdle(h)
  /\ UNCHANGED <<files, lock, damaged, acked, leaves, seen>>

\* Any store call of an append fails, or the second look at the commit record
\* finds another one: the handle is as before the append, except that a
\* successful pin is remembered.  (A put that took effect and yet reported an
\* error is PutFile and then this.)
FailAppend(h) ==
  /\ pc[h] \in {"pin", "put", "commit"}
  /\ BackToIdle(h)
  /\ UNCHANGED <<files, commit, lock, damaged, acked, leaves, seen>>

----------------------------------------------------------------------------
(* The environment loses a hash tile or changes its bytes.  (Bundles are    *)
(* the source of truth; nothing rebuilds them.)                             *)
Damage(p) ==
  /\ p.level # Entries
  /\ Cardinality(damaged \cup {p}) <= MaxDamage
  /\ damaged' = damaged \cup {p}
  /\ \/ files' = [q \in DOMAIN files \ {p} |-> files[q]]
     \/ \E c \in {<<>>} \cup [1..Len(files[p]) -> Garbage] :
          files' = [files EXCEPT ![p] = c]
  /\ UNCHANGED <<commit, lock, acked, pc, leaves, seen, next, todo>>

Next ==
  \/ \E h \in Handle :
       \/ Open(h) \/ LoadTiles(h) \/ StartRecovery(h) \/ FinishRecovery(h)
       \/ Close(h)
       \/ \E batch \in Batches : BeginAppend(h, batch)
       \/ RefuseAppend(h) \/ Pin(h) \/ PutFile(h) \/ CheckCommit(h)
       \/ Commit(h) \/ CommitUnknown(h) \/ FailAppend(h)
  \/ \E p \in DOMAIN files : Damage(p)

Spec == Init /\ [][Next]_vars

----------------------------------------------------------------------------
(* Properties. *)

\* Every variable has its type; a running append or recovery only writes paths
\* of the log it is writing, a recovery never bundles.
TypeOK ==
  /\ DOMAIN files \subseteq Path
  /\ \A p \in DOMAIN files : files[p] \in Seq(Entry)
  /\ commit \in Seq(Entry) \cup {None}
  /\ lock \in Handle \cup {None}
  /\ damaged \subseteq Path
  /\ acked \in Seq(Entry)
  /\ pc \in [Handle -> Phase]
  /\ leaves \in [Handle -> Seq(Entry)]
  /\ seen \in [Handle -> Seq(Entry) \cup {None}]
  /\ next \in [Handle -> Seq(Entry)]
  /\ todo \in [Handle -> SUBSET Path]

\* The bundles of the committed size are in the store and spell the committed
\* log: no crash, failed append or second writer can make the commit record
\* point at entries that are not there (tilelog.rs, "the commit record is the
\* single linearisation point").
CommittedReadable ==
  commit # None =>
    \A p \in Covers({Entries}, Len(commit)) : Holds(p, commit)

\* Every hash tile of the committed size is in the store and right, unless the
\* environment damaged it and nobody rewrote it since: neither a failed append
\* nor a recovery that runs beside a writer leaves a wrong one behind.
CommittedTilesTrue ==
  commit # None =>
    \A p \in Covers(HashLevel, Len(commit)) : p \in damaged \/ Holds(p, commit)

\* What an open handle answers from is a prefix of the log, also after a failed
\* append, a recovery or an append by another handle.
ViewIsCommitted ==
  \A h \in Handle :
    pc[h] \in {"idle", "pin", "put", "commit"} => IsPrefix(leaves[h], Content)

\* A handle that has read a commit record can finish opening from the bundles,
\* whatever a writer does meanwhile: the bundles of that record stay readable,
\* and what a recovery rebuilds has the committed root.
OpenSucceeds ==
  \A h \in Handle : seen[h] # None =>
    /\ pc[h] = "opening" =>
         BundlesLoad(Len(seen[h])) /\ seen[h] \in FromBundles(Len(seen[h]))
    /\ pc[h] = "recover" => next[h] = seen[h]

\* No acknowledged entry is ever lost or replaced.
AckedCommitted == IsPrefix(acked, Content)

\* A committed log is only ever extended.
ContentGrows == [][IsPrefix(Content, Content')]_vars

\* The abstract log this one implements: the commit record is the log, and a
\* handle sees what it read when it opened or last committed.
ViewOf(h) ==
  CASE pc[h] = "closed" -> None
    [] pc[h] \in {"opening", "recover"} -> IF seen[h] = None THEN Content ELSE seen[h]
    [] OTHER -> leaves[h]

Abstract == INSTANCE AppendLog
  WITH Batch <- Batches, Closed <- None,
       log <- Content, view <- [h \in Handle |-> ViewOf(h)]

\* Every step of the stored log is a step of the abstract one.
ImplementsAppendLog == Abstract!Spec
=============================================================================
