------------------------------ MODULE TileRead ------------------------------
(***************************************************************************)
(* The read side of vc-store's tile log: entries, scans and stored hashes  *)
(* of one TileLog handle, called by several threads.                       *)
(*                                                                         *)
(* The right edge of every level is in memory and true.  Everything left   *)
(* of it is read from full bundles and full hash tiles, which may have     *)
(* been damaged: a tile is checked against its hash in the level above,    *)
(* which may be in a stored tile again, up to the edge; tiles found right  *)
(* are remembered by the digest of their bytes.  Between two store calls   *)
(* of a read anything may happen to the files.  The handle appends when no *)
(* read is running (append_batch borrows it mutably).                      *)
(*                                                                         *)
(* Hashes are collision free: the hash of a tile is the tile in a wrapper, *)
(* the digest of a file its content.                                       *)
(***************************************************************************)
EXTENDS Integers, Sequences, SequencesExt, FiniteSets

CONSTANTS
  Thread,      \* threads that read through the handle
  Entry,       \* possible entries
  Torn,        \* an entry whose length runs over the end of its bundle
  W,           \* TILE_WIDTH
  Levels,      \* MAX_LEVELS
  Span,        \* Span[l]: entries below one hash of level l
  Op,          \* Op[t]: the reads of a thread, of "entry", "hash" and "scan"
  InitLog,     \* the log at the start
  Batch,       \* what one append may add
  MaxSize,     \* bound: entries in the log
  Damages      \* bound: the sets of files that may be damaged at one time

Entries == -1
HashLevel == 0..(Levels - 1)

ASSUME ReadAssumption ==
  /\ W \in Nat /\ W > 1 /\ Levels \in Nat \ {0}
  /\ Span \in [0..Levels -> Nat \ {0}] /\ Span[0] = 1
  /\ \A l \in 1..Levels : Span[l] = W * Span[l - 1]
  /\ MaxSize \in Nat /\ MaxSize < Span[Levels]
  /\ InitLog \in Seq(Entry) /\ Len(InitLog) <= MaxSize
  /\ Batch \subseteq Seq(Entry) /\ Torn \notin Entry
  /\ Op \in [Thread -> SUBSET {"entry", "hash", "scan"}]

VARIABLES
  log,       \* the committed log this handle answers from
  files,     \* the full bundles and full hash tiles in the store
  damaged,   \* history: the files of the log that are lost or changed
  verified,  \* the digests of the tiles found right
  reader     \* the read each thread is in, or its last one

vars == <<log, files, damaged, verified, reader>>

----------------------------------------------------------------------------
(* The tree: a log's hashes at a stored level, and its full files. *)

LeafHash(e) == [leaf |-> e]
MthSlice(hashes) == [below |-> hashes]

\* Hash i of level l, for the log s.
Stored(s, l, i) ==
  LET hash[k \in HashLevel] ==
        [n \in Nat |->
           IF k = 0 THEN LeafHash(s[n + 1])
           ELSE MthSlice([j \in 1..W |-> hash[k - 1][n * W + j - 1]])]
  IN hash[l][i]

\* The number of hashes of level l.
Count(s, l) == Len(s) \div Span[l]

Path == [level : HashLevel \cup {Entries}, n : 0..MaxSize]
Tile(l, n) == [level |-> l, n |-> n]

FullFiles(s) ==
  {Tile(Entries, n) : n \in 0..(Len(s) \div W - 1)}
  \cup UNION {{Tile(l, n) : n \in 0..(Count(s, l) \div W - 1)} : l \in HashLevel}

\* What the file holds in the log s.
Content(s, p) ==
  IF p.level = Entries THEN SubSeq(s, p.n * W + 1, p.n * W + W)
  ELSE [j \in 1..W |-> Stored(s, p.level, p.n * W + j - 1)]

\* The log another writer might have written instead.
Other(s) == [i \in DOMAIN s |-> CHOOSE e \in Entry : e # s[i]]

\* What a damaged file may hold, if it is there: the same of another log, or,
\* for a bundle, entries up to one that is cut off.
Garbage(s, p) ==
  {Content(Other(s), p)}
  \cup (IF p.level = Entries THEN {<<Content(s, p)[1], Torn>>} ELSE {})

----------------------------------------------------------------------------

NoTiles == [p \in {} |-> <<>>]

\* A thread before its first read.
NoRead == [pc |-> "idle", op |-> "entry", level |-> 0, at |-> 0, next |-> 0,
           bundle |-> <<>>, loading |-> <<>>, trusted |-> FALSE,
           got |-> <<>>, failed |-> FALSE, hit |-> FALSE, still |-> {},
           missed |-> FALSE]

Init ==
  /\ log = InitLog
  /\ files = [p \in FullFiles(log) |-> Content(log, p)]
  /\ damaged = {}
  /\ verified = NoTiles
  /\ reader = [t \in Thread |-> NoRead]

Reading(t, r) ==
  /\ reader' = [reader EXCEPT ![t] = r]
  /\ UNCHANGED <<log, files, damaged>>

\* A read that is over keeps nothing but its answer.
Ended(r) == [r EXCEPT !.pc = "idle", !.next = r.at, !.bundle = <<>>, !.loading = <<>>,
                      !.trusted = FALSE, !.hit = FALSE, !.still = {},
                      !.missed = r.still # {}]

\* It reports damage.
Failed(r) == [Ended(r) EXCEPT !.failed = TRUE, !.hit = r.hit, !.missed = FALSE]
Answered(r, x) == [Ended(r) EXCEPT !.got = @ \o x]

\* Mutant: the partial tile of a level is read from the store like a full one.
InEdgeLate(l, i) == i \div W > Count(log, l) \div W

\* The hash is in the partial tile of its level, in memory.
InEdge(l, i) == i \div W >= Count(log, l) \div W

\* The files a read depends on: its bundles, and the tiles above them.
Above(l, i) ==
  {p \in FullFiles(log) : p.level >= l /\ p.n = (i \div W) \div Span[p.level - l]}

DependsOn(r) ==
  IF r.op = "hash" THEN Above(r.level, r.at)
  ELSE UNION {{Tile(Entries, i \div W)} \cup Above(0, i) :
              i \in r.at..(IF r.op = "scan" THEN Len(log) - 1 ELSE r.at)}

\* History: was a file it depends on damaged since it started, and which files
\* have been damaged all through a scan of the whole log?
Watched(r, bad) ==
  [r EXCEPT !.hit = @ \/ bad \cap DependsOn(r) # {}, !.still = @ \cap bad]

Start(op, level, at) ==
  Watched([NoRead EXCEPT !.op = op, !.level = level, !.at = at, !.next = at,
                         !.still = IF op = "scan" /\ at = 0 THEN damaged ELSE {}],
          damaged)

\* leaf_hash_at and the hashes that roots and proofs are made of.
ReadHash(t, l, i) ==
  /\ reader[t].pc = "idle" /\ i < Count(log, l)
  /\ Reading(t, LET r == Start("hash", l, i)
                IN  IF InEdge(l, i) THEN Answered(r, <<Stored(log, l, i)>>)
                    ELSE [r EXCEPT !.pc = "tiles"])
  /\ UNCHANGED verified

ReadEntries(t, op, i) ==
  /\ reader[t].pc = "idle" /\ op \in {"entry", "scan"} /\ i < Len(log)
  /\ Reading(t, [Start(op, 0, i) EXCEPT !.pc = "bundle"])
  /\ UNCHANGED verified

\* What bundle_nth finds of an entry, and parse_bundle of a whole bundle.
HasEntry(b, k) == k <= Len(b) /\ \A j \in 1..k : b[j] # Torn
IsWhole(b) == Len(b) = W /\ HasEntry(b, W)

\* The bundle of the next entry is got and parsed; the partial one is in memory.
GetBundle(t) ==
  LET r == reader[t]
      p == Tile(Entries, r.next \div W)
      off == r.next % W
  IN
  /\ r.pc = "bundle"
  /\ Reading(t,
       IF p.n = Len(log) \div W
       THEN Answered(r, SubSeq(log, r.next + 1,
                               IF r.op = "scan" THEN Len(log) ELSE r.next + 1))
       ELSE IF /\ p \in DOMAIN files
               /\ IF r.op = "scan" THEN IsWhole(files[p]) ELSE HasEntry(files[p], off + 1)
            THEN [r EXCEPT !.pc = "tiles", !.bundle = files[p]]
            ELSE Failed(r))
  /\ UNCHANGED verified

\* The index, in the level it is stored at, of the hash wanted first.
Wanted(r) == IF r.op = "hash" THEN r.at ELSE r.next

\* Mutant: a tile is known by its place, whatever its bytes are now.
KnownByPlace(p, b) == p \in DOMAIN verified

Known(p, b) == p \in DOMAIN verified /\ verified[p] = b

\* load_full_tile: the tile with the wanted hash, or above the last one loaded.
\* (The cache is looked up in the same step: what another thread adds in
\* between it could have added before.)
LoadTile(t) ==
  LET r == reader[t]
      k == Len(r.loading)
      p == IF k = 0 THEN Tile(r.level, Wanted(r) \div W)
           ELSE Tile(r.level + k, r.loading[k].n \div W)
  IN
  /\ r.pc = "tiles" /\ ~r.trusted
  /\ k > 0 => ~InEdge(p.level, r.loading[k].n)
  /\ Reading(t,
       IF p \in DOMAIN files /\ Len(files[p]) = W
       THEN [r EXCEPT !.loading = Append(@, [n |-> p.n, hashes |-> files[p]]),
                      !.trusted = Known(p, files[p])]
       ELSE Failed(r))
  /\ UNCHANGED verified

\* Mutant: the bytes are remembered without a look at the parent hash.
IsRightAnyway(hashes, parent) == TRUE

IsRight(hashes, parent) == MthSlice(hashes) = parent

\* Mutant: a verified tile is remembered at the place of its parent.
RememberAbove(p, hashes) ==
  [q \in DOMAIN verified \cup {Tile(p.level + 1, p.n)} |->
     IF q.level = p.level + 1 THEN hashes ELSE verified[q]]

Remember(p, hashes) ==
  [q \in DOMAIN verified \cup {p} |-> IF q = p THEN hashes ELSE verified[q]]

\* The last tile not yet trusted is compared with its parent hash, which is in
\* the edge or in the trusted tile above.
VerifyTile(t) ==
  LET r == reader[t]
      k == IF r.trusted THEN Len(r.loading) - 1 ELSE Len(r.loading)
      p == Tile(r.level + k - 1, r.loading[k].n)
      parent == IF r.trusted THEN Last(r.loading).hashes[(p.n % W) + 1]
                ELSE Stored(log, p.level + 1, p.n)
  IN
  /\ r.pc = "tiles" /\ k > 0
  /\ r.trusted \/ InEdge(p.level + 1, p.n)
  /\ IF IsRight(r.loading[k].hashes, parent)
     THEN /\ Reading(t, [r EXCEPT !.loading = SubSeq(@, 1, k), !.trusted = TRUE])
          /\ verified' = Remember(p, r.loading[k].hashes)
     ELSE Reading(t, Failed(r)) /\ UNCHANGED verified

\* The wanted tile is trusted: the entries of the bundle are compared with it
\* and given out up to the first that differs; a scan goes on.
Answer(t) ==
  LET r == reader[t]
      hashes == r.loading[1].hashes
      off == Wanted(r) % W
      upto == IF r.op = "scan" THEN W ELSE off + 1
      same(j) == LeafHash(r.bundle[j]) = hashes[j]
      good == CHOOSE k \in off..upto :
                /\ \A j \in (off + 1)..k : same(j)
                /\ k < upto => ~same(k + 1)
      given == [r EXCEPT !.got = @ \o SubSeq(r.bundle, off + 1, good)]
      next == (r.next \div W + 1) * W
  IN
  /\ r.pc = "tiles" /\ r.trusted /\ Len(r.loading) = 1
  /\ Reading(t,
       CASE r.op = "hash" -> Answered(r, <<hashes[off + 1]>>)
         [] r.op # "hash" /\ good < upto -> Failed(given)
         [] r.op = "scan" /\ good = upto /\ next < Len(log) ->
              [given EXCEPT !.pc = "bundle", !.next = next, !.bundle = <<>>,
                            !.loading = <<>>, !.trusted = FALSE]
         [] OTHER -> Ended(given))
  /\ UNCHANGED verified

\* A get of the store fails, otherwise than by not finding the file: the read ends
\* with that error (StoreError::Io), which says nothing about the log, and is no
\* longer of interest.
StoreFails(t) ==
  LET r == reader[t]
      k == Len(r.loading)
  IN
  /\ \/ r.pc = "bundle" /\ r.next \div W # Len(log) \div W
     \/ /\ r.pc = "tiles" /\ ~r.trusted
        /\ k > 0 => ~InEdge(r.level + k, r.loading[k].n)
  /\ Reading(t, NoRead)
  /\ UNCHANGED verified

----------------------------------------------------------------------------
(* Around the reads. *)

AllIdle == \A t \in Thread : reader[t].pc = "idle"

\* This handle's append (TileLog): the files that become full are put, the cache
\* starts anew.
Grow(batch) ==
  /\ AllIdle
  /\ Len(log) + Len(batch) <= MaxSize
  /\ log' = log \o batch
  /\ LET new == FullFiles(log') \ FullFiles(log)
     IN  files' = [p \in DOMAIN files \cup new |->
                     IF p \in new THEN Content(log', p) ELSE files[p]]
  /\ verified' = NoTiles
  /\ UNCHANGED <<damaged, reader>>

\* Its commit failed: the old state is taken back, but for the cache.
FailToCommit ==
  /\ AllIdle
  /\ verified' = NoTiles
  /\ UNCHANGED <<log, files, damaged, reader>>

\* An append that failed, or one of another handle, which this one has not seen:
\* the file at p, beyond the log, is written.
PutBeyond(p, batch) ==
  /\ p \in FullFiles(log \o batch) \ FullFiles(log)
  /\ files' = [q \in DOMAIN files \cup {p} |->
                 IF q = p THEN Content(log \o batch, p) ELSE files[q]]
  /\ UNCHANGED <<log, damaged, verified, reader>>

\* A file of the log is lost, changed or put right again (by a recovery of
\* another handle).
Alter(p, now) ==
  /\ damaged' = IF now THEN damaged \cup {p} ELSE damaged \ {p}
  /\ damaged' \in Damages
  /\ reader' = [t \in Thread |->
       IF reader[t].pc = "idle" THEN reader[t]
       ELSE Watched(reader[t], damaged')]
  /\ UNCHANGED <<log, verified>>

Damage(p) ==
  /\ Alter(p, TRUE)
  /\ \/ files' = [q \in DOMAIN files \ {p} |-> files[q]]
     \/ p \in DOMAIN files /\ \E c \in Garbage(log, p) : files' = [files EXCEPT ![p] = c]

Repair(p) ==
  /\ p \in damaged
  /\ Alter(p, FALSE)
  /\ files' = [q \in DOMAIN files \cup {p} |->
                 IF q = p THEN Content(log, p) ELSE files[q]]

Next ==
  \/ \E t \in Thread :
       \/ \E op \in Op[t], i \in 0..(MaxSize - 1) : ReadEntries(t, op, i)
       \/ "hash" \in Op[t] /\ \E l \in HashLevel, i \in 0..(MaxSize - 1) : ReadHash(t, l, i)
       \/ GetBundle(t) \/ LoadTile(t) \/ VerifyTile(t) \/ Answer(t) \/ StoreFails(t)
  \/ \E batch \in Batch : Grow(batch)
  \/ FailToCommit
  \/ \E batch \in Batch :
       /\ Len(log) + Len(batch) <= MaxSize
       /\ \E p \in FullFiles(log \o batch) : PutBeyond(p, batch)
  \/ \E p \in FullFiles(log) : Damage(p) \/ Repair(p)

Spec == Init /\ [][Next]_vars

----------------------------------------------------------------------------
(* Properties. *)

TypeOK ==
  /\ log \in Seq(Entry)
  /\ DOMAIN files \subseteq Path /\ FullFiles(log) \ damaged \subseteq DOMAIN files
  /\ damaged \subseteq FullFiles(log)
  /\ DOMAIN verified \subseteq FullFiles(log)

\* No read gives out anything but the committed entries and hashes, whatever was
\* damaged, consistently or not, before it or between two of its store calls
\* ("Entry at index, checked against its leaf hash in the tree").
AnswersAreCommitted ==
  \A t \in Thread : LET r == reader[t] IN
    IF r.op = "hash" THEN \A j \in DOMAIN r.got : r.got[j] = Stored(log, r.level, r.at)
    ELSE IsPrefix(r.got, SubSeq(log, r.at + 1, Len(log)))

\* The cache holds right tiles only: neither a damaged tile nor one written
\* beyond the log by a failed append is ever taken for verified.
VerifiedTilesTrue ==
  \A p \in DOMAIN verified : p \in FullFiles(log) /\ verified[p] = Content(log, p)

\* A read that reports damage (StoreError::Corrupt) depends on a file that was
\* damaged at its start or while it ran: damage elsewhere, garbage of failed appends,
\* the boundaries of tiles and failing store calls never make it condemn a log.
FailureMeansDamage ==
  \A t \in Thread : LET r == reader[t] IN
    r.failed => r.hit

\* verify_integrity, a scan from 0, promises a "deep audit: every entry bundle
\* is complete and matches the hash tiles, which match each other": it does not
\* return Ok when a file was damaged from its start to its end.
AuditIsDeep ==
  \A t \in Thread : ~reader[t].missed
=============================================================================
