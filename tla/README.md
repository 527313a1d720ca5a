# Verichain in TLA+

Models, model checks and proofs for the Rust workspace in `src/crates`: the
crates that keep the append-only log (`vc-store`), judge statements
(`vc-core`), sequence them (`vc-seq`), prove and sign what is in the log
(`vc-log`), and bring statements into canonical form (`vc-core`).

## 1. The system

| part | source | state it keeps | operations |
| --- | --- | --- | --- |
| blob store | `vc-store/src/store.rs` | files under a root; an advisory writer lock | `get`, `put`, `exists`, `lock_writer` |
| tile log | `vc-store/src/tilelog.rs`, `tile.rs` | in the store: entry bundles, hash tiles, commit record; in memory: size, right edge of every level, partial bundle, last commit record seen, verified-tile cache | `open`, `append_batch`, reads and proofs |
| chain rules | `vc-core/src/chain.rs` | last statement of each agent, intents, closed intents | `check`, `commit`, `open_intents` |
| sequencer | `vc-seq/src/lib.rs` | a tile log, a chain state, index of every durable statement, `poisoned` | `open`, `submit_batch`, `checkpoint`, `open_intents` |
| Merkle proofs | `vc-log/src/lib.rs` | none | root, inclusion and consistency proofs and their verification |
| checkpoints | `vc-log/src/checkpoint.rs` | none | note format, signing, witness quorum, split-view test |
| envelopes | `vc-cose`, `vc-core/src/canonical.rs` | none | COSE_Sign1 and canonical JSON |
| skeletons | `vc-aat`, `vc-anchor`, `vc-pack`, `vc-sdk`, `vc-verify`, `vc-witness`, `vcd` | none | none yet: one doc line each |

**How they interact.** A client hands signed statements to the sequencer. The
sequencer verifies the envelope and the registry's rules, checks the chain rules
against its in-memory chain state, and gives the accepted statements of a batch
to the tile log in one append. The tile log issues a series of `put`s: bundles,
hash tiles, then the commit record. There is no thread or message inside these
crates: an operation is a sequence of synchronous store calls by a handle that
is borrowed mutably. What runs concurrently is *several handles over one store*
(a second process, a restarted one, a reader opening while a writer appends),
and everything can stop between two store calls. One exception: reads need only
a shared borrow, so several threads may read through one handle and share its
cache of verified tiles.

**What is hard here**

* An append is many store calls and one linearisation point, the commit record.
  Everything beyond the committed size is garbage at paths the next append
  reuses.
* The commit record is protected by reading it and later writing it; only the
  backend's writer lock, or nothing, makes that exclusive.
* A store call may take effect and still report an error; the handle then holds
  a view that is behind the log.
* `open` reads the commit record first and the tiles afterwards, and may rewrite
  tiles (`recover`) without holding the lock.
* The sequencer's chain state runs ahead of the log while a batch is judged, is
  rolled back by replaying the log, and the replay can itself fail.
* `FsStore::put` has to make a rename, and the directories above it, survive a
  power loss, under a temporary name that nobody else may hold.
* A read checks a tile against a hash that may itself lie in a stored tile, in
  several store calls between which files change, and remembers the tiles it
  verified in a cache that other threads use and appends outdate.
* Proofs are built by loops over stored tiles and checked by loops over the bits
  of an index; a verifier must accept every honest one and no other.
* A quorum is counted over lines that come in any order, with aliases.
* Canonical text must parse to what it was written from, whatever escapes the
  original used.

`PROJECT.json` lists every hazard at its line (`hazards`) with the property that
would catch it.

**What makes each part correct**

* blob store: a `put` that returned Ok survives a power loss, but for directories
  that are known not to be synced, and published its own bytes.
* tile log: the commit record always points at entries that are there and are
  the committed ones; a handle only answers from committed entries; an
  acknowledged append is never lost or replaced; a wrong tile is never accepted;
  the whole is one append-only log.
* read side: no answer but the committed one; no failure without damage.
* chain and sequencer: the durable log obeys the chain rules as a whole; what a
  client was told stays true; what is shown between calls is the durable state;
  a log that was written can be opened; a client that retries gets its answer.
* Merkle proofs and checkpoints: a proof verifies exactly when the claim is
  true; a quorum counts distinct witnesses, and an accepted checkpoint was issued.
* canonical JSON: canonical text is a fixed point with keys in UTF-16 order, and
  both ways in agree.

## 2. Modules

| module | models | status |
| --- | --- | --- |
| `AppendLog` | abstract: one log that only grows, and each handle's view of it | written |
| `TileLog` | the tile log over a blob store: open, recovery, append, commit | written |
| `TileLogProofs` | theorems about `TileLog`: the committed log, its files, and that it implements `AppendLog` | written |
| `TileRead` | entries, scans and stored hashes through verified tiles and the cache | written |
| `Chain` | chain rules: `check`, `commit`, and what a chained log is | written |
| `Sequencer` | the sequencer, over `AppendLog` | written |
| `SequencerLive` | sequencers, the writer lock, finitely many faults, retrying clients | written |
| `FsStore` | `FsStore::new` and `put` down to temporary names, directory syncs and power losses | written |
| `Merkle` | inclusion and consistency proofs, from leaves and from tiles | written |
| `Checkpoint` | notes, signers, quorum, origin binding | written |
| `Canonical` | the strict JSON parser and the canonical writer | written |
| `MC*` | instances for TLC | written |
| `SequencerProofs` | lemmas about the chain rules, theorems about `Sequencer` and `SequencerLive` | written |
| `FsStoreProofs` | theorems about `FsStore` | written |
| `TileReadProofs` | theorems about `TileRead` | written |
| `CheckpointProofs` | theorems about `Checkpoint` | written |
| `MerkleProofs` | theorems about `Merkle` | written |
| `CanonicalProofs` | theorems about `Canonical` | written |
| `SequenceLemmas` | lemmas about sequences, recursive functions and induction that the others cite | written |

The composition is by refinement: `TileLog` implements `AppendLog` (checked by
TLC, proved in `TileLogProofs`), and `Sequencer` performs its appends with
the actions of `AppendLog` (`INSTANCE`). The three outcomes a sequencer's append
can have are therefore exactly those the tile log can produce. `SequencerLive`
adds the writer lock, which the tile log takes in its first append. `TileRead`
takes the committed log of one handle as given: that it is the committed one is
what `TileLog` shows.

What the proofs are about is written so that they can be: recursion over data is
a recursive function (`OpenIntents` in `Chain`, the loops over lines and signers
in `Checkpoint`, `Stored` in `TileRead`, trees, provers and verifiers in `Merkle`, one
function per level of nesting in `Canonical`), and `TileRead` takes the powers of the
tile width as a constant `Span`, whose assumption is the recurrence
`Span[l] = W * Span[l - 1]` (the runs give it `W^l`).

### TileLog

| TLA+ | code |
| --- | --- |
| `files` | bundles and tiles in the store, by path |
| `commit` | `meta/commit` |
| `lock` | the `LOCK` file (`lock_writer`) |
| `leaves[h]` | `size`, `edge` and `entry_edge` of a handle |
| `seen[h]` | the handle's `commit` field |
| `next[h]`, `todo[h]` | what a running append or recovery writes, and the puts it has left |
| `damaged`, `acked` | history: tiles the environment changed; the longest acknowledged log |
| `Open`, `LoadTiles`, `StartRecovery`, `FinishRecovery` | `open`, `scan_size`, `load_edges`, `edge0_matches_bundle`, `recover` |
| `BeginAppend`, `RefuseAppend`, `Pin`, `PutFile`, `CheckCommit`, `Commit` | `append_batch`, `push_hash`, `put_edges`, `write_commit`, one action per store call |
| `CommitUnknown`, `FailAppend`, `Close` | a call that takes effect and fails, one that fails, a handle that dies or is dropped |

A Merkle root stands for the entries below it (hashes are collision free), so a
commit record is the committed log and a tile is the slice of the log it covers.
An entry's byte framing is left out. All reads of an `open` after the commit
record are one step. `dirty` only selects the wording of an error and is left
out. An append that does not get the lock changes nothing and is not a step.

### Chain and Sequencer

A statement is a record; its id stands for its hash. An envelope is a name for
COSE bytes, and `sealed` says what it carries: the statement, the kid, the
signing key, the form (well formed, oversize, not canonical) and the claims.

| TLA+ | code |
| --- | --- |
| `chain`, `by_leaf`, `poisoned`, `registry` | the fields of `Sequencer` |
| `batch`, `answers`, `accepted` | `submit_batch`'s argument, `results` with `in_batch_dups` (an answer waits for a slot of `accepted`), `accepted` with `pending` |
| `fresh`, `purpose` | a running `rebuild` and its caller: `open`, the healing of a poisoned sequencer, the undoing of a failed batch |
| `AnswerDuplicate`, `AnswerPending`, `Accept`, `Reject` | one turn of the loop over the batch |
| `AppendDurably`, `AppendFails`, `AppendIndeterminate` | `append_batch` returns Ok; returns Err without, with effect |
| `ReplayEntry`, `FinishReplay`, `FailReplay` | `rebuild`, entry by entry, and what each caller does with its result |

`acked` is a history of every registration a client was given. Signing a
checkpoint reads the log's size and root and changes nothing; it is not an action.

### FsStore

The content of a file is the number of renames that made it. `maybe[p]` is the
set of contents a power loss may leave of a directory entry: a rename or a
`mkdir` adds one, `sync_dir` leaves only the visible one. `acked[f]` is the
latest content for which a `put` returned Ok. A temporary file is known by its
name: the process id, the process's counter (`TMP_COUNTER`) and the destination;
`temp` says who created it and whether its bytes are synced. `Create`, `Write`,
`Rename`, `SyncDir`, `SyncParent` are the calls of one `put`; `Kill` ends a
process, which comes back with the same id and its counter at zero, and leaves
its temporary files.

A process opens the store before it puts: `MakeRoot` is the `create_dir_all` of
`FsStore::new`, one directory at a time, `New` its return (`opened`). Nothing syncs
a root made there into its parent: `new` does not, and the walk in `put` stops at the
root (`Missing`). `orphans` is a history of the directories whose maker has left
them unsynced: that root, and what a failed or killed `put` had yet to sync. What a
power loss has left is durable, so it empties `orphans`.

### TileRead

`log` is what the handle answers from; its right edges are in memory and true.
`files` are the full bundles and full hash tiles; `verified` is the cache.
`reader[t]` is a thread's read:

| TLA+ | code |
| --- | --- |
| `ReadEntries`, `ReadHash` | a call of `entry`, `scan`, `leaf_hash_at` or `stored` |
| `GetBundle` | `bundle`, `parse_bundle` or `bundle_nth` |
| `LoadTile`, `VerifyTile` | `load_full_tile`: the store read, then the look into the cache, up to the parent tile and back |
| `Answer` | the comparison of an entry with its leaf hash; `scan` goes on with the next |
| `Grow`, `FailToCommit`, `PutBeyond` | an append, one that fails, and what it leaves beyond the log |
| `StoreFails` | a `get` fails with an I/O error, and the read with it |
| `Damage`, `Repair` | the files change behind the handle's back |

`hit`, `still` and `missed` are history: whether a file the read depends on was
bad at any time, and whether one was bad all the time. A read that meets damage
(`StoreError::Corrupt`) leaves a failed `reader[t]`, one whose store call failed
(`StoreError::Io`) just ends. `scan`'s callback does not fail.

### Merkle

Hashes are symbolic: a leaf is a 1-tuple, a node a pair. `Root`,
`InclusionProof` and `ConsistencyProof` are vc-log's recursions over the leaves,
`RootAt`, `TiledInclusionProof` and `TiledConsistencyProof` the tile log's loops
over stored hashes, `VerifyInclusion` and `VerifyConsistency` vc-log's
verifiers, with their loops as recursive functions of the place in the path. A
claim is an answer of the log; `Change` alters it on the way to a verifier who
trusts only the root of the tree.

### Checkpoint

A note is a sequence of lines. `IssueCheckpoint` is what `Sequencer::open` and
`checkpoint` put into one (the origin it is opened with, the operator's name and
key); `Cosign` is `sign_line` by a witness; `Change` loses, duplicates, moves or
replaces one line. `VerifyNote` and `VerifyNoteForOrigin` are the verifiers, and
`Got` is the greedy count of the code's loop.

### Canonical

A client sends tokens; `stack` holds the arrays and objects the recursion of
`Parser::value` is in. `Fits` and `FitsString` say which token the parser accepts
where, `Leaf`, `Enter`, `Leave`, `Separate`, `ReadChar` and `EndString` what it does
with it; everything else is an error. `Canonicalize` writes the accepted value,
and `Rereads` parses the text that was written. Characters are classes: a
control character with and without a short escape, the quotation mark, one
whose escape only the parser knows, a letter, one above the surrogates, one
beyond the basic plane. A number's spelling stands for the double it parses to.

What the code computes by recursion over a value is a function for each number of
levels, which takes the values of at most that many (`Values`) and uses the function
one level down: `Written` of `write`, `Accepted` of `from_value`, and for the
properties `Meanings` and `Reversed`. `TextOver` and `AcceptedOver` are the bodies.
`Levels` is one more than the depth limit admits, so that a value too deep, which a
wrong limit would let through, is not outside the domain.

## 3. What the runs check

Passing runs:

| run | instance | question |
| --- | --- | --- |
| `tilelog_writers` | 2 handles, committed store of two entries, lock, one hash tile lost or corrupted at any time | is the commit record always readable, are views committed, is nothing acknowledged lost, is a wrong tile ever accepted, or left behind by a recovery beside a writer, is it an `AppendLog`? |
| `tilelog_legacy` | 1 handle, store without commit record, tiles possibly missing | does the pin keep the content through failed and crashed appends? |
| `tileread_readers` | 2 threads (scans and entries; hashes), 3 entries growing to 4, a bundle, its tile, both, or the tile above damaged | is every answer committed, is the cache true, does a read report damage only where there is some, also when store calls fail? |
| `sequencer_batches` | 1 sequencer, 8 envelopes, 2 registries, any faults | is the log chained, are registrations true, does the visible state equal the log, can the log be reopened? |
| `sequencer_retries` | 2 sequencers, writer lock, 3 envelopes, 2 faults, fairness | the same when views go stale, and does every retrying client get an answer? |
| `fsstore_puts` | 2 writers in one process or two, a new store: creating its root and the directories in it; failures, kills, power losses | does an acknowledged put survive below synced directories, does a put publish its own bytes? |
| `merkle_claims` | tiles of four, 21 entries; answers about up to nine entries changed twice | is every honest proof accepted, do both provers agree, is what is accepted true? |
| `checkpoint_notes` | two logs of one operator, 8 keys, three signatures, one change | is a quorum real, was an accepted checkpoint issued, does every witness with a name and key of its own count? |
| `canonical_texts` | texts of up to 13 tokens, strings of two characters, depth limit 1 | is canonical text a fixed point, in key order, and do both ways in agree? |

Runs that find a violation (each quotes, in `findings`, the sentence it refutes):

* `tilelog_open_race`: an `open` that found no commit record and infers the size
  after another handle pinned the store and put its first bundle serves
  uncommitted entries.
* `fsstore_retry`: a directory left by a failed put is never synced into its
  parent, so a later put that returned Ok can be lost in a power loss. The root is
  durable in this run. (`fsstore_puts` states durability with these directories
  and a root that is as `FsStore::new` made it left out.)
* `tileread_audit`: `verify_integrity` promises a deep audit (`tilelog.rs:530`), but
  it is a scan, and a scan does not look at the tile above one whose digest is in
  the cache: a second audit by the same handle returns Ok although a level-1
  tile is lost.

Four more observations that have no run of their own. `FsStore::new` makes the
root (`store.rs:75`) and nothing syncs it into its parent, so in a new store a
power loss can take the root and everything that was put, although `store.rs:10`
says "Durably" of `put`: `fsstore_retry` with `InitDirs <- NoDirs` shows it.
`TileLog` and `SequencerLive` take a `put` that returned as durable, so what
they say of power losses is for a store whose root has been synced, or has
outlived one. With `Locking = FALSE` in `TileLogWriters.cfg` (a backend with the
default `lock_writer`), TLC finds `CommittedReadable` violated: the fence and
the compare before the commit are each a read followed later by a write, two
writers pass both, and one overwrites a bundle the other committed;
`store.rs:16` calls this a compare-and-swap. The comment at
`vc-seq/src/lib.rs:350` says that nothing became durable when an append fails;
with an indeterminate commit it did, and the safety properties survive that
(`AppendIndeterminate` is a step of both sequencer runs). The comment at
`checkpoint.rs:170` says that a quorum is counted by key, not by name; the count
goes by both, so two witnesses of one name count once, and a third that shares
its key with the second not at all. `QuorumIsExact` says what is left of it: a
signer who shares neither name nor key with another always counts.

**Bounds.** `TileLog`: tiles of two, three hash levels and at most four entries:
the log crosses a bundle boundary twice, fills tiles of two levels at once, and
has empty and non-empty edges at every level. `tilelog_legacy` appends batches
of two, which fill a bundle in the middle of a batch. A damaged tile is lost,
malformed or holds hashes of the entries in `Garbage`, one of the two here and
any set in the proofs. Two handles give every pairwise interleaving; a third is
a handle closed and opened again. `TileRead` has the same tree; the fourth entry
completes the second bundle, its tile and the tile above, so hashes move from
the edge to a stored tile under a warm cache. The statement universe breaks each
chain rule in some reachable state, and all but the sequence number (which goes
with a wrong `prev`) alone; it is finite and each statement enters the log at
most once, so the sequencer's log needs no bound. `FsStore` has a root, two
directories below it and a file in them: a put that makes both, one that finds
both there, and one that finds the upper one. `MaxPuts` (two renames of a file)
allows an old content and an overwriting one; `MaxNames` (two per life of a
process) lets a restarted process meet the name its predecessor left. `Merkle`
asks about every index and every pair of sizes up to 21, which has powers of
two, their neighbours and three stored levels; changed answers stop at nine
entries. Two changes suffice to alter a hash and the index, or to cut one and
add another. `Canonical`'s 13 tokens are the shortest text with two keys of one
character, or of none and two; a letter behaves as the unescaped slash and the
character above the surrogates, and is left out. Symmetry is used for handles
and writers only, in runs without fairness.

**Fairness.** Only `sequencer_retries` assumes any. Weak fairness on
`Proceed`: a call that runs takes its next step, it is straight-line synchronous
code. Strong fairness on `Reopen`: someone opens a closed sequencer and, between
two calls, drops one that answers Conflict, whose message says "reopen the log".
The code does not reopen by itself: without that operator a sequencer after an
indeterminate commit refuses every append for good, and if it holds the writer
lock so does every other one. Strong fairness on `Ask` of each single statement
of `Retried`: its client submits it to every sequencer until it is answered. The
store fails, or a process dies, at most `MaxFaults` times.

**Mutants.** For every property of every passing run `PROJECT.json` names a
plausible bug (an operator next to the definition it replaces, marked
`Mutant:`) under which TLC finds the property violated.

## 4. What is proved

Each theorem holds for every value of the constants that the `ASSUME`s of its
module admit: sets of any size, logs, batches and tiles of any length. Bounds such
as `MaxSize` or `MaxPuts` are arbitrary there.

### The tile log (`TileLogProofs`)

Under `CleanStart` (the lock excludes other writers, and a store that starts
without commit record is empty): `TypeCorrect`, `CommitIsReadable`,
`AckedIsCommitted`, `OnlyGrows` and `OpenAlwaysSucceeds`.

The argument is the inductive invariant `IndInv` (`Invariance`). That
the committed bundles stay readable is not inductive by itself; it needs

* `LockHeld`, `Fenced`: a handle in the middle of an append holds the lock, and
  what it has seen is the commit record;
* `ViewIsSeen`, `SeenIsCommitted`: what a handle answers from is what it has
  seen, and that is a prefix of the committed log;
* `AppendsAsPlanned`: every bundle of the log being written either is one the
  committed log has too, or is still to be put, or was put and is right, so at
  the commit, when none is left, the new log is readable (`GrownReadable`);
* `RecoversAsPlanned`: a recovery, which holds no lock, writes no bundle;
* `NothingYet`: a new store is empty until it is pinned.

The arithmetic lemmas (`CoversPath`, `CoversFacts`, `BundlePuts`, `SlicePrefix`)
say that a file of a log lies within that log, and that an append never puts a
bundle at a path of the committed log: a bundle becoming full has
another width than the partial one it continues.

`OpenAlwaysSucceeds` adds `SeenReadable` (every record some handle has read, not
just the last one, has its bundles) and `RebuildsSeen` (a recovery writes the
record it has read).

Under `CommittedStart` (lock; a commit record exists):

* `ViewsAreCommitted`: views are prefixes of the log.
* `CommittedTilesAreTrue`, with `TilesAsPlanned`: each hash tile of the log a
  handle is writing has been put and is right, or is still to be put, or is one
  of the committed log. Two handles write the same tile at once when one
  recovers beside an appending one; `WritersAgree` and `SameSlice` show that
  they write the same bytes. Without a commit record this argument is not
  available (a handle that saw none may recover from an inferred size), so
  `tilelog_legacy` does not state it either.
* `Refinement`: every behaviour of `TileLog` is one of `AppendLog`, by
  simulation: `Commit` is `AppendBatch`, `CommitUnknown` is
  `AppendUnacknowledged`, `Open` and `Close` are themselves and every other step
  stutters.

### The sequencer (`SequencerProofs`)

Under the assumptions of `Chain` and `Sequencer` only (an envelope carries one
statement, envelopes with the same statement id carry the same statement, as the id
is its hash, and a registry maps kids to issuers): `TypeCorrect`, `ChainedLog`,
`NoRepeats`, `TrueRegistrations`, `DurableLiveState`, `ReplayableLog`.

`IInv` (`Invariance`) says of the log that it is sound (`LogIsSound`), of clients
that their registrations hold, and of every sequencer:

* `ViewIsPrefix`: its tile log is a prefix of the durable one;
* `LiveStateIsAhead`: its chain state is the one of its view followed by what it
  has accepted in this batch, and its index that of its view;
* `ReplayIsExact`: a running rebuild has the state of what it has read so far;
* `CallIsClean`, `AnswersAreTrue`: nothing is left between calls; an answer waiting
  for a slot of the batch names a statement of the view or a slot of the batch.

The chain lemmas are what the code's incremental `check` and `commit` are worth:
`SoundPrefix` (a prefix of a sound log is sound), `PassedIsSound` (a statement
that passes `check` extends a sound log to a sound one), `SoundPasses` (so a
replay never refuses), `CommitReflects` (`commit` keeps the state that of the log).
What `OpenIntents` and the others compute along a log is shown by induction over
its length.

`LiveIsSequencer` shows that `SequencerLive` implements `Sequencer`, so
`LiveIsSafe`: the safety properties hold in the liveness run's specification.

### The store (`FsStoreProofs`)

`OwnBytes`, under `UniquePids` (processes over one store have different process
ids): with `NamesInv`, a temporary name in use was made up by this life of its
process, so no two puts have the same one, and what lies there is the put's own
file. `AckedIsDurable` needs no such assumption: `DurableInv` follows a put's
directories (the missing ones are noted before they are made, and a visible one is
durable, or some put has yet to sync it, or gave it up, or `new` made it) and what a
power loss may leave of the file after `Rename` and after `SyncDir`; a put runs only
where the root is there (`RootIsMade`). `AckedIsDurableInOldRoot`: with
`RootDirs \subseteq InitDirs`, the root is never among the exceptions.

### The read side (`TileReadProofs`)

`TypeCorrect`, `AnswersCommitted`, `TrueCache`, `FailuresAreDamage`, for any set of
threads, and whatever sets of files may be damaged. The inductive invariant `Inv` is

* `FilesOK`: a file that is not damaged is there and right;
* `VerifiedTilesTrue`: the cache is true;
* `ReaderOK` of every thread: the tiles it has loaded are those above the wanted hash,
  each right or the damage noted (`TilesTrue`); once its last tile is trusted that
  tile is right although it may have been damaged (`LastTrue`); what it has given
  out is in the log (`GotTrue`); a damaged file it depends on is noted (`HitTrue`).

The tree lemmas carry it: `StoredKept` and `FilesKept` (a longer log has the hashes
and full files of a shorter one, at every level), `DivDiv` (the tile above the tile
above is found by dividing twice), `NextTileFull` (the tile above is a full one until
the edge), `ParentTrue` (the hash a tile is compared with is the tree's), and
`GivenIsTrue` (the entries given out before the first mismatch are the log's).

### Checkpoints (`CheckpointProofs`)

`TypeCorrect`, `QuorumNeverInflated`, `QuorumCountsAll`, and `NoForeignCheckpoint` under
`OperatorIsAlone` (no witness signs with the operator's key under the operator's
name; `MCCheckpoint` assumes it, so TLC evaluates it). `IInv`: a line carries a
signature that was made, whatever was done to the note (`SignaturesAreMade`,
`LinesWereSigned`), an issued text has a one-line origin (`IssuedAreCarried`), and an
unchanged note starts with it (`FreshNote`). `ValidSignersAre`, `GotIsReal` and
`ApartCount` say what the two loops compute: every key with a valid line, once; no
more than there are witnesses told apart by name and by key; and all who share neither
with another, whatever the others use up.

### Merkle proofs (`MerkleProofs`)

`ClaimsAreFormed`, `InclusionSound`, `ConsistencySound`, `TilesAnswerAsTheTree` and
`HonestProofs`, for a log of any size, tiles of any height, and paths of any length
with any hashes in them; that hashes are collision free is how they are written.
The inductive invariant is `ClaimOK`; everything else is about what the functions
compute, by induction over sizes, levels and places.

* *Levels.* `Up(x, j)` is the position of x's node at level j, `NodeAt(n, j, p)` the
  hash of that node in the tree of n entries. `LeftParent`, `RightParent` and
  `AloneSame` give a node's hash from its children: two, or one alone, which
  keeps its hash. `SplitIs` is the only fact about the largest power of two below n
  that is used.
* *Soundness.* A verifier's state is at a level (`InclusionAt`, `ConsistencyAt`: both
  positions are those of that level), and a step takes it up by one, or past all
  levels where the last node is alone (`InclusionMove`, `ConsistencyMove`). Since a
  node's hash determines its children's, a path that ends with the root's hash had the
  right hash at every level (`InclusionBack`, `ConsistencyBack`), hence at the first:
  `InclusionIsSound` ends at the leaf, `ConsistencyIsSound` at the last perfect subtree
  of the smaller tree, which starts both roots.
* *Tiles.* `StoredHash`, `SubtreeHash` and `RangeIsRoots` show that hashes stored every
  `H` levels, and put together from there, are the roots of the slices they stand for;
  `PathsAgree` that a walk which collects siblings from the root down and is reversed
  gives what the recursion appends on its way back.
* *Completeness.* The recursion stops at slices that are nodes on the way from a leaf
  to the root (`PartUp`), so one level up the path grows by the sibling that the
  verifier takes next, or by nothing where the node is alone (`ArrivesUp`,
  `PathVerifies`). A consistency proof starts at the node of level
  `TrailingZeros(m)`; no slice above it ends at m (`BorderBelow`), and the hash the
  verifier starts from is that node's (`BorderArrives`), also at a power of two, where
  the code takes the first root for it.

### Canonical JSON (`CanonicalProofs`)

`CanonicalTypeOK`, `WaysInAgree`, `CanonicalFormIsFixed` and `CanonicalKeysAscend`, for
texts and strings of any length and any depth limit. `CanonicalAssumption` says which
classes of characters there are and that one beyond the basic plane is among them:
two escapes spell one in any text.

* *Functions of values.* `LevelsExist` shows, level by level, that the functions of
  `Values` are what their definitions say.
* *Keys.* UTF-16 units order strings strictly and totally (`PrecedesOrders`,
  `Utf16Injective`, `OrderIs`), so different keys have one ascending arrangement
  (`SortExists`, `AscendingIsUnique`). From that: members in another order are written
  alike (`ReversedValues`, for `WaysInAgree`), and so is `Canon` of a value, its members
  sorted and -0 made 0, which means the same (`CanonValues`).
* *The parser.* `Inv`: the container at each place of the stack has the items, keys and
  depth that the place allows (`GoodStack`), what is expected next fits the innermost
  one (`ModeInv`), what was accepted passes `from_value` (`ValueInv`), and the text read
  again is what was written of the value sent (`TextInv`).
* *Reading back.* The fixed point is not inductive as it stands: in the middle of a
  canonical text one has to know what the rest will do. `RereadInv` says that the parser
  is on a run of accepted tokens which leads from the start, through the text, to
  the canonical value, with ascending keys in every container on the way (`Fine`). That
  there is such a run is `ReadsLevels`, by induction over levels: from any place where
  a value may begin and the depth admits it, the parser reads what was written of
  a value and has its canonical value (`ReadsString` through every escape, `ReadsPart`
  from one member to the next, `ReadsCompound`). A step is determined by its token
  (`MovesIs`), so the parser follows the run.

### Only model-checked

* `RetriesSettle`: liveness under fairness.
* `TileLog` on stores that start without commit record but with entries
  (`tilelog_legacy`).
* The three runs that find a violation.

## 5. Not modelled

* CBOR, COSE_Sign1 and Ed25519 (`vc-cose`): pure conversions and library calls. The
  sequencer sees their verdict. Hashes are collision free.
* The grammar of JSON numbers and the three literals, character by character;
  the shortest spelling of a double (a library's).
* `is_split_view` compares three fields of two checkpoints; base64 and the bytes
  of a signature line are abstracted.
* serde_json, which parses a submission once more (`vc-seq/src/lib.rs:219`), with a
  recursion limit of its own: it refuses a little less depth than `canonicalize_str`
  admits, so the deepest canonical texts are refused at submission as not canonical.
  `EntriesAgree` compares the strict parser with `from_value` only, on the value the
  parser built.
* What lies above the first component of `Root` in `FsStore` is there and durable.
* `MemStore`: a map behind a mutex for tests.
* Processes in different pid namespaces that share a store: `fsstore_puts` gives
  processes different ids. With one id for both, a put that fails because its
  temporary name is taken removes the other one's file, and
  `PublishesOwnBytes` does not hold.
* A level-1 or higher edge tile of a store without commit record is compared
  with nothing by the code; `TileLog` has such tiles missing, not wrong.
* The generators under `tools/` and the skeleton crates.

## 6. Plan

1. *(done)* `TileLog`, its proofs and refinement; `Chain`, `Sequencer`, `FsStore`.
2. *(done)* `TileRead`, `Merkle`, `Checkpoint`, `Canonical`; temporary names in
   `FsStore`; the writer lock in `SequencerLive`.
3. *(done)* Proofs of every invariant that `TileLog`, `Sequencer`, `FsStore`, `TileRead`
   and `Checkpoint` are checked for, and of `ContentGrows` and `ImplementsAppendLog`.
4. *(done)* `Merkle` and `Canonical` with recursive functions instead of `RECURSIVE`
   operators, and proofs of all they are checked for: every safety invariant of a passing
   run is a theorem now.
5. `Sequencer` as an implementation of `AppendLog`: its log and views.
6. A composition in which witnesses cosign the checkpoints of a sequencer that
   stops and reopens.
