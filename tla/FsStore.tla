------------------------------ MODULE FsStore ------------------------------
(***************************************************************************)
(* FsStore of vc-store (store.rs).  new makes the root directory.  put     *)
(* writes a temporary file, fsyncs it, renames it over the destination,    *)
(* fsyncs the directory and the parents of the directories it created.     *)
(*                                                                         *)
(* A path is the sequence of its components; what is above the first one   *)
(* exists and is durable.  The content of a file is the number of renames  *)
(* that made it (0: it does not exist); a directory is 1 when it exists.   *)
(* What a power loss leaves of a directory entry is any of the contents it *)
(* had since its directory was last synced, and nothing is left below a    *)
(* directory that is lost.  (The bytes of the temporary file are synced    *)
(* before the rename, so an entry never leads to a torn file.)  A temporary *)
(* file is known by its name; an open one stays the writer's when its name *)
(* is removed or taken over.                                               *)
(***************************************************************************)
EXTENDS Integers, Sequences, SequencesExt, FiniteSets

CONSTANTS
  Writer,    \* threads that put
  Process,   \* the processes they are threads of
  Pid,       \* Pid[p]: its process id, also after a restart
  Root,      \* the store's root directory
  File,      \* paths that are put
  InitDirs,  \* directories that exist, durably, at the start
  MaxPuts,   \* bound: renames of one file
  MaxNames   \* bound: temporary names one process makes up

Ancestors(p) == {SubSeq(p, 1, k) : k \in 1..(Len(p) - 1)}
RootDirs == Ancestors(Root) \cup {Root}
Dir == RootDirs \cup UNION {Ancestors(f) : f \in File}
Entries == File \cup Dir
None == <<>>

ASSUME FsAssumption ==
  /\ Root \in Seq(ToSet(Root)) /\ Len(Root) > 0
  /\ \A f \in File : f \in Seq(ToSet(f)) /\ Root \in Ancestors(f)
  /\ File \cap Dir = {}
  /\ InitDirs \subseteq Dir /\ \A d \in InitDirs : Ancestors(d) \subseteq InitDirs
  /\ DOMAIN Pid = Process /\ MaxPuts \in Nat /\ MaxNames \in Nat

VARIABLES
  visible,   \* the content of every file and directory
  maybe,     \* the contents a power loss may leave of it
  temp,      \* the temporary files: who created it, and is it whole?
  process,   \* the process of each writer
  counter,   \* TMP_COUNTER of each process
  opened,    \* the processes whose FsStore::new has returned
  pc,        \* where each writer is in its put
  target,    \* the path it puts
  created,   \* the directories it found missing and has not synced yet
  name,      \* its temporary file
  version,   \* the content its rename made
  acked,     \* history: the latest content a put returned Ok for
  orphans    \* history: directories whose maker has left them unsynced

vars == <<visible, maybe, temp, process, counter, opened, pc, target, created, name,
          version, acked, orphans>>
entries == <<visible, maybe>>
names == <<temp, process, counter, opened, name>>
history == <<acked, orphans>>

Init ==
  /\ visible = [p \in Entries |-> IF p \in InitDirs THEN 1 ELSE 0]
  /\ maybe = [p \in Entries |-> {visible[p]}]
  /\ temp = [n \in {} |-> 0]
  /\ process \in [Writer -> Process]
  /\ counter = [p \in Process |-> 0]
  /\ opened = {}
  /\ pc = [w \in Writer |-> "idle"]
  /\ target = [w \in Writer |-> None]
  /\ created = [w \in Writer |-> {}]
  /\ name = [w \in Writer |-> None]
  /\ version = [w \in Writer |-> 0]
  /\ acked = [f \in File |-> 0]
  /\ orphans = {}

----------------------------------------------------------------------------

\* create_dir_all makes one directory, the topmost of those that are missing.
MakeTopmost(missing) ==
  \E d \in missing :
    /\ Ancestors(d) \cap missing = {}
    /\ visible' = [visible EXCEPT ![d] = 1]
    /\ maybe' = [maybe EXCEPT ![d] = @ \cup {1}]

\* FsStore::new makes the root, and what is missing above it.  Neither new nor any
\* put syncs these into their parents.
MakeRoot(p) ==
  /\ p \notin opened
  /\ MakeTopmost({d \in RootDirs : visible[d] = 0})
  /\ orphans' = orphans \cup {d \in RootDirs : visible'[d] # visible[d]}
  /\ UNCHANGED <<names, pc, target, created, version, acked>>

\* new returns.
New(p) ==
  /\ p \notin opened
  /\ \A d \in RootDirs : visible[d] = 1
  /\ opened' = opened \cup {p}
  /\ UNCHANGED <<entries, temp, process, counter, name, pc, target, created, version,
                 history>>

\* The directories between the root and a file that do not exist.
Missing(f) == {d \in Ancestors(f) : Len(d) > Len(Root) /\ visible[d] = 0}

\* A put starts: it walks from the destination's directory up to the first one that
\* exists, at most to the root, and notes those that do not exist yet.
Probe(w, f) ==
  /\ pc[w] = "idle" /\ process[w] \in opened
  /\ target' = [target EXCEPT ![w] = f]
  /\ created' = [created EXCEPT ![w] = Missing(f)]
  /\ pc' = [pc EXCEPT ![w] = "mkdir"]
  /\ UNCHANGED <<entries, names, version, history>>

\* create_dir_all, one directory at a time.
MakeDir(w) ==
  /\ pc[w] = "mkdir"
  /\ MakeTopmost(Missing(target[w]))
  /\ UNCHANGED <<names, pc, target, created, version, history>>

\* Mutant: the counter is read, not incremented.
CounterStays(w) == UNCHANGED counter

CounterNext(w) == counter' = [counter EXCEPT ![process[w]] = @ + 1]

\* The temporary name of the put (of its file name, in its directory).
NewName(w) == <<Pid[process[w]], counter[process[w]], target[w]>>

WithTemp(n, t) == [m \in DOMAIN temp \cup {n} |-> IF m = n THEN t ELSE temp[m]]
WithoutTemp(n) == [m \in DOMAIN temp \ {n} |-> temp[m]]

\* create_new: the name is this put's alone.
Create(w) ==
  /\ pc[w] = "mkdir" /\ Missing(target[w]) = {}
  /\ counter[process[w]] < MaxNames
  /\ CounterNext(w)
  /\ NewName(w) \notin DOMAIN temp
  /\ temp' = WithTemp(NewName(w), [by |-> w, whole |-> FALSE])
  /\ name' = [name EXCEPT ![w] = NewName(w)]
  /\ pc' = [pc EXCEPT ![w] = "write"]
  /\ UNCHANGED <<entries, process, opened, target, created, version, history>>

\* write_all and sync_all, to the file that was opened.
Write(w) ==
  /\ pc[w] = "write"
  /\ temp' = IF name[w] \in DOMAIN temp /\ temp[name[w]].by = w
             THEN WithTemp(name[w], [by |-> w, whole |-> TRUE])
             ELSE temp
  /\ pc' = [pc EXCEPT ![w] = "rename"]
  /\ UNCHANGED <<entries, process, counter, opened, name, target, created, version, history>>

\* Whatever has the name now becomes the destination.
Rename(w) ==
  /\ pc[w] = "rename" /\ name[w] \in DOMAIN temp
  /\ LET f == target[w] IN
       /\ visible[f] < MaxPuts
       /\ visible' = [visible EXCEPT ![f] = @ + 1]
       /\ maybe' = [maybe EXCEPT ![f] = @ \cup {visible'[f]}]
       /\ version' = [version EXCEPT ![w] = visible'[f]]
  /\ temp' = WithoutTemp(name[w])
  /\ pc' = [pc EXCEPT ![w] = "sync"]
  /\ UNCHANGED <<process, counter, opened, name, target, created, history>>

\* sync_dir: the entries of a directory are now as they are seen.
Sync(d) ==
  maybe' = [p \in Entries |-> IF Front(p) = d THEN {visible[p]} ELSE maybe[p]]

SyncDir(w) ==
  /\ pc[w] = "sync"
  /\ Sync(Front(target[w]))
  /\ pc' = [pc EXCEPT ![w] = "parents"]
  /\ UNCHANGED <<visible, names, target, created, version, history>>

\* Mutant: the created directory is synced instead of its parent.
Itself(d) == d

Parent(d) == Front(d)

\* The parents of the created directories, deepest first.
SyncParent(w) ==
  /\ pc[w] = "parents"
  /\ \E d \in created[w] :
       /\ \A c \in created[w] : Len(c) <= Len(d)
       /\ Sync(Parent(d))
       /\ created' = [created EXCEPT ![w] = @ \ {d}]
  /\ UNCHANGED <<visible, names, pc, target, version, history>>

EndPut(ws) ==
  /\ pc' = [w \in Writer |-> IF w \in ws THEN "idle" ELSE pc[w]]
  /\ target' = [w \in Writer |-> IF w \in ws THEN None ELSE target[w]]
  /\ created' = [w \in Writer |-> IF w \in ws THEN {} ELSE created[w]]
  /\ name' = [w \in Writer |-> IF w \in ws THEN None ELSE name[w]]
  /\ version' = [w \in Writer |-> IF w \in ws THEN 0 ELSE version[w]]

\* put returns Ok.
Done(w) ==
  /\ pc[w] = "parents" /\ created[w] = {}
  /\ acked' = [acked EXCEPT ![target[w]] = IF version[w] > @ THEN version[w] ELSE @]
  /\ EndPut({w})
  /\ UNCHANGED <<entries, temp, process, counter, opened, orphans>>

\* The directories these writers leave unsynced behind.
GiveUp(ws) ==
  /\ EndPut(ws)
  /\ orphans' = orphans \cup {d \in UNION {created[w] : w \in ws} : visible[d] = 1}
  /\ UNCHANGED <<entries, process, acked>>

\* A call of the put fails (create_new also because the name is taken): up to
\* the rename the temporary name is removed, whosever it is now, if it can be.
Fail(w) ==
  /\ pc[w] # "idle"
  /\ GiveUp({w})
  /\ UNCHANGED opened
  /\ \/ pc[w] \in {"mkdir", "sync", "parents"} /\ UNCHANGED <<temp, counter>>
     \/ /\ pc[w] = "mkdir" /\ Missing(target[w]) = {}
        /\ counter[process[w]] < MaxNames
        /\ CounterNext(w)
        /\ temp' = WithoutTemp(NewName(w))
     \/ /\ pc[w] \in {"write", "rename"}
        /\ temp' \in {temp, WithoutTemp(name[w])}
        /\ UNCHANGED counter

\* A process is killed and started again.
Kill(p) ==
  /\ GiveUp({w \in Writer : process[w] = p})
  /\ counter' = [counter EXCEPT ![p] = 0]
  /\ opened' = opened \ {p}
  /\ UNCHANGED temp

\* The machine stops: every entry keeps one of its possible contents, and what
\* lies below a lost directory is lost with it.
PowerLoss ==
  /\ \E left \in [Entries -> 0..MaxPuts] :
       /\ \A p \in Entries : left[p] \in maybe[p]
       /\ visible' = [p \in Entries |->
            IF \A d \in Ancestors(p) : left[d] = 1 THEN left[p] ELSE 0]
       /\ maybe' = [p \in Entries |-> {visible'[p]}]
       /\ acked' = [f \in File |->
            IF \A d \in Ancestors(f) : left[d] = 1 THEN acked[f] ELSE 0]
  /\ \E kept \in SUBSET DOMAIN temp :
       /\ \A n \in kept : \A d \in Ancestors(n[3]) : visible'[d] = 1
       /\ temp' = [n \in kept |-> temp[n]]
  /\ EndPut(Writer)
  /\ counter' = [p \in Process |-> 0]
  /\ opened' = {}
  /\ orphans' = {}
  /\ UNCHANGED process

Next ==
  \/ \E w \in Writer :
       \/ \E f \in File : visible[f] < MaxPuts /\ Probe(w, f)
       \/ MakeDir(w) \/ Create(w) \/ Write(w) \/ Rename(w)
       \/ SyncDir(w) \/ SyncParent(w) \/ Done(w) \/ Fail(w)
  \/ \E p \in Process : MakeRoot(p) \/ New(p) \/ Kill(p)
  \/ PowerLoss

Spec == Init /\ [][Next]_vars

----------------------------------------------------------------------------
(* Properties. *)

\* A put that returned Ok is durable (TileStore::put, "Durably and atomically
\* write"): a power loss leaves no content older than an acknowledged one, and
\* does not take the file away with its directory.
DurableBelow(dirs) ==
  \A f \in File : acked[f] > 0 =>
    /\ \A d \in Ancestors(f) \cap dirs : maybe[d] = {1}
    /\ \A v \in maybe[f] : v >= acked[f]

AckedSurvives == DurableBelow(Dir)

\* The same, but for directories that are not synced: those that a put found missing
\* and has yet to sync, or did not, as it failed or died before; and the root, with
\* what is above it, as long as it is as FsStore::new made it.  (A root that was
\* there before, or has outlived a power loss, is no exception.)
AckedSurvivesInSyncedDirs ==
  DurableBelow(Dir \ (orphans \cup UNION {created[w] : w \in Writer}))

\* A rename publishes the bytes its own put has written and synced, all of them:
\* never a file of another thread, of another process or one left behind by a
\* killed process that had the same process id.
PublishesOwnBytes ==
  \A w \in Writer : pc[w] = "rename" /\ name[w] \in DOMAIN temp =>
    temp[name[w]] = [by |-> w, whole |-> TRUE]
=============================================================================
