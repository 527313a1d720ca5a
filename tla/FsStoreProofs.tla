--------------------------- MODULE FsStoreProofs ---------------------------
(***************************************************************************)
(* What FsStore::put keeps in every interleaving of writers, failures,     *)
(* kills and power losses, for every set of files, writers and processes.  *)
(*                                                                         *)
(* Durability needs no assumption on the process ids; that a put publishes *)
(* its own bytes holds where they tell the processes apart (UniquePids).   *)
(***************************************************************************)
EXTENDS FsStore, TLAPS

\* The processes over one store live in one pid namespace.
UniquePids == \A p, q \in Process : Pid[p] = Pid[q] => p = q

Phases == {"idle", "mkdir", "write", "rename", "sync", "parents"}
Opened == {"write", "rename"}

\* Every variable has its type.
TypeOK ==
  /\ visible \in [Entries -> Nat]
  /\ maybe \in [Entries -> SUBSET Nat]
  /\ \A n \in DOMAIN temp : temp[n] \in [by : Writer, whole : BOOLEAN]
  /\ process \in [Writer -> Process]
  /\ counter \in [Process -> Nat]
  /\ opened \subseteq Process
  /\ pc \in [Writer -> Phases]
  /\ target \in [Writer -> File \cup {None}]
  /\ created \in [Writer -> SUBSET Dir]
  /\ DOMAIN name = Writer
  /\ version \in [Writer -> Nat]
  /\ acked \in [File -> Nat]
  /\ \A w \in Writer : pc[w] # "idle" => target[w] \in File

----------------------------------------------------------------------------
(* Names. *)

\* A name that is in use was made up by this life of its process ...
NamesAreOwn ==
  \A w \in Writer : pc[w] \in Opened =>
    \E c \in 0..(counter[process[w]] - 1) : name[w] = <<Pid[process[w]], c, target[w]>>

\* ... so no two writers use one name ...
NamesDiffer ==
  \A v, w \in Writer : pc[v] \in Opened /\ pc[w] \in Opened /\ name[v] = name[w] => v = w

\* ... and what has the name, if anything, is the writer's file.
TempsAreOwn ==
  \A w \in Writer : pc[w] \in Opened /\ name[w] \in DOMAIN temp =>
    /\ temp[name[w]].by = w
    /\ pc[w] = "rename" => temp[name[w]].whole

NamesInv == NamesAreOwn /\ NamesDiffer /\ TempsAreOwn

----------------------------------------------------------------------------
(* Durability. *)

\* What is seen may be left; a directory exists or does not.
EntriesAreSane ==
  /\ \A p \in Entries : visible[p] \in maybe[p]
  /\ \A d \in Dir : maybe[d] \subseteq {0, 1}

\* The directories of a put: the missing ones are noted, and from the creation
\* of the temporary file on there are none.
DirsAreNoted ==
  \A w \in Writer :
    /\ pc[w] = "idle" => created[w] = {}
    /\ created[w] \subseteq Ancestors(target[w])
    /\ pc[w] = "mkdir" => Missing(target[w]) \subseteq created[w]
    /\ pc[w] \notin {"idle", "mkdir"} => \A d \in Ancestors(target[w]) : visible[d] = 1

\* A directory that is seen is durable, unless a put has yet to sync it or gave up.
DirsAreSynced ==
  \A d \in Dir :
    visible[d] = 1 /\ d \notin orphans /\ (\A w \in Writer : d \notin created[w]) =>
      maybe[d] = {1}

\* The file that a put has renamed is there, and once its directory is synced it
\* does not go back behind that.
RenamesStay ==
  \A w \in Writer :
    /\ pc[w] \in {"sync", "parents"} => version[w] <= visible[target[w]]
    /\ pc[w] = "parents" => \A v \in maybe[target[w]] : version[w] <= v

\* So does an acknowledged one, in directories that exist.
AcksStay ==
  \A f \in File : acked[f] > 0 =>
    /\ \A d \in Ancestors(f) : visible[d] = 1
    /\ \A v \in maybe[f] : acked[f] <= v

\* Who puts has opened the store, and then the root is there.
RootIsMade ==
  /\ opened # {} => \A d \in RootDirs : visible[d] = 1
  /\ \A w \in Writer : pc[w] # "idle" => process[w] \in opened

DurableInv == EntriesAreSane /\ DirsAreNoted /\ DirsAreSynced /\ RenamesStay /\ AcksStay

----------------------------------------------------------------------------
(* Paths. *)

\* What lies above a file is a directory, and what lies above that, too.
LEMMA AncestorsFacts ==
  /\ \A f \in File : Ancestors(f) \subseteq Dir
  /\ \A f \in File : \A d \in Ancestors(f) : Ancestors(d) \subseteq Ancestors(f)
  /\ Ancestors(None) = {}
<1>1. \A f \in File : Ancestors(f) \subseteq Dir
  BY DEF Dir
<1>2. ASSUME NEW f \in File, NEW d \in Ancestors(f), NEW e \in Ancestors(d)
      PROVE  e \in Ancestors(f)
  <2>1. PICK k \in 1..(Len(f) - 1) : d = SubSeq(f, 1, k)
    BY <1>2 DEF Ancestors
  <2>2. PICK j \in 1..(Len(d) - 1) : e = SubSeq(d, 1, j)
    BY <1>2 DEF Ancestors
  <2>3. f \in Seq(ToSet(f))
    BY FsAssumption
  <2> HIDE DEF ToSet
  <2>4. Len(f) \in Nat /\ Len(d) = k /\ j \in 1..(k - 1)
    BY <2>1, <2>2, <2>3
  <2>5. e = SubSeq(f, 1, j)
    BY <2>1, <2>2, <2>3, <2>4
  <2> QED BY <2>4, <2>5 DEF Ancestors
<1>3. Ancestors(None) = {}
  BY DEF Ancestors, None
<1> QED BY <1>1, <1>2, <1>3

\* The root is a directory above every file; what is above a file is the root, above
\* the root, or below it.
LEMMA RootFacts ==
  /\ RootDirs \subseteq Dir
  /\ \A f \in File : \A d \in Ancestors(f) : d \in RootDirs \/ Len(d) > Len(Root)
  /\ \A d \in RootDirs : Len(d) <= Len(Root) /\ Ancestors(d) \subseteq RootDirs
<1>1. RootDirs \subseteq Dir
  BY DEF Dir
<1>2. Root \in Seq(ToSet(Root)) /\ Len(Root) \in Nat
  BY FsAssumption
<1>3. ASSUME NEW f \in File, NEW d \in Ancestors(f)
      PROVE  d \in RootDirs \/ Len(d) > Len(Root)
  <2>1. PICK k \in 1..(Len(f) - 1) : d = SubSeq(f, 1, k)
    BY <1>3 DEF Ancestors
  <2>2. f \in Seq(ToSet(f)) /\ Root \in Ancestors(f)
    BY FsAssumption
  <2>3. PICK r \in 1..(Len(f) - 1) : Root = SubSeq(f, 1, r)
    BY <2>2 DEF Ancestors
  <2> HIDE DEF ToSet
  <2>4. Len(d) = k /\ Len(Root) = r
    BY <2>1, <2>2, <2>3
  <2>5. CASE k > r
    BY <2>4, <2>5
  <2>6. CASE k = r
    BY <2>1, <2>3, <2>6 DEF RootDirs
  <2>7. CASE k < r
    <3>1. d = SubSeq(Root, 1, k)
      BY <2>1, <2>2, <2>3, <2>7
    <3>2. k \in 1..(Len(Root) - 1)
      BY <2>4, <2>7
    <3> QED BY <3>1, <3>2 DEF RootDirs, Ancestors
  <2> QED BY <2>5, <2>6, <2>7
<1>4. ASSUME NEW d \in RootDirs PROVE Len(d) <= Len(Root) /\ Ancestors(d) \subseteq RootDirs
  <2>1. CASE d = Root
    BY <1>2, <2>1 DEF RootDirs
  <2>2. CASE d \in Ancestors(Root)
    <3>1. PICK k \in 1..(Len(Root) - 1) : d = SubSeq(Root, 1, k)
      BY <2>2 DEF Ancestors
    <3> HIDE DEF ToSet
    <3>2. Len(d) = k
      BY <1>2, <3>1
    <3>3. ASSUME NEW e \in Ancestors(d) PROVE e \in RootDirs
      <4>1. PICK j \in 1..(Len(d) - 1) : e = SubSeq(d, 1, j)
        BY <3>3 DEF Ancestors
      <4>2. e = SubSeq(Root, 1, j) /\ j \in 1..(Len(Root) - 1)
        BY <1>2, <3>1, <3>2, <4>1
      <4> QED BY <4>2 DEF RootDirs, Ancestors
    <3> QED BY <3>1, <3>2, <3>3
  <2> QED BY <1>4, <2>1, <2>2 DEF RootDirs
<1> QED BY <1>1, <1>3, <1>4

\* Files and directories are entries, and no path is both.
LEMMA EntriesFacts ==
  /\ File \subseteq Entries /\ Dir \subseteq Entries
  /\ \A d \in Dir : d \notin File
  /\ \A f \in File : Missing(f) \subseteq Dir /\ Missing(f) \subseteq Ancestors(f)
  /\ \A f \in File : f # None
BY FsAssumption, AncestorsFacts DEF Entries, Missing

----------------------------------------------------------------------------
(* Types. *)

\* A store starts with its type.
LEMMA InitType == ASSUME Init PROVE TypeOK
<1>1. visible \in [Entries -> Nat] /\ maybe \in [Entries -> SUBSET Nat]
  BY DEF Init
<1> QED BY <1>1 DEF Init, TypeOK, Phases

\* The variables a put's end resets keep their types.
LEMMA EndType ==
  ASSUME TypeOK, NEW ws, EndPut(ws)
  PROVE  /\ pc' \in [Writer -> Phases]
         /\ target' \in [Writer -> File \cup {None}]
         /\ created' \in [Writer -> SUBSET Dir]
         /\ DOMAIN name' = Writer
         /\ version' \in [Writer -> Nat]
         /\ \A w \in Writer : pc'[w] # "idle" => target'[w] \in File
BY DEF TypeOK, EndPut, Phases

\* Adding and removing temporary files.
LEMMA TempType ==
  ASSUME TypeOK, NEW n, NEW t \in [by : Writer, whole : BOOLEAN]
  PROVE  /\ \A m \in DOMAIN WithTemp(n, t) : WithTemp(n, t)[m] \in [by : Writer, whole : BOOLEAN]
         /\ \A m \in DOMAIN WithoutTemp(n) : WithoutTemp(n)[m] \in [by : Writer, whole : BOOLEAN]
BY DEF TypeOK, WithTemp, WithoutTemp

\* A sync notes entries of the directory only.
LEMMA SyncType == ASSUME TypeOK, NEW d, Sync(d) PROVE maybe' \in [Entries -> SUBSET Nat]
BY DEF TypeOK, Sync

\* Making a directory keeps the types.
LEMMA MakeType ==
  ASSUME TypeOK, NEW missing \in SUBSET Entries, MakeTopmost(missing)
  PROVE  visible' \in [Entries -> Nat] /\ maybe' \in [Entries -> SUBSET Nat]
BY DEF TypeOK, MakeTopmost

\* Every step keeps the types.
LEMMA NextType == ASSUME TypeOK, [Next]_vars PROVE TypeOK'
<1> USE DEF entries, names, history
<1>1. CASE UNCHANGED vars
  BY <1>1 DEF vars, TypeOK
<1>2. ASSUME NEW w \in Writer, NEW f \in File, Probe(w, f) PROVE TypeOK'
  BY <1>2, EntriesFacts DEF Probe, TypeOK, Phases
<1>3. ASSUME NEW w \in Writer, MakeDir(w) PROVE TypeOK'
  BY <1>3, EntriesFacts, MakeType DEF MakeDir, TypeOK
<1>4. ASSUME NEW w \in Writer, Create(w) PROVE TypeOK'
  <2>1. temp' = WithTemp(NewName(w), [by |-> w, whole |-> FALSE])
    BY <1>4 DEF Create
  <2>2. \A m \in DOMAIN temp' : temp'[m] \in [by : Writer, whole : BOOLEAN]
    BY <2>1, TempType
  <2>3. counter' \in [Process -> Nat]
    BY <1>4 DEF Create, CounterNext, TypeOK
  <2>4. \A v \in Writer : target'[v] = target[v] /\ (pc[v] # "idle" \/ pc'[v] = "idle")
    BY <1>4 DEF Create, TypeOK
  <2> QED BY <1>4, <2>2, <2>3, <2>4 DEF Create, TypeOK, Phases
<1>5. ASSUME NEW w \in Writer, Write(w) PROVE TypeOK'
  <2>1. \A m \in DOMAIN temp' : temp'[m] \in [by : Writer, whole : BOOLEAN]
    <3>1. CASE temp' = temp
      BY <3>1 DEF TypeOK
    <3>2. CASE temp' = WithTemp(name[w], [by |-> w, whole |-> TRUE])
      BY <3>2, TempType
    <3> QED BY <1>5, <3>1, <3>2 DEF Write
  <2> QED BY <1>5, <2>1 DEF Write, TypeOK, Phases
<1>6. ASSUME NEW w \in Writer, Rename(w) PROVE TypeOK'
  <2>1. \A m \in DOMAIN temp' : temp'[m] \in [by : Writer, whole : BOOLEAN]
    BY <1>6 DEF Rename, WithoutTemp, TypeOK
  <2>2. target[w] \in File
    BY <1>6 DEF Rename, TypeOK
  <2>3. /\ visible' \in [Entries -> Nat] /\ maybe' \in [Entries -> SUBSET Nat]
        /\ version' \in [Writer -> Nat]
    BY <1>6, <2>2, EntriesFacts DEF Rename, TypeOK
  <2> QED BY <1>6, <2>1, <2>3 DEF Rename, TypeOK, Phases
<1>7. ASSUME NEW w \in Writer, SyncDir(w) PROVE TypeOK'
  BY <1>7, SyncType DEF SyncDir, TypeOK, Phases
<1>8. ASSUME NEW w \in Writer, SyncParent(w) PROVE TypeOK'
  BY <1>8, SyncType DEF SyncParent, TypeOK
<1>9. ASSUME NEW w \in Writer, Done(w) PROVE TypeOK'
  BY <1>9, EndType DEF Done, TypeOK
<1>10. ASSUME NEW w \in Writer, Fail(w) PROVE TypeOK'
  <2>1. \A m \in DOMAIN temp' : temp'[m] \in [by : Writer, whole : BOOLEAN]
    BY <1>10 DEF Fail, WithoutTemp, TypeOK
  <2>2. counter' \in [Process -> Nat]
    BY <1>10 DEF Fail, CounterNext, TypeOK
  <2> QED BY <1>10, <2>1, <2>2, EndType DEF Fail, GiveUp, TypeOK
<1>11. ASSUME NEW p \in Process, Kill(p) PROVE TypeOK'
  BY <1>11, EndType DEF Kill, GiveUp, TypeOK
<1>12. ASSUME PowerLoss PROVE TypeOK'
  <2>1. /\ visible' \in [Entries -> Nat] /\ maybe' \in [Entries -> SUBSET Nat]
        /\ acked' \in [File -> Nat]
    <3>1. PICK left \in [Entries -> 0..MaxPuts] :
            /\ visible' = [p \in Entries |->
                 IF \A d \in Ancestors(p) : left[d] = 1 THEN left[p] ELSE 0]
            /\ maybe' = [p \in Entries |-> {visible'[p]}]
            /\ acked' = [f \in File |->
                 IF \A d \in Ancestors(f) : left[d] = 1 THEN acked[f] ELSE 0]
      BY <1>12 DEF PowerLoss
    <3>2. visible' \in [Entries -> Nat] /\ acked' \in [File -> Nat]
      BY <3>1, FsAssumption DEF TypeOK
    <3> QED BY <3>1, <3>2
  <2>2. \A m \in DOMAIN temp' : temp'[m] \in [by : Writer, whole : BOOLEAN]
    BY <1>12 DEF PowerLoss, TypeOK
  <2> QED BY <1>12, <2>1, <2>2, EndType DEF PowerLoss, TypeOK
<1>13. ASSUME NEW p \in Process, MakeRoot(p) PROVE TypeOK'
  <2>1. {d \in RootDirs : visible[d] = 0} \in SUBSET Entries
    BY RootFacts, EntriesFacts
  <2>2. visible' \in [Entries -> Nat] /\ maybe' \in [Entries -> SUBSET Nat]
    BY <1>13, <2>1, MakeType DEF MakeRoot
  <2> QED BY <1>13, <2>2 DEF MakeRoot, TypeOK
<1>14. ASSUME NEW p \in Process, New(p) PROVE TypeOK'
  BY <1>14 DEF New, TypeOK
<1> QED
  BY <1>1, <1>2, <1>3, <1>4, <1>5, <1>6, <1>7, <1>8, <1>9, <1>10, <1>11, <1>12, <1>13,
     <1>14 DEF Next

----------------------------------------------------------------------------
(* Temporary names. *)

\* Nothing happens to the names of writers that keep theirs while temporary files
\* only go away and the counters of their processes do not go back.
LEMMA NamesKept ==
  ASSUME TypeOK, NamesInv, process' = process, counter' \in [Process -> Nat],
         \A w \in Writer : pc'[w] \in Opened =>
           /\ pc[w] = pc'[w] /\ name'[w] = name[w] /\ target'[w] = target[w]
           /\ counter[process[w]] <= counter'[process[w]],
         \A n \in DOMAIN temp' : n \in DOMAIN temp /\ temp'[n] = temp[n]
  PROVE  NamesInv'
<1>1. \A w \in Writer : process[w] \in Process /\ counter[process[w]] \in Nat
                       /\ counter'[process[w]] \in Nat
  BY DEF TypeOK
<1>2. NamesAreOwn'
  BY <1>1 DEF NamesInv, NamesAreOwn
<1>3. NamesDiffer'
  BY DEF NamesInv, NamesDiffer
<1>4. TempsAreOwn'
  BY DEF NamesInv, TempsAreOwn
<1> QED BY <1>2, <1>3, <1>4 DEF NamesInv

\* A name that is made up is new to everybody who has one.
LEMMA NameIsNew ==
  ASSUME UniquePids, TypeOK, NamesInv, NEW v \in Writer, NEW w \in Writer, pc[v] \in Opened
  PROVE  name[v] # NewName(w)
<1>1. PICK c \in 0..(counter[process[v]] - 1) : name[v] = <<Pid[process[v]], c, target[v]>>
  BY DEF NamesInv, NamesAreOwn
<1>2. process[v] \in Process /\ process[w] \in Process /\ counter[process[v]] \in Nat
  BY DEF TypeOK
<1>3. ASSUME name[v] = NewName(w) PROVE FALSE
  <2>1. Pid[process[v]] = Pid[process[w]] /\ c = counter[process[w]]
    BY <1>1, <1>3 DEF NewName
  <2>2. process[v] = process[w]
    BY <1>2, <2>1 DEF UniquePids
  <2> QED BY <1>2, <2>1, <2>2
<1> QED BY <1>3

\* create_new on a new name.
LEMMA CreateNames ==
  ASSUME UniquePids, TypeOK, NamesInv, NEW w \in Writer, Create(w)
  PROVE  NamesInv'
<1>1. /\ pc[w] = "mkdir" /\ pc' = [pc EXCEPT ![w] = "write"]
      /\ name' = [name EXCEPT ![w] = NewName(w)]
      /\ temp' = WithTemp(NewName(w), [by |-> w, whole |-> FALSE])
      /\ counter' = [counter EXCEPT ![process[w]] = @ + 1]
      /\ process' = process /\ target' = target
  BY DEF Create, CounterNext
<1>2. \A v \in Writer : process[v] \in Process /\ counter[process[v]] \in Nat
  BY DEF TypeOK
<1>3. \A v \in Writer : v # w => pc'[v] = pc[v] /\ name'[v] = name[v]
  BY <1>1 DEF TypeOK
<1>4. name'[w] = NewName(w) /\ pc'[w] = "write"
  BY <1>1 DEF TypeOK
<1>5. \A v \in Writer : v # w /\ pc'[v] \in Opened => name'[v] # NewName(w)
  BY <1>3, NameIsNew
<1>6. \A v \in Writer : counter[process[v]] <= counter'[process[v]]
  BY <1>1, <1>2 DEF TypeOK
<1>7. counter'[process[w]] = counter[process[w]] + 1
  BY <1>1, <1>2 DEF TypeOK
<1>8. NamesAreOwn'
  <2>1. SUFFICES ASSUME NEW v \in Writer, pc'[v] \in Opened
                 PROVE  \E c \in 0..(counter'[process[v]] - 1) :
                          name'[v] = <<Pid[process[v]], c, target[v]>>
    BY <1>1 DEF NamesAreOwn
  <2>2. CASE v = w
    BY <1>2, <1>4, <1>7, <2>2 DEF NewName
  <2>3. CASE v # w
    <3>1. PICK c \in 0..(counter[process[v]] - 1) : name[v] = <<Pid[process[v]], c, target[v]>>
      BY <1>3, <2>1, <2>3 DEF NamesInv, NamesAreOwn
    <3>2. counter'[process[v]] \in Nat
      BY <1>2, <1>1 DEF TypeOK
    <3>3. c \in 0..(counter'[process[v]] - 1)
      BY <1>2, <1>6, <3>1, <3>2
    <3> QED BY <1>3, <2>3, <3>1, <3>3
  <2> QED BY <2>2, <2>3
<1>9. NamesDiffer'
  BY <1>3, <1>4, <1>5 DEF NamesInv, NamesDiffer
<1>10. TempsAreOwn'
  BY <1>1, <1>3, <1>4, <1>5 DEF NamesInv, TempsAreOwn, WithTemp
<1> QED BY <1>8, <1>9, <1>10 DEF NamesInv

\* A file is written by the put that holds its name.
LEMMA WriteNames ==
  ASSUME TypeOK, NamesInv, NEW w \in Writer, Write(w)
  PROVE  NamesInv'
<1>1. /\ pc[w] = "write" /\ pc' = [pc EXCEPT ![w] = "rename"]
      /\ UNCHANGED <<process, counter, name, target>>
  BY DEF Write
<1>2. \A v \in Writer : pc'[v] \in Opened => pc[v] \in Opened
  BY <1>1 DEF TypeOK, Opened
<1>3. NamesAreOwn' /\ NamesDiffer'
  BY <1>1, <1>2 DEF NamesInv, NamesAreOwn, NamesDiffer
<1>4. TempsAreOwn'
  <2>1. SUFFICES ASSUME NEW v \in Writer, pc'[v] \in Opened, name[v] \in DOMAIN temp'
                 PROVE  /\ temp'[name[v]].by = v
                        /\ pc'[v] = "rename" => temp'[name[v]].whole
    BY <1>1 DEF TempsAreOwn
  <2>2. CASE name[w] \in DOMAIN temp
    <3>1. temp[name[w]].by = w
      BY <1>1, <2>2 DEF NamesInv, TempsAreOwn, Opened
    <3>2. temp' = WithTemp(name[w], [by |-> w, whole |-> TRUE])
      BY <2>2, <3>1 DEF Write
    <3>3. CASE v = w
      BY <3>2, <3>3 DEF WithTemp
    <3>4. CASE v # w
      <4>1. name[v] # name[w]
        BY <1>1, <1>2, <2>1, <3>4 DEF NamesInv, NamesDiffer, Opened
      <4>2. temp'[name[v]] = temp[name[v]] /\ name[v] \in DOMAIN temp
        BY <2>1, <3>2, <4>1 DEF WithTemp
      <4>3. pc'[v] = pc[v]
        BY <1>1, <3>4 DEF TypeOK
      <4> QED BY <1>2, <2>1, <4>2, <4>3 DEF NamesInv, TempsAreOwn
    <3> QED BY <3>3, <3>4
  <2>3. CASE name[w] \notin DOMAIN temp
    <3>1. temp' = temp
      BY <2>3 DEF Write
    <3>2. v # w
      BY <2>1, <2>3, <3>1
    <3>3. pc'[v] = pc[v]
      BY <1>1, <3>2 DEF TypeOK
    <3> QED BY <2>1, <3>1, <3>3 DEF NamesInv, TempsAreOwn
  <2> QED BY <2>2, <2>3
<1> QED BY <1>3, <1>4 DEF NamesInv

\* Every step keeps the names apart.
LEMMA NextNames ==
  ASSUME UniquePids, TypeOK, NamesInv, [Next]_vars
  PROVE  NamesInv'
<1> USE DEF names, entries, history
<1>1. TypeOK' /\ counter' \in [Process -> Nat]
  BY NextType DEF TypeOK
<1>2. CASE UNCHANGED vars
  BY <1>2, NamesKept DEF vars, TypeOK
<1>3. ASSUME NEW w \in Writer,
             \/ (\E f \in File : Probe(w, f)) \/ MakeDir(w) \/ SyncDir(w) \/ SyncParent(w)
      PROVE  NamesInv'
  <2>1. UNCHANGED <<process, counter, name, temp>>
    BY <1>3 DEF Probe, MakeDir, SyncDir, SyncParent
  <2>2. \A v \in Writer : pc'[v] \in Opened => pc[v] = pc'[v] /\ target'[v] = target[v]
    BY <1>3 DEF Probe, MakeDir, SyncDir, SyncParent, TypeOK, Opened
  <2> QED BY <2>1, <2>2, NamesKept DEF TypeOK
<1>4. ASSUME NEW w \in Writer, Create(w) PROVE NamesInv'
  BY <1>4, CreateNames
<1>5. ASSUME NEW w \in Writer, Write(w) PROVE NamesInv'
  BY <1>5, WriteNames
<1>6. ASSUME NEW w \in Writer, Rename(w) PROVE NamesInv'
  <2>1. UNCHANGED <<process, counter, name, target>> /\ temp' = WithoutTemp(name[w])
    BY <1>6 DEF Rename
  <2>2. \A v \in Writer : pc'[v] \in Opened => pc[v] = pc'[v]
    BY <1>6 DEF Rename, TypeOK, Opened
  <2> QED BY <2>1, <2>2, NamesKept DEF WithoutTemp, TypeOK
<1>7. ASSUME NEW ws \in SUBSET Writer, EndPut(ws), process' = process,
             \A w \in Writer \ ws : counter[process[w]] <= counter'[process[w]],
             \A n \in DOMAIN temp' : n \in DOMAIN temp /\ temp'[n] = temp[n]
      PROVE  NamesInv'
  <2>1. \A v \in Writer : pc'[v] \in Opened =>
          v \notin ws /\ pc[v] = pc'[v] /\ name'[v] = name[v] /\ target'[v] = target[v]
    BY <1>7 DEF EndPut, Opened
  <2> QED BY <1>1, <1>7, <2>1, NamesKept
<1>8. ASSUME NEW w \in Writer, Done(w) PROVE NamesInv'
  <2>1. \A v \in Writer : counter[process[v]] <= counter'[process[v]]
    BY <1>8 DEF Done, TypeOK
  <2> QED BY <1>7, <1>8, <2>1 DEF Done
<1>9. ASSUME NEW w \in Writer, Fail(w) PROVE NamesInv'
  <2>1. \A v \in Writer : counter[process[v]] <= counter'[process[v]]
    <3>1. CASE UNCHANGED counter
      BY <3>1 DEF TypeOK
    <3>2. CASE CounterNext(w)
      BY <3>2 DEF CounterNext, TypeOK
    <3> QED BY <1>9, <3>1, <3>2 DEF Fail
  <2>2. \A n \in DOMAIN temp' : n \in DOMAIN temp /\ temp'[n] = temp[n]
    BY <1>9 DEF Fail, WithoutTemp
  <2> QED BY <1>7, <1>9, <2>1, <2>2 DEF Fail, GiveUp
<1>10. ASSUME NEW p \in Process, Kill(p) PROVE NamesInv'
  <2> DEFINE ws == {w \in Writer : process[w] = p}
  <2>1. EndPut(ws) /\ UNCHANGED <<process, temp>> /\ counter' = [counter EXCEPT ![p] = 0]
    BY <1>10 DEF Kill, GiveUp
  <2>2. \A v \in Writer \ ws : counter[process[v]] <= counter'[process[v]]
    BY <2>1 DEF TypeOK
  <2>3. ws \in SUBSET Writer
    OBVIOUS
  <2> HIDE DEF ws
  <2> QED BY <1>7, <2>1, <2>2, <2>3
<1>11. ASSUME PowerLoss PROVE NamesInv'
  BY <1>7, <1>11 DEF PowerLoss
<1>12. ASSUME NEW p \in Process, MakeRoot(p) \/ New(p) PROVE NamesInv'
  <2>1. UNCHANGED <<process, counter, name, temp, pc, target>>
    BY <1>12 DEF MakeRoot, New
  <2> QED BY <2>1, NamesKept DEF TypeOK
<1> QED
  BY <1>2, <1>3, <1>4, <1>5, <1>6, <1>8, <1>9, <1>10, <1>11, <1>12 DEF Next

----------------------------------------------------------------------------
(* Durability. *)

\* A directory is missing or there.
LEMMA DirSeen ==
  ASSUME TypeOK, EntriesAreSane, NEW d \in Dir
  PROVE  visible[d] \in {0, 1}
BY EntriesFacts DEF EntriesAreSane

\* The path of a running put, and the directories above it.
LEMMA TargetFacts ==
  ASSUME TypeOK, NEW w \in Writer
  PROVE  /\ Ancestors(target[w]) \subseteq Dir
         /\ pc[w] # "idle" => target[w] \in File /\ target[w] \in Entries /\ target[w] \notin Dir
BY AncestorsFacts, EntriesFacts DEF TypeOK

\* The existence probe keeps DurableInv.
LEMMA ProbeDurable ==
  ASSUME TypeOK, DurableInv, NEW w \in Writer, NEW f \in File, Probe(w, f)
  PROVE  DurableInv'
<1>1. /\ pc[w] = "idle" /\ pc' = [pc EXCEPT ![w] = "mkdir"]
      /\ target' = [target EXCEPT ![w] = f]
      /\ created' = [created EXCEPT ![w] = Missing(f)]
      /\ UNCHANGED <<visible, maybe, version, acked, orphans>>
  BY DEF Probe, entries, history
<1>2. EntriesAreSane' /\ AcksStay'
  BY <1>1 DEF DurableInv, EntriesAreSane, AcksStay
<1>3. /\ target'[w] = f /\ created'[w] = Missing(f) /\ pc'[w] = "mkdir"
      /\ \A v \in Writer : v # w =>
           target'[v] = target[v] /\ created'[v] = created[v] /\ pc'[v] = pc[v]
  BY <1>1 DEF TypeOK
<1>4. DirsAreNoted'
  BY <1>1, <1>3 DEF DurableInv, DirsAreNoted, Missing
<1>5. DirsAreSynced'
  <2>1. created[w] = {}
    BY <1>1 DEF DurableInv, DirsAreNoted
  <2>2. \A v \in Writer : created[v] \subseteq created'[v]
    BY <1>3, <2>1
  <2> QED BY <1>1, <2>2 DEF DurableInv, DirsAreSynced
<1>6. RenamesStay'
  BY <1>1, <1>3 DEF DurableInv, RenamesStay
<1> QED BY <1>2, <1>4, <1>5, <1>6 DEF DurableInv

\* So does making a directory, but that it must be synced ...
LEMMA MakeDurable ==
  ASSUME TypeOK, DurableInv, NEW d \in Dir,
         visible' = [visible EXCEPT ![d] = 1], maybe' = [maybe EXCEPT ![d] = @ \cup {1}],
         UNCHANGED <<pc, target, created, version, acked>>
  PROVE  /\ EntriesAreSane' /\ DirsAreNoted' /\ RenamesStay' /\ AcksStay'
         /\ visible'[d] = 1
         /\ \A e \in Dir : e # d => visible'[e] = visible[e] /\ maybe'[e] = maybe[e]
<1>1. d \in Entries /\ d \notin File
  BY EntriesFacts
<1>2. /\ visible'[d] = 1 /\ maybe'[d] = maybe[d] \cup {1}
      /\ \A p \in Entries : p # d => visible'[p] = visible[p] /\ maybe'[p] = maybe[p]
  BY <1>1 DEF TypeOK
<1>3. \A e \in Dir : visible[e] = 1 => visible'[e] = 1
  BY <1>2, EntriesFacts
<1>4. \A f \in File : visible'[f] = visible[f] /\ maybe'[f] = maybe[f]
  BY <1>1, <1>2, EntriesFacts
<1>5. EntriesAreSane'
  BY <1>1, <1>2, EntriesFacts DEF DurableInv, EntriesAreSane
<1>6. DirsAreNoted'
  <2>1. SUFFICES ASSUME NEW v \in Writer
                 PROVE  /\ pc[v] = "idle" => created[v] = {}
                        /\ created[v] \subseteq Ancestors(target[v])
                        /\ pc[v] = "mkdir" => Missing(target[v])' \subseteq created[v]
                        /\ pc[v] \notin {"idle", "mkdir"} =>
                             \A e \in Ancestors(target[v]) : visible'[e] = 1
    BY DEF DirsAreNoted
  <2>2. Ancestors(target[v]) \subseteq Dir
    BY TargetFacts
  <2>3. Missing(target[v])' \subseteq Missing(target[v])
    BY <1>2, <2>2, EntriesFacts DEF Missing
  <2> QED BY <1>3, <2>2, <2>3 DEF DurableInv, DirsAreNoted
<1>7. RenamesStay'
  BY <1>4, TargetFacts DEF DurableInv, RenamesStay
<1>8. AcksStay'
  BY <1>3, <1>4, AncestorsFacts DEF DurableInv, AcksStay
<1> QED BY <1>2, <1>5, <1>6, <1>7, <1>8, EntriesFacts

\* ... as a put will do ...
LEMMA MakeDirDurable ==
  ASSUME TypeOK, DurableInv, NEW w \in Writer, MakeDir(w)
  PROVE  DurableInv'
<1>1. PICK d \in Missing(target[w]) :
        visible' = [visible EXCEPT ![d] = 1] /\ maybe' = [maybe EXCEPT ![d] = @ \cup {1}]
  BY DEF MakeDir, MakeTopmost
<1>2. pc[w] = "mkdir" /\ UNCHANGED <<pc, target, created, version, acked, orphans>>
  BY DEF MakeDir, names, history
<1>3. d \in Dir /\ d \in created[w]
  BY <1>1, <1>2, TargetFacts, EntriesFacts DEF Missing, DurableInv, DirsAreNoted
<1>4. /\ EntriesAreSane' /\ DirsAreNoted' /\ RenamesStay' /\ AcksStay'
      /\ \A e \in Dir : e # d => visible'[e] = visible[e] /\ maybe'[e] = maybe[e]
  BY <1>1, <1>2, <1>3, MakeDurable
<1>5. DirsAreSynced'
  BY <1>2, <1>3, <1>4 DEF DurableInv, DirsAreSynced
<1> QED BY <1>4, <1>5 DEF DurableInv

\* ... and FsStore::new will not.
LEMMA MakeRootDurable ==
  ASSUME TypeOK, DurableInv, NEW p \in Process, MakeRoot(p)
  PROVE  DurableInv'
<1>1. PICK d \in {e \in RootDirs : visible[e] = 0} :
        visible' = [visible EXCEPT ![d] = 1] /\ maybe' = [maybe EXCEPT ![d] = @ \cup {1}]
  BY DEF MakeRoot, MakeTopmost
<1>2. /\ UNCHANGED <<pc, target, created, version, acked>>
      /\ orphans' = orphans \cup {e \in RootDirs : visible'[e] # visible[e]}
  BY DEF MakeRoot
<1>3. d \in Dir /\ d \in RootDirs /\ visible[d] = 0
  BY <1>1, RootFacts
<1>4. /\ EntriesAreSane' /\ DirsAreNoted' /\ RenamesStay' /\ AcksStay' /\ visible'[d] = 1
      /\ \A e \in Dir : e # d => visible'[e] = visible[e] /\ maybe'[e] = maybe[e]
  BY <1>1, <1>2, <1>3, MakeDurable
<1>5. d \in orphans'
  BY <1>2, <1>3, <1>4
<1>6. DirsAreSynced'
  BY <1>2, <1>4, <1>5 DEF DurableInv, DirsAreSynced
<1> QED BY <1>4, <1>6 DEF DurableInv

\* The temporary file is created, or written: all directories are there.
LEMMA WriteDurable ==
  ASSUME TypeOK, RootIsMade, DurableInv, NEW w \in Writer, Create(w) \/ Write(w)
  PROVE  DurableInv'
<1>1. /\ UNCHANGED <<visible, maybe, target, created, version, acked, orphans>>
      /\ pc'[w] \in {"write", "rename"} /\ \A v \in Writer : v # w => pc'[v] = pc[v]
      /\ pc[w] = "write" \/ (pc[w] = "mkdir" /\ Missing(target[w]) = {})
  <2>1. CASE Create(w)  BY <2>1 DEF Create, entries, history, TypeOK
  <2>2. CASE Write(w)   BY <2>2 DEF Write, entries, history, TypeOK
  <2> QED BY <2>1, <2>2
<1>2. EntriesAreSane' /\ AcksStay' /\ DirsAreSynced'
  BY <1>1 DEF DurableInv, EntriesAreSane, AcksStay, DirsAreSynced
<1>3. RenamesStay'
  BY <1>1 DEF DurableInv, RenamesStay
<1>4. \A d \in Ancestors(target[w]) : visible[d] = 1
  <2>1. CASE pc[w] = "write"
    BY <2>1 DEF DurableInv, DirsAreNoted
  <2>2. CASE Missing(target[w]) = {}
    <3>1. \A d \in Ancestors(target[w]) : Len(d) > Len(Root) => visible[d] # 0
      BY <2>2 DEF Missing
    <3>2. \A d \in Ancestors(target[w]) : visible[d] \in {0, 1}
      BY TargetFacts, DirSeen DEF DurableInv
    <3>3. \A d \in RootDirs : visible[d] = 1
      BY <1>1 DEF RootIsMade
    <3>4. \A d \in Ancestors(target[w]) : d \in RootDirs \/ Len(d) > Len(Root)
      BY <1>1, TargetFacts, RootFacts
    <3> QED BY <3>1, <3>2, <3>3, <3>4
  <2> QED BY <1>1, <2>1, <2>2
<1>5. DirsAreNoted'
  BY <1>1, <1>4 DEF DurableInv, DirsAreNoted, Missing
<1> QED BY <1>2, <1>3, <1>5 DEF DurableInv

\* ... publishing the blob ...
LEMMA RenameDurable ==
  ASSUME TypeOK, DurableInv, NEW w \in Writer, Rename(w)
  PROVE  DurableInv'
<1> DEFINE f == target[w]
<1>1. /\ pc[w] = "rename" /\ pc' = [pc EXCEPT ![w] = "sync"]
      /\ visible' = [visible EXCEPT ![f] = @ + 1]
      /\ maybe' = [maybe EXCEPT ![f] = @ \cup {visible'[f]}]
      /\ version' = [version EXCEPT ![w] = visible'[f]]
      /\ UNCHANGED <<target, created, acked, orphans>>
  BY DEF Rename, history
<1>2. f \in File /\ f \in Entries /\ f \notin Dir
  BY <1>1, TargetFacts
<1>3. /\ visible'[f] = visible[f] + 1 /\ maybe'[f] = maybe[f] \cup {visible'[f]}
      /\ \A p \in Entries : p # f => visible'[p] = visible[p] /\ maybe'[p] = maybe[p]
      /\ visible[f] \in Nat /\ maybe[f] \subseteq Nat
  BY <1>1, <1>2 DEF TypeOK
<1>4. /\ pc'[w] = "sync" /\ version'[w] = visible'[f]
      /\ \A v \in Writer : v # w => pc'[v] = pc[v] /\ version'[v] = version[v]
  BY <1>1 DEF TypeOK
<1>5. \A d \in Dir : visible'[d] = visible[d] /\ maybe'[d] = maybe[d]
  BY <1>2, <1>3, EntriesFacts
<1> HIDE DEF f
<1>6. EntriesAreSane'
  BY <1>3, <1>5 DEF DurableInv, EntriesAreSane
<1>7. DirsAreNoted'
  <2>1. \A v \in Writer : Missing(target[v])' = Missing(target[v])
    BY <1>1, <1>5, TargetFacts DEF Missing
  <2>2. \A v \in Writer : \A d \in Ancestors(target[v]) : visible'[d] = visible[d]
    BY <1>5, TargetFacts
  <2>3. \A v \in Writer : pc'[v] = pc[v] \/ (pc[v] = "rename" /\ pc'[v] = "sync")
    BY <1>1, <1>4
  <2> QED BY <1>1, <2>1, <2>2, <2>3 DEF DurableInv, DirsAreNoted
<1>8. DirsAreSynced'
  BY <1>1, <1>5 DEF DurableInv, DirsAreSynced
<1>9. RenamesStay'
  <2>1. SUFFICES ASSUME NEW v \in Writer
                 PROVE  /\ pc'[v] \in {"sync", "parents"} => version'[v] <= visible'[target[v]]
                        /\ pc'[v] = "parents" =>
                             \A x \in maybe'[target[v]] : version'[v] <= x
    BY <1>1 DEF RenamesStay
  <2>2. CASE v = w
    BY <1>3, <1>4, <2>2 DEF f
  <2>3. CASE v # w /\ pc[v] \in {"sync", "parents"}
    <3>1. /\ target[v] \in Entries /\ version[v] \in Nat /\ version[v] <= visible[target[v]]
          /\ pc[v] = "parents" => \A x \in maybe[target[v]] : version[v] <= x
      BY <2>3, TargetFacts DEF DurableInv, RenamesStay, TypeOK
    <3>2. CASE target[v] = f
      <4>1. version[v] <= visible'[f]
        BY <1>3, <3>1, <3>2
      <4> QED BY <1>3, <1>4, <2>3, <3>1, <3>2, <4>1
    <3>3. CASE target[v] # f
      BY <1>3, <1>4, <2>3, <3>1, <3>3
    <3> QED BY <3>2, <3>3
  <2> QED BY <1>4, <2>2, <2>3
<1>10. AcksStay'
  <2>1. SUFFICES ASSUME NEW g \in File, acked[g] > 0
                 PROVE  /\ \A d \in Ancestors(g) : visible'[d] = 1
                        /\ \A x \in maybe'[g] : acked[g] <= x
    BY <1>1 DEF AcksStay
  <2>2. /\ \A d \in Ancestors(g) : visible[d] = 1
        /\ \A x \in maybe[g] : acked[g] <= x
    BY <2>1 DEF DurableInv, AcksStay
  <2>3. \A d \in Ancestors(g) : visible'[d] = 1
    BY <1>5, <2>2, AncestorsFacts
  <2>4. acked[g] \in Nat /\ visible[g] \in maybe[g] /\ g \in Entries
    BY EntriesFacts DEF TypeOK, DurableInv, EntriesAreSane
  <2>5. CASE g = f
    BY <1>3, <2>2, <2>3, <2>4, <2>5
  <2>6. CASE g # f
    BY <1>3, <2>2, <2>3, <2>4, <2>6
  <2> QED BY <2>5, <2>6
<1> QED BY <1>6, <1>7, <1>8, <1>9, <1>10 DEF DurableInv

\* A directory is synced: what is seen of its entries is what is left.
LEMMA SyncedEntries ==
  ASSUME TypeOK, DurableInv, NEW d, Sync(d), visible' = visible
  PROVE  /\ \A p \in Entries : maybe'[p] = {visible[p]} \/ maybe'[p] = maybe[p]
         /\ \A p \in Entries : Front(p) = d => maybe'[p] = {visible[p]}
         /\ EntriesAreSane'
         /\ \A e \in Dir : visible[e] = 1 /\ maybe[e] = {1} => maybe'[e] = {1}
         /\ acked' = acked => AcksStay'
<1>1. /\ \A p \in Entries : maybe'[p] = {visible[p]} \/ maybe'[p] = maybe[p]
      /\ \A p \in Entries : Front(p) = d => maybe'[p] = {visible[p]}
  <2> HIDE DEF Front
  <2> QED BY DEF Sync
<1>2. EntriesAreSane'
  BY <1>1, EntriesFacts, DirSeen DEF DurableInv, EntriesAreSane
<1>3. \A e \in Dir : visible[e] = 1 /\ maybe[e] = {1} => maybe'[e] = {1}
  BY <1>1, EntriesFacts
<1>4. ASSUME acked' = acked PROVE AcksStay'
  BY <1>1, <1>4, EntriesFacts DEF DurableInv, EntriesAreSane, AcksStay
<1> QED BY <1>1, <1>2, <1>3, <1>4

\* ... syncing its directory ...
LEMMA SyncDirDurable ==
  ASSUME TypeOK, DurableInv, NEW w \in Writer, SyncDir(w)
  PROVE  DurableInv'
<1>1. /\ pc[w] = "sync" /\ pc' = [pc EXCEPT ![w] = "parents"]
      /\ Sync(Front(target[w]))
      /\ UNCHANGED <<visible, target, created, version, acked, orphans>>
  BY DEF SyncDir, names, history
<1>2. /\ pc'[w] = "parents" /\ \A v \in Writer : v # w => pc'[v] = pc[v]
  BY <1>1 DEF TypeOK
<1>3. /\ \A p \in Entries : maybe'[p] = {visible[p]} \/ maybe'[p] = maybe[p]
      /\ maybe'[target[w]] = {visible[target[w]]}
      /\ EntriesAreSane' /\ AcksStay'
      /\ \A e \in Dir : visible[e] = 1 /\ maybe[e] = {1} => maybe'[e] = {1}
  BY <1>1, SyncedEntries, TargetFacts
<1>4. DirsAreNoted'
  BY <1>1, <1>2 DEF DurableInv, DirsAreNoted, Missing
<1>5. DirsAreSynced'
  BY <1>1, <1>3 DEF DurableInv, DirsAreSynced
<1>6. RenamesStay'
  <2>1. SUFFICES ASSUME NEW v \in Writer
                 PROVE  /\ pc'[v] \in {"sync", "parents"} => version[v] <= visible[target[v]]
                        /\ pc'[v] = "parents" => \A x \in maybe'[target[v]] : version[v] <= x
    BY <1>1 DEF RenamesStay
  <2>2. CASE v = w
    BY <1>1, <1>3, <2>2 DEF DurableInv, RenamesStay
  <2>3. CASE v # w
    BY <1>2, <1>3, <2>3, TargetFacts DEF DurableInv, RenamesStay
  <2> QED BY <2>2, <2>3
<1> QED BY <1>3, <1>4, <1>5, <1>6 DEF DurableInv

\* ... and the parent ...
LEMMA SyncParentDurable ==
  ASSUME TypeOK, DurableInv, NEW w \in Writer, SyncParent(w)
  PROVE  DurableInv'
<1>1. PICK d \in created[w] :
        Sync(Front(d)) /\ created' = [created EXCEPT ![w] = @ \ {d}]
  BY DEF SyncParent, Parent
<1>2. pc[w] = "parents" /\ UNCHANGED <<visible, pc, target, version, acked, orphans>>
  BY DEF SyncParent, names, history
<1>3. /\ created'[w] = created[w] \ {d}
      /\ \A v \in Writer : v # w => created'[v] = created[v]
  BY <1>1 DEF TypeOK
<1>4. d \in Dir /\ d \in Entries /\ visible[d] = 1
  <2>1. d \in Ancestors(target[w])
    BY <1>1 DEF DurableInv, DirsAreNoted
  <2>2. visible[d] = 1
    BY <1>2, <2>1 DEF DurableInv, DirsAreNoted
  <2> QED BY <2>1, <2>2, TargetFacts, EntriesFacts
<1>5. /\ \A p \in Entries : maybe'[p] = {visible[p]} \/ maybe'[p] = maybe[p]
      /\ maybe'[d] = {visible[d]}
      /\ EntriesAreSane' /\ AcksStay'
      /\ \A e \in Dir : visible[e] = 1 /\ maybe[e] = {1} => maybe'[e] = {1}
  BY <1>1, <1>2, <1>4, SyncedEntries
<1>6. DirsAreNoted'
  BY <1>2, <1>3 DEF DurableInv, DirsAreNoted, Missing
<1>7. DirsAreSynced'
  <2>1. SUFFICES ASSUME NEW e \in Dir, visible[e] = 1, e \notin orphans,
                        \A v \in Writer : e \notin created'[v]
                 PROVE  maybe'[e] = {1}
    BY <1>2 DEF DirsAreSynced
  <2>2. CASE e = d
    BY <1>4, <1>5, <2>2
  <2>3. CASE e # d
    <3>1. \A v \in Writer : e \notin created[v]
      BY <1>3, <2>1, <2>3
    <3> QED BY <1>5, <2>1, <3>1 DEF DurableInv, DirsAreSynced
  <2> QED BY <2>2, <2>3
<1>8. RenamesStay'
  BY <1>2, <1>5, TargetFacts DEF DurableInv, RenamesStay
<1> QED BY <1>5, <1>6, <1>7, <1>8 DEF DurableInv

\* A put that ends leaves its path; the directories it has not synced are noted
\* as given up.
LEMMA EndDurable ==
  ASSUME TypeOK, DurableInv, NEW ws \in SUBSET Writer, EndPut(ws),
         visible' = visible, maybe' = maybe,
         \A w \in ws : \A d \in created[w] : visible[d] = 1 => d \in orphans',
         orphans \subseteq orphans'
  PROVE  EntriesAreSane' /\ DirsAreNoted' /\ DirsAreSynced' /\ RenamesStay'
<1>1. /\ \A w \in ws : pc'[w] = "idle" /\ created'[w] = {}
      /\ \A w \in Writer \ ws : /\ pc'[w] = pc[w] /\ created'[w] = created[w]
                                /\ target'[w] = target[w] /\ version'[w] = version[w]
  BY DEF EndPut
<1>2. EntriesAreSane'
  BY DEF DurableInv, EntriesAreSane
<1>3. DirsAreNoted'
  BY <1>1 DEF DurableInv, DirsAreNoted, Missing
<1>4. DirsAreSynced'
  BY <1>1 DEF DurableInv, DirsAreSynced
<1>5. RenamesStay'
  BY <1>1 DEF DurableInv, RenamesStay
<1> QED BY <1>2, <1>3, <1>4, <1>5

\* ... acknowledging the put ...
LEMMA DoneDurable ==
  ASSUME TypeOK, DurableInv, NEW w \in Writer, Done(w)
  PROVE  DurableInv'
<1> DEFINE f == target[w]
<1>1. /\ pc[w] = "parents" /\ created[w] = {} /\ EndPut({w})
      /\ acked' = [acked EXCEPT ![f] = IF version[w] > @ THEN version[w] ELSE @]
      /\ UNCHANGED <<visible, maybe, orphans>>
  BY DEF Done, entries
<1>2. EntriesAreSane' /\ DirsAreNoted' /\ DirsAreSynced' /\ RenamesStay'
  BY <1>1, EndDurable
<1>3. /\ f \in File /\ \A d \in Ancestors(f) : visible[d] = 1
      /\ \A x \in maybe[f] : version[w] <= x
  BY <1>1, TargetFacts DEF DurableInv, DirsAreNoted, RenamesStay
<1> HIDE DEF f
<1>4. AcksStay'
  <2>1. SUFFICES ASSUME NEW g \in File, acked'[g] > 0
                 PROVE  /\ \A d \in Ancestors(g) : visible[d] = 1
                        /\ \A x \in maybe[g] : acked'[g] <= x
    BY <1>1 DEF AcksStay
  <2>2. acked'[g] = acked[g] \/ (g = f /\ acked'[g] = version[w])
    BY <1>1 DEF TypeOK
  <2> QED BY <1>3, <2>1, <2>2 DEF DurableInv, AcksStay
<1> QED BY <1>2, <1>4 DEF DurableInv

\* ... and giving it up.
LEMMA GiveUpDurable ==
  ASSUME TypeOK, DurableInv, NEW ws \in SUBSET Writer, GiveUp(ws)
  PROVE  DurableInv'
<1>1. /\ EndPut(ws) /\ UNCHANGED <<visible, maybe, acked>>
      /\ orphans' = orphans \cup {d \in UNION {created[w] : w \in ws} : visible[d] = 1}
  BY DEF GiveUp, entries
<1>2. EntriesAreSane' /\ DirsAreNoted' /\ DirsAreSynced' /\ RenamesStay'
  BY <1>1, EndDurable
<1>3. AcksStay'
  BY <1>1 DEF DurableInv, AcksStay
<1> QED BY <1>2, <1>3 DEF DurableInv

\* After a power loss everything that is seen is durable, and an acknowledged
\* file is there unless one of its directories went.
LEMMA PowerLossDurable ==
  ASSUME TypeOK, DurableInv, PowerLoss
  PROVE  DurableInv'
<1> DEFINE Whole(left, p) == \A d \in Ancestors(p) : left[d] = 1
<1>1. PICK left \in [Entries -> 0..MaxPuts] :
        /\ \A p \in Entries : left[p] \in maybe[p]
        /\ visible' = [p \in Entries |-> IF Whole(left, p) THEN left[p] ELSE 0]
        /\ maybe' = [p \in Entries |-> {visible'[p]}]
        /\ acked' = [f \in File |-> IF Whole(left, f) THEN acked[f] ELSE 0]
  BY DEF PowerLoss
<1>2. EndPut(Writer) /\ orphans' = {}
  BY DEF PowerLoss
<1>3. \A w \in Writer : pc'[w] = "idle" /\ created'[w] = {} /\ target'[w] = None
  BY <1>2 DEF EndPut
<1>4. /\ \A p \in Entries : maybe'[p] = {visible'[p]}
      /\ \A p \in Entries : Whole(left, p) => visible'[p] = left[p]
      /\ \A p \in Entries : visible'[p] \in {0, left[p]}
      /\ \A f \in File : acked'[f] = IF Whole(left, f) THEN acked[f] ELSE 0
  BY <1>1
<1>5. EntriesAreSane'
  BY <1>1, <1>4, EntriesFacts DEF DurableInv, EntriesAreSane
<1>6. DirsAreNoted' /\ RenamesStay'
  BY <1>3 DEF DirsAreNoted, RenamesStay
<1>7. DirsAreSynced'
  BY <1>4, EntriesFacts DEF DirsAreSynced
<1>8. AcksStay'
  <2>1. SUFFICES ASSUME NEW f \in File, acked'[f] > 0
                 PROVE  /\ \A d \in Ancestors(f) : visible'[d] = 1
                        /\ \A x \in maybe'[f] : acked'[f] <= x
    BY DEF AcksStay
  <2>2. Whole(left, f) /\ acked'[f] = acked[f]
    BY <1>4, <2>1
  <2>3. \A d \in Ancestors(f) : Whole(left, d) /\ d \in Entries
    BY <2>2, AncestorsFacts, EntriesFacts
  <2>4. \A d \in Ancestors(f) : visible'[d] = 1
    BY <1>4, <2>2, <2>3
  <2>5. maybe'[f] = {left[f]} /\ left[f] \in maybe[f]
    BY <1>1, <1>4, <2>2, EntriesFacts
  <2> QED BY <2>1, <2>2, <2>4, <2>5 DEF DurableInv, AcksStay
<1> QED BY <1>5, <1>6, <1>7, <1>8 DEF DurableInv

\* A store starts with nothing acknowledged.
LEMMA InitDurable == ASSUME Init PROVE DurableInv
<1>1. EntriesAreSane
  BY EntriesFacts DEF Init, EntriesAreSane
<1>2. DirsAreNoted /\ RenamesStay /\ AcksStay
  BY DEF Init, DirsAreNoted, RenamesStay, AcksStay
<1>3. DirsAreSynced
  BY EntriesFacts DEF Init, DirsAreSynced
<1> QED BY <1>1, <1>2, <1>3 DEF DurableInv

\* Every step keeps DurableInv.
LEMMA NextDurable == ASSUME TypeOK, RootIsMade, DurableInv, [Next]_vars PROVE DurableInv'
<1>1. CASE UNCHANGED vars
  BY <1>1 DEF vars, DurableInv, EntriesAreSane, DirsAreNoted, DirsAreSynced, RenamesStay,
     AcksStay, Missing
<1>2. ASSUME NEW w \in Writer, NEW f \in File, Probe(w, f) PROVE DurableInv'
  BY <1>2, ProbeDurable
<1>3. ASSUME NEW w \in Writer, MakeDir(w) PROVE DurableInv'              BY <1>3, MakeDirDurable
<1>4. ASSUME NEW w \in Writer, Create(w) \/ Write(w) PROVE DurableInv'   BY <1>4, WriteDurable
<1>5. ASSUME NEW w \in Writer, Rename(w) PROVE DurableInv'               BY <1>5, RenameDurable
<1>6. ASSUME NEW w \in Writer, SyncDir(w) PROVE DurableInv'              BY <1>6, SyncDirDurable
<1>7. ASSUME NEW w \in Writer, SyncParent(w) PROVE DurableInv'           BY <1>7, SyncParentDurable
<1>8. ASSUME NEW w \in Writer, Done(w) PROVE DurableInv'                 BY <1>8, DoneDurable
<1>9. ASSUME NEW w \in Writer, Fail(w) PROVE DurableInv'
  BY <1>9, GiveUpDurable DEF Fail
<1>10. ASSUME NEW p \in Process, Kill(p) PROVE DurableInv'
  BY <1>10, GiveUpDurable DEF Kill
<1>11. CASE PowerLoss                                                    BY <1>11, PowerLossDurable
<1>12. ASSUME NEW p \in Process, MakeRoot(p) PROVE DurableInv'           BY <1>12, MakeRootDurable
<1>13. ASSUME NEW p \in Process, New(p) PROVE DurableInv'
  BY <1>13 DEF New, entries, history, DurableInv, EntriesAreSane, DirsAreNoted, DirsAreSynced,
     RenamesStay, AcksStay, Missing
<1> QED
  BY <1>1, <1>2, <1>3, <1>4, <1>5, <1>6, <1>7, <1>8, <1>9, <1>10, <1>11, <1>12, <1>13 DEF Next

----------------------------------------------------------------------------
(* The root. *)

\* But for a power loss no directory goes.
LEMMA DirsStay ==
  ASSUME TypeOK, [Next]_vars, ~PowerLoss, NEW d \in Dir, visible[d] = 1
  PROVE  visible'[d] = 1
<1> USE DEF entries
<1>1. CASE UNCHANGED visible
  BY <1>1
<1>2. ASSUME NEW w \in Writer, Rename(w) PROVE visible'[d] = 1
  <2>1. target[w] \in File /\ visible' = [visible EXCEPT ![target[w]] = @ + 1]
    BY <1>2, TargetFacts DEF Rename
  <2> QED BY <2>1, EntriesFacts DEF TypeOK
<1>3. ASSUME NEW missing, MakeTopmost(missing) PROVE visible'[d] = 1
  BY <1>3, EntriesFacts DEF MakeTopmost, TypeOK
<1> QED BY <1>1, <1>2, <1>3 DEF Next, vars, Probe, MakeDir, Create, Write, SyncDir, SyncParent,
             Done, Fail, GiveUp, Kill, MakeRoot, New

\* Every step keeps RootIsMade.
LEMMA NextRoot == ASSUME TypeOK, RootIsMade, [Next]_vars PROVE RootIsMade'
<1> USE DEF names
<1>1. CASE PowerLoss
  BY <1>1 DEF PowerLoss, EndPut, RootIsMade
<1>2. CASE ~PowerLoss
  <2>1. \A d \in RootDirs : visible[d] = 1 => visible'[d] = 1
    BY <1>2, DirsStay, RootFacts
  <2>2. CASE UNCHANGED <<opened, process>> /\ \A w \in Writer : pc'[w] # "idle" => pc[w] # "idle"
    BY <2>1, <2>2 DEF RootIsMade
  <2>3. ASSUME NEW w \in Writer, NEW f \in File, Probe(w, f) PROVE RootIsMade'
    BY <2>1, <2>3 DEF Probe, RootIsMade, TypeOK
  <2>4. ASSUME NEW w \in Writer, Fail(w) \/ Done(w) PROVE RootIsMade'
    BY <2>2, <2>4 DEF Fail, Done, GiveUp, EndPut
  <2>5. ASSUME NEW p \in Process, New(p) PROVE RootIsMade'
    BY <2>1, <2>5 DEF New, RootIsMade
  <2>6. ASSUME NEW p \in Process, Kill(p) PROVE RootIsMade'
    BY <2>1, <2>6 DEF Kill, GiveUp, EndPut, RootIsMade
  <2>7. ASSUME NEW p \in Process, MakeRoot(p) PROVE RootIsMade'
    BY <2>2, <2>7 DEF MakeRoot
  <2>8. ASSUME NEW w \in Writer,
               MakeDir(w) \/ Create(w) \/ Write(w) \/ Rename(w) \/ SyncDir(w) \/ SyncParent(w)
        PROVE  RootIsMade'
    BY <2>2, <2>8 DEF MakeDir, Create, Write, Rename, SyncDir, SyncParent, TypeOK
  <2>9. CASE UNCHANGED vars
    BY <2>2, <2>9 DEF vars
  <2> QED BY <1>2, <2>3, <2>4, <2>5, <2>6, <2>7, <2>8, <2>9 DEF Next
<1> QED BY <1>1, <1>2

----------------------------------------------------------------------------
(* What follows. *)

\* Every variable keeps its type.
THEOREM TypeCorrect == Spec => []TypeOK
<1>1. Init => TypeOK
  BY InitType
<1>2. TypeOK /\ [Next]_vars => TypeOK'
  BY NextType
<1> QED BY <1>1, <1>2, PTL DEF Spec

\* Where process ids tell the processes apart, a rename publishes the bytes its own
\* put has written and synced, whatever dead processes left and whatever failing
\* puts removed.
THEOREM OwnBytes == UniquePids => (Spec => []PublishesOwnBytes)
<1> SUFFICES ASSUME UniquePids PROVE Spec => []PublishesOwnBytes
  OBVIOUS
<1>1. Init => NamesInv
  BY DEF Init, NamesInv, NamesAreOwn, NamesDiffer, TempsAreOwn, Opened
<1>2. TypeOK /\ NamesInv /\ [Next]_vars => NamesInv'
  BY NextNames
<1>3. TypeOK /\ NamesInv => PublishesOwnBytes
  <2>1. SUFFICES ASSUME TypeOK, NamesInv, NEW w \in Writer, pc[w] = "rename",
                        name[w] \in DOMAIN temp
                 PROVE  temp[name[w]] = [by |-> w, whole |-> TRUE]
    BY DEF PublishesOwnBytes
  <2>2. temp[name[w]].by = w /\ temp[name[w]].whole
    BY <2>1 DEF NamesInv, TempsAreOwn, Opened
  <2>3. temp[name[w]] \in [by : Writer, whole : BOOLEAN]
    BY <2>1 DEF TypeOK
  <2>4. temp[name[w]].whole = TRUE
    BY <2>2, <2>3
  <2> QED BY <2>2, <2>3, <2>4
<1> QED BY <1>1, <1>2, <1>3, TypeCorrect, PTL DEF Spec

\* A put that returned Ok survives every power loss, but for directories that some put
\* found missing and has not synced, and for a root that FsStore::new has made since
\* the last power loss: no assumption on process ids is needed.
THEOREM AckedIsDurable == Spec => []AckedSurvivesInSyncedDirs
<1>1. Init => DurableInv
  BY InitDurable
<1>2. TypeOK /\ RootIsMade /\ DurableInv /\ [Next]_vars => DurableInv'
  BY NextDurable
<1>3. TypeOK /\ DurableInv => AckedSurvivesInSyncedDirs
  <2> DEFINE synced == Dir \ (orphans \cup UNION {created[w] : w \in Writer})
  <2>1. SUFFICES ASSUME TypeOK, DurableInv, NEW f \in File, acked[f] > 0
                 PROVE  /\ \A d \in Ancestors(f) \cap synced : maybe[d] = {1}
                        /\ \A v \in maybe[f] : v >= acked[f]
    BY DEF AckedSurvivesInSyncedDirs, DurableBelow
  <2>2. /\ \A d \in Ancestors(f) : visible[d] = 1
        /\ \A v \in maybe[f] : acked[f] <= v
    BY <2>1 DEF DurableInv, AcksStay
  <2>3. \A v \in maybe[f] : v >= acked[f]
    BY <2>2, EntriesFacts DEF TypeOK
  <2>4. ASSUME NEW d \in Ancestors(f) \cap synced PROVE maybe[d] = {1}
    <3>1. d \in Dir /\ d \notin orphans /\ \A w \in Writer : d \notin created[w]
      OBVIOUS
    <3> QED BY <2>1, <2>2, <3>1 DEF DurableInv, DirsAreSynced
  <2> QED BY <2>3, <2>4
<1>4. Init => RootIsMade
  BY DEF Init, RootIsMade
<1>5. TypeOK /\ RootIsMade /\ [Next]_vars => RootIsMade'
  BY NextRoot
<1> QED BY <1>1, <1>2, <1>3, <1>4, <1>5, TypeCorrect, PTL DEF Spec

\* A root that is durable, with what is above it.
OldRoot == \A d \in RootDirs : visible[d] = 1 /\ maybe[d] = {1}

\* No step takes it away.
LEMMA NextOldRoot == ASSUME TypeOK, OldRoot, [Next]_vars PROVE OldRoot'
<1> USE DEF entries
<1>1. \A d \in RootDirs : d \in Dir /\ d \in Entries /\ d \notin File
  BY RootFacts, EntriesFacts
<1>2. CASE UNCHANGED entries
  BY <1>2 DEF OldRoot
<1>3. ASSUME NEW w \in Writer, Rename(w) PROVE OldRoot'
  <2>1. /\ target[w] \in File /\ visible' = [visible EXCEPT ![target[w]] = @ + 1]
        /\ maybe' = [maybe EXCEPT ![target[w]] = @ \cup {visible'[target[w]]}]
    BY <1>3, TargetFacts DEF Rename
  <2> QED BY <1>1, <2>1 DEF OldRoot, TypeOK
<1>4. ASSUME NEW w \in Writer, MakeDir(w) PROVE OldRoot'
  <2>1. PICK d \in Missing(target[w]) :
          visible' = [visible EXCEPT ![d] = 1] /\ maybe' = [maybe EXCEPT ![d] = @ \cup {1}]
    BY <1>4 DEF MakeDir, MakeTopmost
  <2>2. d \notin RootDirs
    BY <2>1 DEF Missing, OldRoot
  <2> QED BY <1>1, <2>1, <2>2 DEF OldRoot, TypeOK
<1>5. ASSUME NEW d, Sync(d), visible' = visible PROVE OldRoot'
  <2>1. \A p \in Entries : maybe'[p] = {visible[p]} \/ maybe'[p] = maybe[p]
    <3> HIDE DEF Front
    <3> QED BY <1>5 DEF Sync
  <2> QED BY <1>1, <1>5, <2>1 DEF OldRoot
<1>6. ASSUME NEW p \in Process, MakeRoot(p) PROVE OldRoot'
  <2>1. \E d \in RootDirs : visible[d] = 0
    BY <1>6 DEF MakeRoot, MakeTopmost
  <2> QED BY <2>1 DEF OldRoot
<1>7. CASE PowerLoss
  <2>1. PICK left \in [Entries -> 0..MaxPuts] :
          /\ \A p \in Entries : left[p] \in maybe[p]
          /\ visible' = [p \in Entries |->
               IF \A d \in Ancestors(p) : left[d] = 1 THEN left[p] ELSE 0]
          /\ maybe' = [p \in Entries |-> {visible'[p]}]
    BY <1>7 DEF PowerLoss
  <2>2. \A d \in RootDirs : left[d] = 1
    BY <1>1, <2>1 DEF OldRoot
  <2>3. \A d \in RootDirs : visible'[d] = 1
    BY <1>1, <2>1, <2>2, RootFacts
  <2> QED BY <1>1, <2>1, <2>3 DEF OldRoot
<1> QED
  BY <1>2, <1>3, <1>4, <1>5, <1>6, <1>7 DEF Next, vars, Probe, Create, Write, SyncDir,
     SyncParent, Done, Fail, GiveUp, Kill, New

\* In a store whose root is durable from the start (an old one, or one whose creator
\* has synced it), the root is no exception: an acknowledged put survives below the
\* root and every other directory that is synced.
THEOREM AckedIsDurableInOldRoot ==
  RootDirs \subseteq InitDirs =>
    (Spec => []DurableBelow(RootDirs \cup
                            (Dir \ (orphans \cup UNION {created[w] : w \in Writer}))))
<1> DEFINE synced == Dir \ (orphans \cup UNION {created[w] : w \in Writer})
<1> SUFFICES ASSUME RootDirs \subseteq InitDirs PROVE Spec => []DurableBelow(RootDirs \cup synced)
  OBVIOUS
<1>1. Init => OldRoot
  BY RootFacts, EntriesFacts DEF Init, OldRoot
<1>2. TypeOK /\ OldRoot /\ [Next]_vars => OldRoot'
  BY NextOldRoot
<1>3. OldRoot /\ AckedSurvivesInSyncedDirs => DurableBelow(RootDirs \cup synced)
  BY DEF OldRoot, AckedSurvivesInSyncedDirs, DurableBelow
<1> QED BY <1>1, <1>2, <1>3, TypeCorrect, AckedIsDurable, PTL DEF Spec
=============================================================================
