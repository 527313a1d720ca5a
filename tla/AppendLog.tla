----------------------------- MODULE AppendLog -----------------------------
(***************************************************************************)
(* What a tile log promises to the writers that open it: one log that only *)
(* ever grows, by whole batches, appended by a writer whose view is the    *)
(* whole log.  An append may also take effect without its writer learning  *)
(* of it (the commit record was written but the store reported an error,   *)
(* or the process died): the writer then holds a stale view, and a stale   *)
(* view never appends again until it is opened anew.                       *)
(***************************************************************************)
EXTENDS Sequences, SequencesExt

CONSTANTS
  Handle,   \* instances of the log over one store (one per process)
  Entry,    \* what an entry can be
  Batch,    \* the non-empty sequences of entries one append may carry
  Closed    \* the view of a handle that is not open

VARIABLES
  log,      \* the log itself
  view      \* for each handle: the log as that handle knows it, or Closed

vars == <<log, view>>

TypeOK ==
  /\ log \in Seq(Entry)
  /\ view \in [Handle -> Seq(Entry) \cup {Closed}]

Init ==
  /\ log \in Seq(Entry)
  /\ view = [h \in Handle |-> Closed]

\* A handle that opens sees everything.
Open(h) ==
  /\ view[h] = Closed
  /\ view' = [view EXCEPT ![h] = log]
  /\ UNCHANGED log

\* Mutant: a stale view may append.
AppendBatchUnfenced(h, batch) ==
  /\ view[h] # Closed
  /\ log' = view[h] \o batch
  /\ view' = [view EXCEPT ![h] = log']

\* An acknowledged append: only by a handle whose view is current.
AppendBatch(h, batch) ==
  /\ view[h] = log
  /\ log' = log \o batch
  /\ view' = [view EXCEPT ![h] = log']

\* An append that took effect although its writer was told it failed.
AppendUnacknowledged(h, batch) ==
  /\ view[h] = log
  /\ log' = log \o batch
  /\ UNCHANGED view

Close(h) ==
  /\ view[h] # Closed
  /\ view' = [view EXCEPT ![h] = Closed]
  /\ UNCHANGED log

Next ==
  \E h \in Handle :
    \/ Open(h)
    \/ Close(h)
    \/ \E batch \in Batch : AppendBatch(h, batch) \/ AppendUnacknowledged(h, batch)

Spec == Init /\ [][Next]_vars
=============================================================================
