--------------------------- MODULE SequencerLive ---------------------------
(***************************************************************************)
(* Sequencers over one store, its writer lock, a store that fails only     *)
(* finitely often, and clients that retry.                                 *)
(*                                                                         *)
(* The first append of a sequencer takes the lock, and the lock is kept    *)
(* until its tile log is dropped, also by one whose append is refused for  *)
(* a stale view (Conflict).  Such a sequencer is dropped and reopened, as  *)
(* the error message asks ("reopen the log").                              *)
(***************************************************************************)
EXTENDS Sequencer

CONSTANTS
  Retried,     \* the statements whose clients submit until they are answered
  MaxFaults,   \* bound: failing store calls and crashes
  Nobody       \* the holder of a free lock

ASSUME LiveAssumption ==
  Retried \subseteq Envelope /\ MaxFaults \in Nat /\ Nobody \notin Node

VARIABLES
  faults,      \* how many faults there were
  lock         \* the sequencer whose tile log holds the writer lock

LiveVars == <<vars, faults, lock>>

LiveInit == Init /\ faults = 0 /\ lock = Nobody

\* The view is behind the log: the next append is a Conflict.
Stale(n) == view[n] # log

\* Mutant: the holder is refused like everybody else.
MayLockOnce(n) == lock = Nobody

\* lock_writer is idempotent for its holder.
MayLock(n) == lock \in {Nobody, n}

LockWriter(n) == MayLock(n) /\ lock' = n
LockedOut(n) == ~MayLock(n) /\ UNCHANGED lock

\* The lock goes with the tile log that holds it.
Release(n) == lock' = IF lock = n THEN Nobody ELSE lock

Drop(n) == Stop(n) /\ Release(n)

\* A store call fails, or a process dies.
Fault(n) ==
  /\ faults < MaxFaults
  /\ faults' = faults + 1
  /\ \/ Drop(n)
     \/ FailReplay(n) /\ UNCHANGED lock
     \/ AppendFails(n) /\ (LockWriter(n) \/ UNCHANGED lock)
     \/ AppendIndeterminate(n) /\ LockWriter(n)

\* What a running call does next; it needs no client and no luck.
Proceed(n) ==
  /\ UNCHANGED faults
  /\ \/ /\ \/ ReplayEntry(n) \/ FinishReplay(n)
           \/ AnswerDuplicate(n) \/ AnswerPending(n) \/ Accept(n) \/ Reject(n)
           \/ EndLoop(n)
        /\ UNCHANGED lock
     \/ AppendDurably(n) /\ LockWriter(n)
     \/ AppendFails(n) /\ Stale(n) /\ LockWriter(n)
     \/ AppendFails(n) /\ LockedOut(n)

\* Somebody reopens a closed sequencer, and drops one that answers Conflict.
Reopen(n) ==
  /\ UNCHANGED faults
  /\ \/ Open(n) /\ UNCHANGED lock
     \/ pc[n] = "idle" /\ lock = n /\ Stale(n) /\ Drop(n)

\* A client submits.
Ask(n, b) == Submit(n, b) /\ UNCHANGED <<faults, lock>>

LiveNext ==
  \E n \in Node :
    \/ Fault(n) \/ Proceed(n) \/ Reopen(n)
    \/ \E b \in Batches : Ask(n, b)

Fairness ==
  \A n \in Node :
    /\ WF_LiveVars(Proceed(n))
    /\ SF_LiveVars(Reopen(n))
    /\ \A e \in Retried : SF_LiveVars(Ask(n, <<e>>))

LiveSpec == LiveInit /\ [][LiveNext]_LiveVars /\ Fairness

----------------------------------------------------------------------------
(* Properties. *)

\* The envelope could be the next entry of the log.
Acceptable(e) ==
  /\ \A n \in Node : Admitted(n, e)
  /\ Chained(Bodies(Append(log, e)))

\* A client has its registration, or another statement took its place in the
\* agent's chain.
Settled(e) ==
  \/ \E r \in acked : r.envelope = e
  \/ \E i \in DOMAIN log :
       /\ log[i] # e
       /\ sealed[log[i]].body.agent = sealed[e].body.agent
       /\ sealed[log[i]].body.seq = sealed[e].body.seq

\* A client that keeps submitting an acceptable statement to every sequencer is
\* eventually answered with its registration, or its place in the chain is
\* taken: failed appends are rolled back, a poisoned sequencer heals when the log
\* can be read again, an append that took effect unnoticed is answered as a
\* duplicate, and neither a dead writer nor one whose append was refused keeps
\* the others out for good.
RetriesSettle == \A e \in Retried : Acceptable(e) ~> Settled(e)
=============================================================================
