----------------------------- MODULE Sequencer -----------------------------
(***************************************************************************)
(* The sequencer of vc-seq: it accepts signed statements that pass the     *)
(* registry's and the chain's rules, appends them to the tile log in one   *)
(* durable write per batch, and answers each with its index.               *)
(*                                                                         *)
(* The log is AppendLog, which TileLog is shown to implement: an append    *)
(* takes effect and is acknowledged, takes effect and reports an error, or *)
(* does not take effect; a stale view never appends.  In memory a          *)
(* sequencer keeps the chain state and the index of every durable          *)
(* statement; a batch changes the chain state before it is durable, and a  *)
(* failed append rolls it back by replaying the log.  One call runs at a   *)
(* time on a sequencer (&mut self); its steps interleave with those of     *)
(* other sequencers over the same store and with crashes.                  *)
(***************************************************************************)
EXTENDS Chain, FiniteSets

CONSTANTS
  Node,        \* sequencer instances over one store
  Envelope,    \* signed statements (COSE_Sign1 byte strings)
  sealed,      \* sealed[e]: what the envelope e carries, see Sealed
  Kid,         \* key ids
  Key,         \* keys an envelope can be signed with
  Registry,    \* the registries a sequencer may be opened with
  Unclaimed,   \* a statement without completeness claim
  Off,         \* the log view of a sequencer that is not open
  MaxBatch     \* bound: statements in one batch

Rank == 0..3
Form == {"well_formed", "oversize", "not_canonical"}

\* A claimed rank above 3 stands for every value that is not a known rank.
Sealed ==
  [body : Statement, kid : Kid, key : Key, form : Form,
   completeness : Rank \cup {4, Unclaimed}, assurance : SUBSET (Rank \cup {4})]

Issuer == [key : Key, agent : Agent, max_completeness : Rank, max_assurance : Rank]

ASSUME SequencerAssumption ==
  /\ sealed \in [Envelope -> Sealed]
  /\ \A e, f \in Envelope :
       sealed[e].body.id = sealed[f].body.id => sealed[e].body = sealed[f].body
  /\ \A r \in Registry : DOMAIN r \subseteq Kid /\ \A k \in DOMAIN r : r[k] \in Issuer
  /\ Unclaimed \notin Rank \cup {4}
  /\ MaxBatch \in Nat
  /\ Off \notin Seq(Envelope)

VARIABLES
  log,        \* the durable log
  view,       \* the log as each sequencer's TileLog knows it
  pc,         \* closed, idle, loop, append or replay
  registry,   \* the issuers a sequencer was opened with
  chain,      \* its chain state
  by_leaf,    \* durable statements: index of each
  poisoned,   \* could the state not be reconciled with the log?
  batch,      \* the batch being submitted
  answers,    \* the answers so far, in batch order
  accepted,   \* the statements of the batch that go into the log
  fresh,      \* the state a running replay has rebuilt so far
  purpose,    \* why it replays: open, heal or undo
  acked       \* history: every registration a client was given

seqVars == <<registry, chain, by_leaf, poisoned>>
callVars == <<batch, answers, accepted>>
vars == <<log, view, pc, seqVars, callVars, fresh, purpose, acked>>

TileLog == INSTANCE AppendLog
  WITH Handle <- Node, Entry <- Envelope,
       Batch <- UNION {[1..k -> Envelope] : k \in 1..MaxBatch}, Closed <- Off

\* The statements of a sequence of envelopes.
Bodies(s) == [i \in DOMAIN s |-> sealed[s[i]].body]

NoLeaves == [e \in {} |-> 0]
StartOfLog == [chain |-> EmptyChain, leaves |-> NoLeaves, count |-> 0]

\* An answer: registered, waiting for the append of accepted[slot], or an error.
Registered(index) == [tag |-> "registered", at |-> index]
Waiting(slot) == [tag |-> "waiting", at |-> slot]
Refused == [tag |-> "refused", at |-> 0]

Init ==
  /\ log = <<>>
  /\ view = [n \in Node |-> Off]
  /\ pc = [n \in Node |-> "closed"]
  /\ registry \in [Node -> Registry]
  /\ chain = [n \in Node |-> EmptyChain]
  /\ by_leaf = [n \in Node |-> NoLeaves]
  /\ poisoned = [n \in Node |-> FALSE]
  /\ batch = [n \in Node |-> <<>>]
  /\ answers = [n \in Node |-> <<>>]
  /\ accepted = [n \in Node |-> <<>>]
  /\ fresh = [n \in Node |-> StartOfLog]
  /\ purpose = [n \in Node |-> "open"]
  /\ acked = {}

----------------------------------------------------------------------------
(* Replaying the log into fresh values, one entry at a time (rebuild). *)

StartReplay(n, why) ==
  /\ pc' = [pc EXCEPT ![n] = "replay"]
  /\ purpose' = [purpose EXCEPT ![n] = why]
  /\ fresh' = [fresh EXCEPT ![n] = StartOfLog]

\* Mutant: a replayed entry is looked up in the registry again.
ReplayAcceptsRegistered(n, e) ==
  sealed[e].kid \in DOMAIN registry[n] /\ Passes(fresh[n].chain, sealed[e].body)

\* Replay checks the chain, not the signature or the registry.
ReplayAccepts(n, e) == Passes(fresh[n].chain, sealed[e].body)

ReplayEntry(n) ==
  /\ pc[n] = "replay"
  /\ fresh[n].count < Len(view[n])
  /\ LET e == view[n][fresh[n].count + 1] IN
       /\ ReplayAccepts(n, e)
       /\ fresh' = [fresh EXCEPT ![n] =
            [chain |-> CommitTo(@.chain, sealed[e].body),
             leaves |-> [f \in DOMAIN @.leaves \cup {e} |->
                           IF f = e THEN @.count ELSE @.leaves[f]],
             count |-> @.count + 1]]
  /\ UNCHANGED <<log, view, pc, seqVars, callVars, purpose, acked>>

\* The call returns: clients have their answers.
Return(n, replies) ==
  /\ pc' = [pc EXCEPT ![n] = "idle"]
  /\ acked' = acked \cup
       {[envelope |-> batch[n][i], index |-> replies[i].at] :
          i \in {i \in DOMAIN replies : replies[i].tag = "registered"}}
  /\ batch' = [batch EXCEPT ![n] = <<>>]
  /\ answers' = [answers EXCEPT ![n] = <<>>]
  /\ accepted' = [accepted EXCEPT ![n] = <<>>]

\* What the waiting statements are answered after a failed append.
RefuseWaiting(n) ==
  [i \in DOMAIN answers[n] |->
     IF answers[n][i].tag = "waiting" THEN Refused ELSE answers[n][i]]

RefuseAll(n) == [i \in DOMAIN batch[n] |-> Refused]

\* Mutant: the rebuilt state is dropped, the live one stays.
AdoptNothing(n) == UNCHANGED <<chain, by_leaf>>

Adopt(n) ==
  /\ chain' = [chain EXCEPT ![n] = fresh[n].chain]
  /\ by_leaf' = [by_leaf EXCEPT ![n] = fresh[n].leaves]

\* The whole log is replayed: the sequencer is open, its failed append is
\* undone, or it is no longer poisoned and goes on with the batch.
FinishReplay(n) ==
  /\ pc[n] = "replay" /\ fresh[n].count = Len(view[n])
  /\ Adopt(n)
  /\ fresh' = [fresh EXCEPT ![n] = StartOfLog]
  /\ CASE purpose[n] = "open" ->
            pc' = [pc EXCEPT ![n] = "idle"] /\ UNCHANGED <<poisoned, callVars, acked>>
       [] purpose[n] = "undo" ->
            Return(n, RefuseWaiting(n)) /\ UNCHANGED poisoned
       [] purpose[n] = "heal" ->
            /\ pc' = [pc EXCEPT ![n] = "loop"]
            /\ poisoned' = [poisoned EXCEPT ![n] = FALSE]
            /\ UNCHANGED <<callVars, acked>>
  /\ UNCHANGED <<log, view, registry, purpose>>

\* The log cannot be read.  An undo forgets everything and poisons the
\* sequencer; a heal leaves it poisoned.  (A failed open is Stop.)
FailReplay(n) ==
  /\ pc[n] = "replay" /\ purpose[n] # "open"
  /\ fresh' = [fresh EXCEPT ![n] = StartOfLog]
  /\ IF purpose[n] = "undo"
     THEN /\ Return(n, RefuseWaiting(n))
          /\ chain' = [chain EXCEPT ![n] = EmptyChain]
          /\ by_leaf' = [by_leaf EXCEPT ![n] = NoLeaves]
     ELSE Return(n, RefuseAll(n)) /\ UNCHANGED <<chain, by_leaf>>
  /\ poisoned' = [poisoned EXCEPT ![n] = TRUE]
  /\ UNCHANGED <<log, view, registry, purpose>>

----------------------------------------------------------------------------
(* Opening and losing a sequencer. *)

Open(n) ==
  /\ TileLog!Open(n)
  /\ \E r \in Registry : registry' = [registry EXCEPT ![n] = r]
  /\ StartReplay(n, "open")
  /\ UNCHANGED <<chain, by_leaf, poisoned, callVars, acked>>

\* The process dies or the sequencer is dropped: only the log is left, and
\* the clients of a running call hear nothing.
Stop(n) ==
  /\ TileLog!Close(n)
  /\ pc' = [pc EXCEPT ![n] = "closed"]
  /\ chain' = [chain EXCEPT ![n] = EmptyChain]
  /\ by_leaf' = [by_leaf EXCEPT ![n] = NoLeaves]
  /\ poisoned' = [poisoned EXCEPT ![n] = FALSE]
  /\ batch' = [batch EXCEPT ![n] = <<>>]
  /\ answers' = [answers EXCEPT ![n] = <<>>]
  /\ accepted' = [accepted EXCEPT ![n] = <<>>]
  /\ fresh' = [fresh EXCEPT ![n] = StartOfLog]
  /\ UNCHANGED <<registry, purpose, acked>>

----------------------------------------------------------------------------
(* Submitting a batch (submit_batch). *)

Submit(n, b) ==
  /\ pc[n] = "idle"
  /\ batch' = [batch EXCEPT ![n] = b]
  /\ IF poisoned[n] THEN StartReplay(n, "heal")
     ELSE pc' = [pc EXCEPT ![n] = "loop"] /\ UNCHANGED <<purpose, fresh>>
  /\ UNCHANGED <<log, view, seqVars, answers, accepted, acked>>

\* The statement under the loop.
Current(n) == batch[n][Len(answers[n]) + 1]

Judging(n) == pc[n] = "loop" /\ Len(answers[n]) < Len(batch[n])

Answer(n, a) == answers' = [answers EXCEPT ![n] = Append(@, a)]

\* The registry's rules: signature, canonical form, agent and ceilings.
Admitted(n, e) ==
  LET s == sealed[e] IN
  /\ s.kid \in DOMAIN registry[n]
  /\ LET i == registry[n][s.kid] IN
       /\ s.key = i.key
       /\ s.form = "well_formed"
       /\ s.body.agent = i.agent
       /\ s.completeness = Unclaimed \/ s.completeness \in 0..i.max_completeness
       /\ s.assurance \subseteq 0..i.max_assurance

Valid(n, e) == Admitted(n, e) /\ Passes(chain[n], sealed[e].body)

IsDurable(n, e) == e \in DOMAIN by_leaf[n]
IsPending(n, e) == \E k \in DOMAIN accepted[n] : accepted[n][k] = e

\* Already in the log, by a byte-identical retry: the old index again, whatever
\* the registry says today.
AnswerDuplicate(n) ==
  /\ Judging(n)
  /\ LET e == Current(n) IN
       /\ sealed[e].form # "oversize"
       /\ IsDurable(n, e)
       /\ Answer(n, Registered(by_leaf[n][e]))
  /\ UNCHANGED <<log, view, pc, seqVars, batch, accepted, fresh, purpose, acked>>

\* Accepted earlier in this batch: it shares that statement's fate.
AnswerPending(n) ==
  /\ Judging(n)
  /\ LET e == Current(n) IN
       /\ sealed[e].form # "oversize"
       /\ ~IsDurable(n, e)
       /\ \E k \in DOMAIN accepted[n] : accepted[n][k] = e /\ Answer(n, Waiting(k))
  /\ UNCHANGED <<log, view, pc, seqVars, batch, accepted, fresh, purpose, acked>>

\* The chain state runs ahead of the log.
Speculate(n, s) == chain' = [chain EXCEPT ![n] = CommitTo(@, s)]

\* Accepted: later statements of the batch are judged against it.
Accept(n) ==
  /\ Judging(n)
  /\ LET e == Current(n) IN
       /\ sealed[e].form # "oversize"
       /\ ~IsDurable(n, e) /\ ~IsPending(n, e)
       /\ Valid(n, e)
       /\ Speculate(n, sealed[e].body)
       /\ accepted' = [accepted EXCEPT ![n] = Append(@, e)]
       /\ Answer(n, Waiting(Len(accepted[n]) + 1))
  /\ UNCHANGED <<log, view, pc, registry, by_leaf, poisoned, batch, fresh, purpose, acked>>

Reject(n) ==
  /\ Judging(n)
  /\ LET e == Current(n) IN
       \/ sealed[e].form = "oversize"
       \/ ~IsDurable(n, e) /\ ~IsPending(n, e) /\ ~Valid(n, e)
  /\ Answer(n, Refused)
  /\ UNCHANGED <<log, view, pc, seqVars, batch, accepted, fresh, purpose, acked>>

\* Every statement is judged: append, or return when nothing was accepted.
EndLoop(n) ==
  /\ pc[n] = "loop" /\ Len(answers[n]) = Len(batch[n])
  /\ IF accepted[n] = <<>>
     THEN Return(n, answers[n])
     ELSE pc' = [pc EXCEPT ![n] = "append"] /\ UNCHANGED <<callVars, acked>>
  /\ UNCHANGED <<log, view, seqVars, fresh, purpose>>

\* Mutant: an in-batch duplicate counts its place in the batch.
RegisterWaitingByPlace(n) ==
  [i \in DOMAIN answers[n] |->
     IF answers[n][i].tag = "waiting"
     THEN Registered(Len(view[n]) + i - 1) ELSE answers[n][i]]

\* What the waiting statements are answered once they are durable.
RegisterWaiting(n) ==
  [i \in DOMAIN answers[n] |->
     IF answers[n][i].tag = "waiting"
     THEN Registered(Len(view[n]) + answers[n][i].at - 1) ELSE answers[n][i]]

\* The append succeeds: durable first, answered after.
AppendDurably(n) ==
  /\ pc[n] = "append"
  /\ TileLog!AppendBatch(n, accepted[n])
  /\ by_leaf' = [by_leaf EXCEPT ![n] =
       [e \in DOMAIN @ \cup {accepted[n][k] : k \in DOMAIN accepted[n]} |->
          IF e \in DOMAIN @ THEN @[e]
          ELSE Len(view[n]) + (CHOOSE k \in DOMAIN accepted[n] : accepted[n][k] = e) - 1]]
  /\ Return(n, RegisterWaiting(n))
  /\ UNCHANGED <<registry, chain, poisoned, fresh, purpose>>

\* The append reports an error: nothing reached the commit record ...
AppendFails(n) ==
  /\ pc[n] = "append"
  /\ StartReplay(n, "undo")
  /\ UNCHANGED <<log, view, seqVars, callVars, acked>>

\* ... or the commit record took effect all the same, and this view is stale.
AppendIndeterminate(n) ==
  /\ pc[n] = "append"
  /\ TileLog!AppendUnacknowledged(n, accepted[n])
  /\ StartReplay(n, "undo")
  /\ UNCHANGED <<seqVars, callVars, acked>>

Batches == UNION {[1..k -> Envelope] : k \in 1..MaxBatch}

Next ==
  \E n \in Node :
    \/ Open(n) \/ Stop(n)
    \/ \E b \in Batches : Submit(n, b)
    \/ ReplayEntry(n) \/ FinishReplay(n) \/ FailReplay(n)
    \/ AnswerDuplicate(n) \/ AnswerPending(n) \/ Accept(n) \/ Reject(n)
    \/ EndLoop(n)
    \/ AppendDurably(n) \/ AppendFails(n) \/ AppendIndeterminate(n)

Spec == Init /\ [][Next]_vars

----------------------------------------------------------------------------
(* Properties. *)

Answers == [tag : {"registered", "waiting", "refused"}, at : Nat]
IsLeaves(f) == DOMAIN f \subseteq Envelope /\ \A e \in DOMAIN f : f[e] \in Nat

\* Every variable has its type.
TypeOK ==
  /\ log \in Seq(Envelope)
  /\ view \in [Node -> Seq(Envelope) \cup {Off}]
  /\ pc \in [Node -> {"closed", "idle", "loop", "append", "replay"}]
  /\ registry \in [Node -> Registry]
  /\ DOMAIN chain = Node /\ \A n \in Node : IsChainState(chain[n])
  /\ DOMAIN by_leaf = Node /\ \A n \in Node : IsLeaves(by_leaf[n])
  /\ poisoned \in [Node -> BOOLEAN]
  /\ batch \in [Node -> Seq(Envelope)]
  /\ answers \in [Node -> Seq(Answers)]
  /\ accepted \in [Node -> Seq(Envelope)]
  /\ DOMAIN fresh = Node
  /\ \A n \in Node : /\ DOMAIN fresh[n] = {"chain", "leaves", "count"}
                     /\ IsChainState(fresh[n].chain) /\ IsLeaves(fresh[n].leaves)
                     /\ fresh[n].count \in Nat
  /\ purpose \in [Node -> {"open", "heal", "undo"}]
  /\ acked \subseteq [envelope : Envelope, index : Nat]

\* The durable log obeys the chain rules as a whole: every agent's statements
\* are consecutive and linked, every outcome has its own earlier intent of the
\* same agent.  No batch, failed append, crash or second sequencer can fork an
\* agent's chain or put a statement into the log twice.
LogIsChained == Chained(Bodies(log))

\* Whatever a client was told stays true: the statement is in the log at the
\* index it was given, through retries, failed appends, crashes and reopenings.
RegistrationsHold ==
  \A r \in acked : r.index + 1 \in DOMAIN log /\ log[r.index + 1] = r.envelope

\* Between two calls a sequencer that is not poisoned shows the state of its
\* durable log and nothing else: the chain state, the open intents and the
\* index of every statement, also after a batch was rolled back.
LiveStateIsDurable ==
  \A n \in Node : pc[n] = "idle" /\ ~poisoned[n] =>
    /\ Reflects(chain[n], Bodies(view[n]))
    /\ ToSet(OpenIntents(chain[n])) = Orphans(Bodies(view[n]))
    /\ DOMAIN by_leaf[n] = ToSet(view[n])
    /\ \A i \in DOMAIN view[n] : by_leaf[n][view[n][i]] = i - 1

\* A replay accepts every entry that was ever accepted, under any registry: a
\* log that was written can be opened again.
ReplayNeverRefuses ==
  \A n \in Node : pc[n] = "replay" /\ fresh[n].count < Len(view[n]) =>
    ReplayAccepts(n, view[n][fresh[n].count + 1])
=============================================================================
