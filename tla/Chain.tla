------------------------------- MODULE Chain -------------------------------
(***************************************************************************)
(* The statement chain rules of vc-core (chain.rs): the state an           *)
(* incremental validator keeps, the check a statement must pass against    *)
(* it, and how an accepted statement changes it.                           *)
(*                                                                         *)
(* A statement is a record.  Its id is the hash of its canonical bytes:    *)
(* distinct statements have distinct ids.  `schema' stands for the schema  *)
(* constants that no rule below looks at (v, kind known, ts, agent.id).    *)
(***************************************************************************)
EXTENDS Integers, Sequences, SequencesExt

CONSTANTS
  Agent,     \* agent ids
  Id,        \* statement ids
  Genesis,   \* the `prev' of an agent's first statement: 64 zeros
  NoIntent   \* a statement that names no intent

ASSUME ChainAssumption == Genesis \notin Id /\ NoIntent \notin Id

Kind == {"intent", "outcome", "other"}

\* An outcome names an intent (check_schema), nothing else needs to.
Statement ==
  [id : Id, agent : Agent, seq : Nat, prev : Id \cup {Genesis}, kind : Kind,
   intent : Id \cup {NoIntent}, schema : BOOLEAN]

\* The state: last statement of each agent, agent of each intent, the intents in
\* log order, and those with an outcome.
IsChainState(st) ==
  /\ DOMAIN st = {"last", "intents", "order", "closed"}
  /\ DOMAIN st.last \subseteq Agent
  /\ \A a \in DOMAIN st.last : st.last[a] \in [seq : Nat, id : Id]
  /\ DOMAIN st.intents \subseteq Id
  /\ \A i \in DOMAIN st.intents : st.intents[i] \in Agent
  /\ st.order \in Seq(Id)
  /\ st.closed \subseteq Id

EmptyChain ==
  [last |-> [a \in {} |-> a], intents |-> [i \in {} |-> i], order |-> <<>>, closed |-> {}]

----------------------------------------------------------------------------
(* What the code does. *)

\* Mutant: the rule that an intent has one outcome is not checked.
OutcomeAllowedAgain(st, s) ==
  /\ s.intent \in DOMAIN st.intents
  /\ st.intents[s.intent] = s.agent

\* The intent is known, of the same agent, and has no outcome yet.
OutcomeAllowed(st, s) ==
  /\ s.intent \in DOMAIN st.intents
  /\ st.intents[s.intent] = s.agent
  /\ s.intent \notin st.closed

\* The statement continues its agent's chain.
Follows(st, s) ==
  IF s.agent \in DOMAIN st.last
  THEN s.seq = st.last[s.agent].seq + 1 /\ s.prev = st.last[s.agent].id
  ELSE s.seq = 0 /\ s.prev = Genesis

\* check
Passes(st, s) ==
  /\ s.schema
  /\ Follows(st, s)
  /\ s.kind = "outcome" => OutcomeAllowed(st, s)

\* Mutant: every statement closes the intent it names.
CommitToCloseAll(st, s) ==
  [last |-> [a \in DOMAIN st.last \cup {s.agent} |->
               IF a = s.agent THEN [seq |-> s.seq, id |-> s.id] ELSE st.last[a]],
   intents |-> st.intents, order |-> st.order, closed |-> st.closed \cup {s.intent}]

\* commit, of a statement that passed against this same state
CommitTo(st, s) ==
  [last |-> [a \in DOMAIN st.last \cup {s.agent} |->
               IF a = s.agent THEN [seq |-> s.seq, id |-> s.id] ELSE st.last[a]],
   intents |-> IF s.kind # "intent" THEN st.intents
               ELSE [i \in DOMAIN st.intents \cup {s.id} |->
                       IF i = s.id THEN s.agent ELSE st.intents[i]],
   order |-> IF s.kind = "intent" THEN Append(st.order, s.id) ELSE st.order,
   closed |-> IF s.kind = "outcome" THEN st.closed \cup {s.intent} ELSE st.closed]

\* Intents without an outcome, in log order.
OpenIntents(st) ==
  LET open[k \in 0..Len(st.order)] ==
        IF k = 0 THEN <<>>
        ELSE IF st.order[k] \in st.closed THEN open[k - 1]
        ELSE Append(open[k - 1], st.order[k])
  IN open[Len(st.order)]

----------------------------------------------------------------------------
(* What the rules mean, said of a whole log of statements. *)

Of(ss, a) == {i \in DOMAIN ss : ss[i].agent = a}

\* Every agent's statements are numbered 0, 1, 2, ... and each names the one
\* before it.
Linked(ss) ==
  \A a \in Agent : \A i \in Of(ss, a) :
    LET before == {j \in Of(ss, a) : j < i} IN
    IF before = {} THEN ss[i].seq = 0 /\ ss[i].prev = Genesis
    ELSE \E j \in before :
           /\ \A k \in before : k <= j
           /\ ss[i].seq = ss[j].seq + 1 /\ ss[i].prev = ss[j].id

\* Every outcome is of an earlier intent of the same agent ...
OutcomesMatch(ss) ==
  \A i \in DOMAIN ss : ss[i].kind = "outcome" =>
    \E j \in 1..(i - 1) :
      ss[j].kind = "intent" /\ ss[j].id = ss[i].intent /\ ss[j].agent = ss[i].agent

\* ... and no intent has two.
OutcomesOnce(ss) ==
  \A i, j \in DOMAIN ss :
    ss[i].kind = "outcome" /\ ss[j].kind = "outcome" /\ ss[i].intent = ss[j].intent => i = j

Chained(ss) == Linked(ss) /\ OutcomesMatch(ss) /\ OutcomesOnce(ss)

\* The intents of a log that still wait for an outcome.
Orphans(ss) ==
  {ss[i].id : i \in {i \in DOMAIN ss :
     ss[i].kind = "intent" /\ \A j \in DOMAIN ss : ss[j].kind = "outcome" => ss[j].intent # ss[i].id}}

\* These ids are ordered as the statements of the log that have them.
InLogOrder(order, ss) ==
  \A k, l \in DOMAIN order : k < l =>
    \A i, j \in DOMAIN ss : ss[i].id = order[k] /\ ss[j].id = order[l] => i < j

\* The state a validator has after exactly these statements.
Reflects(st, ss) ==
  /\ DOMAIN st.last = {ss[i].agent : i \in DOMAIN ss}
  /\ \A a \in DOMAIN st.last : \E i \in Of(ss, a) :
       /\ \A j \in Of(ss, a) : j <= i
       /\ st.last[a] = [seq |-> ss[i].seq, id |-> ss[i].id]
  /\ DOMAIN st.intents = {ss[i].id : i \in {i \in DOMAIN ss : ss[i].kind = "intent"}}
  /\ \A i \in DOMAIN ss : ss[i].kind = "intent" => st.intents[ss[i].id] = ss[i].agent
  /\ InLogOrder(st.order, ss) /\ ToSet(st.order) = DOMAIN st.intents
  /\ st.closed = {ss[i].intent : i \in {i \in DOMAIN ss : ss[i].kind = "outcome"}}
=============================================================================
