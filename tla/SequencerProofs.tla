-------------------------- MODULE SequencerProofs --------------------------
(***************************************************************************)
(* Proofs about Sequencer, for every number of sequencers, every set of    *)
(* signed statements and registries, and batches of any size.  First about *)
(* the chain rules of Chain, for every set of agents and every log: the    *)
(* check that an incremental validator makes of one statement against its  *)
(* state is the same as the rules read on the whole log.                   *)
(***************************************************************************)
EXTENDS SequencerLive, SequenceLemmas

----------------------------------------------------------------------------
(* Logs that obey the chain rules. *)

\* Every agent's sequence numbers ascend.
Numbered(ss) ==
  \A i, j \in DOMAIN ss : ss[i].agent = ss[j].agent /\ i < j => ss[i].seq < ss[j].seq

\* A log that was accepted statement by statement.
Sound(ss) ==
  /\ ss \in Seq(Statement)
  /\ Chained(ss) /\ Numbered(ss)
  /\ \A i \in DOMAIN ss : ss[i].schema

----------------------------------------------------------------------------
(* A chain state stays a chain state. *)

\* A validator starts in a state ...
LEMMA EmptyType == IsChainState(EmptyChain)
  BY DEF IsChainState, EmptyChain

\* ... and a statement that passed leads to a state.
LEMMA CommitType ==
  ASSUME NEW st, IsChainState(st), NEW s \in Statement, Passes(st, s)
  PROVE  IsChainState(CommitTo(st, s))
<1> DEFINE t == CommitTo(st, s)
<1>1. DOMAIN t = {"last", "intents", "order", "closed"}
  BY DEF CommitTo
<1>2. DOMAIN t.last \subseteq Agent /\ \A a \in DOMAIN t.last : t.last[a] \in [seq : Nat, id : Id]
  BY DEF CommitTo, IsChainState, Statement
<1>3. DOMAIN t.intents \subseteq Id /\ \A i \in DOMAIN t.intents : t.intents[i] \in Agent
  BY DEF CommitTo, IsChainState, Statement
<1>4. t.order \in Seq(Id)
  BY DEF CommitTo, IsChainState, Statement
<1>5. t.closed \subseteq Id
  BY DEF CommitTo, IsChainState, Statement, Passes, OutcomeAllowed
<1> QED BY <1>1, <1>2, <1>3, <1>4, <1>5 DEF IsChainState

----------------------------------------------------------------------------
(* The check and the rules. *)

\* The empty log obeys the rules, and the empty state reflects it.
LEMMA EmptyIsSound == Sound(<<>>) /\ Reflects(EmptyChain, <<>>)
<1>1. Sound(<<>>)
  BY DEF Sound, Chained, Linked, OutcomesMatch, OutcomesOnce, Numbered, Of
<1>2. Reflects(EmptyChain, <<>>)
  BY DEF Reflects, EmptyChain, InLogOrder, ToSet, Of
<1> QED BY <1>1, <1>2

\* The rules hold of every prefix of a log they hold of.
LEMMA SoundPrefix ==
  ASSUME NEW ss, Sound(ss), NEW tt \in Seq(Statement),
         Len(tt) <= Len(ss), \A i \in 1..Len(tt) : tt[i] = ss[i]
  PROVE  Sound(tt)
<1>1. /\ ss \in Seq(Statement) /\ DOMAIN ss = 1..Len(ss) /\ DOMAIN tt = 1..Len(tt)
      /\ Len(ss) \in Nat /\ Len(tt) \in Nat
      /\ DOMAIN tt \subseteq DOMAIN ss /\ \A i \in DOMAIN tt : tt[i] = ss[i]
  BY DEF Sound
<1>2. Linked(tt)
  <2>1. SUFFICES ASSUME NEW a \in Agent, NEW i \in Of(tt, a)
                 PROVE  LET before == {j \in Of(tt, a) : j < i} IN
                        IF before = {} THEN tt[i].seq = 0 /\ tt[i].prev = Genesis
                        ELSE \E j \in before :
                               /\ \A k \in before : k <= j
                               /\ tt[i].seq = tt[j].seq + 1 /\ tt[i].prev = tt[j].id
    BY DEF Linked
  <2>2. i \in Of(ss, a) /\ tt[i] = ss[i]
    BY <1>1 DEF Of
  <2>3. {j \in Of(tt, a) : j < i} = {j \in Of(ss, a) : j < i}
    BY <1>1, <2>1 DEF Of
  <2>4. \A j \in {j \in Of(ss, a) : j < i} : tt[j] = ss[j]
    BY <1>1, <2>1 DEF Of
  <2>5. LET before == {j \in Of(ss, a) : j < i} IN
        IF before = {} THEN ss[i].seq = 0 /\ ss[i].prev = Genesis
        ELSE \E j \in before :
               /\ \A k \in before : k <= j
               /\ ss[i].seq = ss[j].seq + 1 /\ ss[i].prev = ss[j].id
    BY <2>2 DEF Sound, Chained, Linked
  <2> QED BY <2>2, <2>3, <2>4, <2>5
<1>3. OutcomesMatch(tt)
  <2>1. SUFFICES ASSUME NEW i \in DOMAIN tt, tt[i].kind = "outcome"
                 PROVE  \E j \in 1..(i - 1) : tt[j].kind = "intent" /\ tt[j].id = tt[i].intent
                                                /\ tt[j].agent = tt[i].agent
    BY DEF OutcomesMatch
  <2>2. PICK j \in 1..(i - 1) : ss[j].kind = "intent" /\ ss[j].id = ss[i].intent
                                  /\ ss[j].agent = ss[i].agent
    BY <1>1, <2>1 DEF Sound, Chained, OutcomesMatch
  <2>3. j \in DOMAIN tt
    BY <1>1
  <2> QED BY <1>1, <2>2, <2>3
<1>4. OutcomesOnce(tt)
  BY <1>1 DEF Sound, Chained, OutcomesOnce
<1>5. Numbered(tt)
  BY <1>1 DEF Sound, Numbered
<1>6. \A i \in DOMAIN tt : tt[i].schema
  BY <1>1 DEF Sound
<1> QED BY <1>2, <1>3, <1>4, <1>5, <1>6 DEF Sound, Chained

\* A statement that passes against the state of a log can be its next entry.
LEMMA PassedIsSound ==
  ASSUME NEW ss, Sound(ss), NEW st, Reflects(st, ss), NEW s \in Statement, Passes(st, s)
  PROVE  Sound(Append(ss, s))
<1> DEFINE n == Len(ss)
           tt == Append(ss, s)
<1>1. /\ ss \in Seq(Statement) /\ tt \in Seq(Statement)
      /\ n \in Nat /\ DOMAIN ss = 1..n /\ DOMAIN tt = 1..(n + 1)
      /\ \A i \in 1..n : tt[i] = ss[i]
      /\ tt[n + 1] = s
  <2>1. ss \in Seq(Statement)
    BY DEF Sound
  <2> QED BY <2>1, Appended
<1> HIDE DEF n, tt
<1>2. Linked(tt)
  <2>1. SUFFICES ASSUME NEW a \in Agent, NEW i \in Of(tt, a)
                 PROVE  LET before == {j \in Of(tt, a) : j < i} IN
                        IF before = {} THEN tt[i].seq = 0 /\ tt[i].prev = Genesis
                        ELSE \E j \in before :
                               /\ \A k \in before : k <= j
                               /\ tt[i].seq = tt[j].seq + 1 /\ tt[i].prev = tt[j].id
    BY DEF Linked
  <2>2. {j \in Of(tt, a) : j < i} = {j \in Of(ss, a) : j < i}
    BY <1>1 DEF Of
  <2>3. \A j \in Of(ss, a) : tt[j] = ss[j] /\ j \in 1..n
    BY <1>1 DEF Of
  <2>4. CASE i # n + 1
    <3>1. i \in Of(ss, a) /\ tt[i] = ss[i]
      BY <1>1, <2>4 DEF Of
    <3>2. LET before == {j \in Of(ss, a) : j < i} IN
          IF before = {} THEN ss[i].seq = 0 /\ ss[i].prev = Genesis
          ELSE \E j \in before :
                 /\ \A k \in before : k <= j
                 /\ ss[i].seq = ss[j].seq + 1 /\ ss[i].prev = ss[j].id
      BY <3>1 DEF Sound, Chained, Linked
    <3> QED BY <2>2, <2>3, <3>1, <3>2
  <2>5. CASE i = n + 1
    <3>1. tt[i] = s /\ s.agent = a
      BY <1>1, <2>5 DEF Of
    <3>2. {j \in Of(ss, a) : j < i} = Of(ss, a)
      <4>1. \A j \in Of(ss, a) : j < i
        BY <1>1, <2>5, <2>3
      <4> QED BY <4>1
    <3>3. CASE a \in DOMAIN st.last
      <4>1. PICK j \in Of(ss, a) : (\A k \in Of(ss, a) : k <= j)
                                     /\ st.last[a] = [seq |-> ss[j].seq, id |-> ss[j].id]
        BY <3>3 DEF Reflects
      <4>2. s.seq = ss[j].seq + 1 /\ s.prev = ss[j].id
        BY <3>1, <3>3, <4>1 DEF Passes, Follows
      <4> QED BY <2>2, <2>3, <3>1, <3>2, <4>1, <4>2
    <3>4. CASE a \notin DOMAIN st.last
      <4>1. Of(ss, a) = {}
        BY <3>4 DEF Reflects, Of
      <4>2. s.seq = 0 /\ s.prev = Genesis
        BY <3>1, <3>4 DEF Passes, Follows
      <4> QED BY <2>2, <3>1, <3>2, <4>1, <4>2
    <3> QED BY <3>3, <3>4
  <2> QED BY <2>4, <2>5
<1>3. OutcomesMatch(tt)
  <2>1. SUFFICES ASSUME NEW i \in DOMAIN tt, tt[i].kind = "outcome"
                 PROVE  \E j \in 1..(i - 1) : tt[j].kind = "intent" /\ tt[j].id = tt[i].intent
                                                /\ tt[j].agent = tt[i].agent
    BY DEF OutcomesMatch
  <2>2. CASE i # n + 1
    <3>1. i \in DOMAIN ss /\ tt[i] = ss[i]
      BY <1>1, <2>2
    <3>2. PICK j \in 1..(i - 1) : ss[j].kind = "intent" /\ ss[j].id = ss[i].intent
                                    /\ ss[j].agent = ss[i].agent
      BY <3>1, <2>1 DEF Sound, Chained, OutcomesMatch
    <3>3. tt[j] = ss[j]
      BY <1>1, <3>1
    <3> QED BY <3>1, <3>2, <3>3
  <2>3. CASE i = n + 1
    <3>1. s.intent \in DOMAIN st.intents /\ st.intents[s.intent] = s.agent
      BY <1>1, <2>1, <2>3 DEF Passes, OutcomeAllowed
    <3>2. PICK j \in DOMAIN ss : ss[j].kind = "intent" /\ ss[j].id = s.intent
      BY <3>1 DEF Reflects
    <3>3. ss[j].agent = s.agent
      BY <3>1, <3>2 DEF Reflects
    <3>4. tt[j] = ss[j] /\ tt[i] = s /\ j \in 1..(i - 1)
      BY <1>1, <2>3
    <3> QED BY <3>2, <3>3, <3>4
  <2> QED BY <2>2, <2>3
<1>4. OutcomesOnce(tt)
  <2>1. \A i \in DOMAIN ss : s.kind = "outcome" /\ ss[i].kind = "outcome" => ss[i].intent # s.intent
    BY DEF Passes, OutcomeAllowed, Reflects
  <2>2. \A i, j \in DOMAIN ss :
          ss[i].kind = "outcome" /\ ss[j].kind = "outcome" /\ ss[i].intent = ss[j].intent => i = j
    BY DEF Sound, Chained, OutcomesOnce
  <2>3. \A i \in DOMAIN tt : (i \in DOMAIN ss /\ tt[i] = ss[i]) \/ (i = n + 1 /\ tt[i] = s)
    BY <1>1
  <2> QED BY <2>1, <2>2, <2>3 DEF OutcomesOnce
<1>5. Numbered(tt)
  <2>1. \A i \in DOMAIN ss : ss[i].agent = s.agent => ss[i].seq < s.seq
    <3>1. SUFFICES ASSUME NEW i \in DOMAIN ss, ss[i].agent = s.agent
                   PROVE  ss[i].seq < s.seq
      OBVIOUS
    <3>2. s.agent \in DOMAIN st.last /\ s.agent \in Agent /\ i \in Of(ss, s.agent)
      BY <3>1 DEF Reflects, Of, Statement
    <3>3. PICK j \in Of(ss, s.agent) : (\A k \in Of(ss, s.agent) : k <= j)
                                   /\ st.last[s.agent] = [seq |-> ss[j].seq, id |-> ss[j].id]
      BY <3>2 DEF Reflects
    <3>4. j \in DOMAIN ss /\ ss[j].agent = s.agent /\ i <= j
      BY <3>2, <3>3 DEF Of
    <3>5. ss[i].seq \in Nat /\ ss[j].seq \in Nat /\ s.seq \in Nat
      <4>1. ss[i] \in Statement /\ ss[j] \in Statement
        BY <1>1, <3>4
      <4> QED BY <4>1 DEF Statement
    <3>6. s.seq = ss[j].seq + 1
      BY <3>2, <3>3 DEF Passes, Follows
    <3>7. CASE i = j
      BY <3>5, <3>6, <3>7
    <3>8. CASE i # j
      <4>1. ss[i].seq < ss[j].seq
        BY <1>1, <3>1, <3>4, <3>8 DEF Sound, Numbered
      <4> QED BY <4>1, <3>5, <3>6
    <3> QED BY <3>7, <3>8
  <2>2. \A i \in DOMAIN tt : i <= n => i \in DOMAIN ss /\ tt[i] = ss[i]
    BY <1>1
  <2>3. \A i \in DOMAIN tt : ~(i <= n) => i = n + 1 /\ tt[i] = s
    BY <1>1
  <2>4. SUFFICES ASSUME NEW i \in DOMAIN tt, NEW j \in DOMAIN tt, tt[i].agent = tt[j].agent, i < j
                 PROVE  tt[i].seq < tt[j].seq
    BY DEF Numbered
  <2>5. i <= n
    BY <1>1, <2>4
  <2>6. CASE j <= n
    BY <2>2, <2>4, <2>5, <2>6 DEF Sound, Numbered
  <2>7. CASE ~(j <= n)
    BY <2>1, <2>2, <2>3, <2>4, <2>5, <2>7
  <2> QED BY <2>6, <2>7
<1>6. \A i \in DOMAIN tt : tt[i].schema
  BY <1>1 DEF Sound, Passes
<1> QED BY <1>1, <1>2, <1>3, <1>4, <1>5, <1>6 DEF Sound, Chained, tt

\* The converse: the next entry of a log that obeys the rules passes against the
\* state of the entries before it.
LEMMA SoundPasses ==
  ASSUME NEW ss \in Seq(Statement), NEW s \in Statement, Sound(Append(ss, s)),
         NEW st, Reflects(st, ss)
  PROVE  Passes(st, s)
<1> DEFINE n == Len(ss)
           tt == Append(ss, s)
<1>1. /\ n \in Nat /\ DOMAIN ss = 1..n /\ DOMAIN tt = 1..(n + 1)
      /\ \A i \in 1..n : tt[i] = ss[i]
      /\ tt[n + 1] = s /\ s.agent \in Agent
  BY Appended DEF Statement
<1>2. Sound(tt)
  OBVIOUS
<1> HIDE DEF n, tt
<1>3. s.schema
  BY <1>1, <1>2 DEF Sound
<1>4. Follows(st, s)
  <2> DEFINE a == s.agent
  <2>1. n + 1 \in Of(tt, a)
    BY <1>1 DEF Of
  <2>2. {j \in Of(tt, a) : j < n + 1} = Of(ss, a) /\ \A j \in Of(ss, a) : tt[j] = ss[j] /\ j \in Nat
    BY <1>1 DEF Of
  <2>3. LET before == {j \in Of(tt, a) : j < n + 1} IN
        IF before = {} THEN s.seq = 0 /\ s.prev = Genesis
        ELSE \E j \in before :
               /\ \A k \in before : k <= j
               /\ s.seq = tt[j].seq + 1 /\ s.prev = tt[j].id
    BY <1>1, <1>2, <2>1 DEF Sound, Chained, Linked
  <2>4. CASE a \in DOMAIN st.last
    <3>1. PICK i \in Of(ss, a) : (\A k \in Of(ss, a) : k <= i)
                                   /\ st.last[a] = [seq |-> ss[i].seq, id |-> ss[i].id]
      BY <2>4 DEF Reflects
    <3>2. PICK j \in Of(ss, a) : (\A k \in Of(ss, a) : k <= j)
                                   /\ s.seq = ss[j].seq + 1 /\ s.prev = ss[j].id
      BY <2>2, <2>3, <3>1
    <3>3. i = j
      BY <2>2, <3>1, <3>2
    <3> QED BY <2>4, <3>1, <3>2, <3>3 DEF Follows
  <2>5. CASE a \notin DOMAIN st.last
    <3>1. Of(ss, a) = {}
      BY <2>5 DEF Reflects, Of
    <3> QED BY <2>2, <2>3, <2>5, <3>1 DEF Follows
  <2> QED BY <2>4, <2>5
<1>5. ASSUME s.kind = "outcome" PROVE OutcomeAllowed(st, s)
  <2>1. PICK j \in 1..n : tt[j].kind = "intent" /\ tt[j].id = s.intent /\ tt[j].agent = s.agent
    BY <1>1, <1>2, <1>5 DEF Sound, Chained, OutcomesMatch
  <2>2. j \in DOMAIN ss /\ tt[j] = ss[j]
    BY <1>1
  <2>3. s.intent \in DOMAIN st.intents /\ st.intents[s.intent] = s.agent
    BY <2>1, <2>2 DEF Reflects
  <2>4. ASSUME s.intent \in st.closed PROVE FALSE
    <3>1. PICK k \in DOMAIN ss : ss[k].kind = "outcome" /\ ss[k].intent = s.intent
      BY <2>4 DEF Reflects
    <3>2. k \in DOMAIN tt /\ n + 1 \in DOMAIN tt /\ tt[k] = ss[k] /\ k # n + 1
      BY <1>1
    <3> QED BY <1>1, <1>2, <1>5, <3>1, <3>2 DEF Sound, Chained, OutcomesOnce
  <2> QED BY <2>3, <2>4 DEF OutcomeAllowed
<1> QED BY <1>3, <1>4, <1>5 DEF Passes

\* A log that obeys the rules holds no statement twice.
LEMMA SoundOnce ==
  ASSUME NEW ss, Sound(ss), NEW i \in DOMAIN ss, NEW j \in DOMAIN ss, ss[i] = ss[j]
  PROVE  i = j
<1>1. i \in Nat /\ j \in Nat /\ ss[i] \in Statement
  BY DEF Sound
<1>2. ss[i].seq \in Nat
  BY <1>1 DEF Statement
<1> QED BY <1>1, <1>2 DEF Sound, Numbered

----------------------------------------------------------------------------
(* The state after one more statement. *)

\* Committing a statement with a new id to the state of a log gives the state of
\* the log with that statement.
LEMMA CommitReflects ==
  ASSUME NEW ss \in Seq(Statement), NEW st, IsChainState(st), Reflects(st, ss),
         NEW s \in Statement, \A i \in DOMAIN ss : ss[i].id # s.id
  PROVE  Reflects(CommitTo(st, s), Append(ss, s))
<1> DEFINE n == Len(ss)
           tt == Append(ss, s)
           t == CommitTo(st, s)
<1>1. /\ n \in Nat /\ DOMAIN ss = 1..n /\ DOMAIN tt = 1..(n + 1)
      /\ \A i \in 1..n : tt[i] = ss[i]
      /\ tt[n + 1] = s
  BY Appended
<1>2. /\ DOMAIN tt = DOMAIN ss \cup {n + 1} /\ n + 1 \notin DOMAIN ss
      /\ \A i \in DOMAIN ss : tt[i] = ss[i] /\ i < n + 1 /\ i \in Nat
  BY <1>1
<1> SUFFICES Reflects(t, tt)
  OBVIOUS
<1> HIDE DEF n, tt
<1>3. DOMAIN t.last = {tt[i].agent : i \in DOMAIN tt}
  BY <1>1, <1>2 DEF CommitTo, Reflects
<1>4. ASSUME NEW a \in DOMAIN t.last
      PROVE  \E i \in Of(tt, a) : /\ \A j \in Of(tt, a) : j <= i
                                  /\ t.last[a] = [seq |-> tt[i].seq, id |-> tt[i].id]
  <2>1. CASE a = s.agent
    <3>1. n + 1 \in Of(tt, a) /\ \A j \in Of(tt, a) : j <= n + 1
      BY <1>1, <2>1 DEF Of
    <3>2. t.last[a] = [seq |-> s.seq, id |-> s.id]
      BY <2>1 DEF CommitTo
    <3> QED BY <1>1, <3>1, <3>2
  <2>2. CASE a # s.agent
    <3>1. Of(tt, a) = Of(ss, a) /\ \A i \in Of(ss, a) : tt[i] = ss[i]
      BY <1>1, <1>2, <2>2 DEF Of
    <3>2. a \in DOMAIN st.last /\ t.last[a] = st.last[a]
      BY <1>4, <2>2 DEF CommitTo
    <3>3. PICK i \in Of(ss, a) : /\ \A j \in Of(ss, a) : j <= i
                                 /\ st.last[a] = [seq |-> ss[i].seq, id |-> ss[i].id]
      BY <3>2 DEF Reflects
    <3> QED BY <3>1, <3>2, <3>3
  <2> QED BY <2>1, <2>2
<1>5. CASE s.kind = "intent"
  <2>1. /\ t.order = Append(st.order, s.id) /\ st.order \in Seq(Id) /\ s.id \in Id
        /\ t.closed = st.closed
        /\ t.intents = [i \in DOMAIN st.intents \cup {s.id} |->
                          IF i = s.id THEN s.agent ELSE st.intents[i]]
    BY <1>5 DEF CommitTo, IsChainState, Statement
  <2>2. DOMAIN t.intents = {tt[i].id : i \in {i \in DOMAIN tt : tt[i].kind = "intent"}}
    <3>1. DOMAIN t.intents = {ss[i].id : i \in {i \in DOMAIN ss : ss[i].kind = "intent"}} \cup {s.id}
      BY <2>1 DEF Reflects
    <3> QED BY <1>1, <1>2, <1>5, <3>1
  <2>3. \A i \in DOMAIN tt : tt[i].kind = "intent" => t.intents[tt[i].id] = tt[i].agent
    <3>1. \A i \in DOMAIN ss : ss[i].kind = "intent" =>
            ss[i].id \in DOMAIN st.intents /\ st.intents[ss[i].id] = ss[i].agent
      BY DEF Reflects
    <3> QED BY <1>1, <1>2, <2>1, <3>1
  <2>4. t.closed = {tt[i].intent : i \in {i \in DOMAIN tt : tt[i].kind = "outcome"}}
    <3>1. {i \in DOMAIN tt : tt[i].kind = "outcome"} = {i \in DOMAIN ss : ss[i].kind = "outcome"}
      BY <1>1, <1>2, <1>5
    <3> QED BY <1>2, <2>1, <3>1 DEF Reflects
  <2> DEFINE m == Len(st.order)
  <2>5. /\ m \in Nat /\ DOMAIN st.order = 1..m /\ DOMAIN t.order = 1..(m + 1)
        /\ \A k \in 1..m : t.order[k] = st.order[k]
        /\ t.order[m + 1] = s.id
    BY <2>1, Appended
  <2> HIDE DEF m
  <2>6. ToSet(t.order) = DOMAIN t.intents
    <3>1. ToSet(t.order) = ToSet(st.order) \cup {s.id}
      <4>1. /\ ToSet(t.order) = {t.order[k] : k \in 1..(m + 1)}
            /\ ToSet(st.order) = {st.order[k] : k \in 1..m}
        BY <2>5 DEF ToSet
      <4>2. \A k \in 1..(m + 1) : k \in 1..m \/ k = m + 1
        BY <2>5
      <4>3. m + 1 \in 1..(m + 1) /\ \A k \in 1..m : k \in 1..(m + 1)
        BY <2>5
      <4> QED BY <2>5, <4>1, <4>2, <4>3
    <3> QED BY <2>1, <3>1 DEF Reflects
  <2>7. InLogOrder(t.order, tt)
    <3>1. SUFFICES ASSUME NEW k \in DOMAIN t.order, NEW l \in DOMAIN t.order, k < l,
                          NEW i \in DOMAIN tt, NEW j \in DOMAIN tt,
                          tt[i].id = t.order[k], tt[j].id = t.order[l]
                   PROVE  i < j
      BY DEF InLogOrder
    <3>2. k \in 1..m /\ t.order[k] = st.order[k]
      BY <2>5, <3>1
    <3>3. st.order[k] # s.id
      <4>1. st.order[k] \in DOMAIN st.intents
        BY <2>5, <3>2 DEF Reflects, ToSet
      <4> QED BY <4>1 DEF Reflects
    <3>4. i \in DOMAIN ss /\ tt[i] = ss[i]
      BY <1>1, <1>2, <3>1, <3>2, <3>3
    <3>5. CASE l = m + 1
      <4>1. j = n + 1
        BY <1>2, <2>5, <3>1, <3>5
      <4> QED BY <1>2, <3>4, <4>1
    <3>6. CASE l # m + 1
      <4>1. l \in 1..m /\ t.order[l] = st.order[l]
        BY <2>5, <3>6
      <4>2. st.order[l] # s.id
        <5>1. st.order[l] \in DOMAIN st.intents
          BY <2>5, <4>1 DEF Reflects, ToSet
        <5> QED BY <5>1 DEF Reflects
      <4>3. j \in DOMAIN ss /\ tt[j] = ss[j]
        BY <1>1, <1>2, <3>1, <4>1, <4>2
      <4>4. InLogOrder(st.order, ss)
        BY DEF Reflects
      <4>5. k \in DOMAIN st.order /\ l \in DOMAIN st.order
            /\ ss[i].id = st.order[k] /\ ss[j].id = st.order[l]
        BY <2>5, <3>1, <3>2, <3>4, <4>1, <4>3
      <4> QED BY <3>1, <3>4, <4>3, <4>4, <4>5 DEF InLogOrder
    <3> QED BY <3>5, <3>6
  <2> QED BY <1>3, <1>4, <2>2, <2>3, <2>4, <2>6, <2>7 DEF Reflects
<1>6. CASE s.kind # "intent"
  <2>1. t.order = st.order /\ t.intents = st.intents
        /\ t.closed = IF s.kind = "outcome" THEN st.closed \cup {s.intent} ELSE st.closed
    BY <1>6 DEF CommitTo
  <2>2. {i \in DOMAIN tt : tt[i].kind = "intent"} = {i \in DOMAIN ss : ss[i].kind = "intent"}
    BY <1>1, <1>2, <1>6
  <2>3. DOMAIN t.intents = {tt[i].id : i \in {i \in DOMAIN tt : tt[i].kind = "intent"}}
    BY <1>2, <2>1, <2>2 DEF Reflects
  <2>4. \A i \in DOMAIN tt : tt[i].kind = "intent" => t.intents[tt[i].id] = tt[i].agent
    BY <1>1, <1>2, <1>6, <2>1 DEF Reflects
  <2>5. t.closed = {tt[i].intent : i \in {i \in DOMAIN tt : tt[i].kind = "outcome"}}
    <3>1. CASE s.kind = "outcome"
      <4>1. {tt[i].intent : i \in {i \in DOMAIN tt : tt[i].kind = "outcome"}}
              = {ss[i].intent : i \in {i \in DOMAIN ss : ss[i].kind = "outcome"}} \cup {s.intent}
        BY <1>1, <1>2, <3>1
      <4> QED BY <2>1, <3>1, <4>1 DEF Reflects
    <3>2. CASE s.kind # "outcome"
      <4>1. {i \in DOMAIN tt : tt[i].kind = "outcome"} = {i \in DOMAIN ss : ss[i].kind = "outcome"}
        BY <1>1, <1>2, <3>2
      <4> QED BY <1>2, <2>1, <3>2, <4>1 DEF Reflects
    <3> QED BY <3>1, <3>2
  <2>6. ToSet(t.order) = DOMAIN t.intents
    BY <2>1 DEF Reflects
  <2>7. InLogOrder(t.order, tt)
    <3>1. SUFFICES ASSUME NEW k \in DOMAIN st.order, NEW l \in DOMAIN st.order, k < l,
                          NEW i \in DOMAIN tt, NEW j \in DOMAIN tt,
                          tt[i].id = st.order[k], tt[j].id = st.order[l]
                   PROVE  i < j
      BY <2>1 DEF InLogOrder
    <3>2. \A p \in DOMAIN st.order : st.order[p] # s.id
      <4>1. \A p \in DOMAIN st.order : st.order[p] \in DOMAIN st.intents
        BY DEF Reflects, ToSet
      <4> QED BY <4>1 DEF Reflects
    <3>3. i \in DOMAIN ss /\ j \in DOMAIN ss /\ tt[i] = ss[i] /\ tt[j] = ss[j]
      BY <1>1, <1>2, <3>1, <3>2
    <3>4. InLogOrder(st.order, ss)
      BY DEF Reflects
    <3> QED BY <3>1, <3>3, <3>4 DEF InLogOrder
  <2> QED BY <1>3, <1>4, <2>3, <2>4, <2>5, <2>6, <2>7 DEF Reflects
<1> QED BY <1>5, <1>6

----------------------------------------------------------------------------
(* Open intents. *)

\* OpenIntents filters the intents: it returns those without an outcome.
LEMMA OpenIntentsAre ==
  ASSUME NEW st, IsChainState(st)
  PROVE  /\ OpenIntents(st) \in Seq(Id)
         /\ ToSet(OpenIntents(st)) = ToSet(st.order) \ st.closed
<1> DEFINE N == Len(st.order)
           Step(f, k) == IF k = 0 THEN <<>>
                         ELSE IF st.order[k] \in st.closed THEN f[k - 1]
                         ELSE Append(f[k - 1], st.order[k])
           open[k \in 0..N] ==
             IF k = 0 THEN <<>>
             ELSE IF st.order[k] \in st.closed THEN open[k - 1]
             ELSE Append(open[k - 1], st.order[k])
<1>1. N \in Nat /\ st.order \in Seq(Id) /\ DOMAIN st.order = 1..N /\ \A k \in 1..N : st.order[k] \in Id
  BY DEF IsChainState
<1>2. \E f : f = [k \in 0..N |-> Step(f, k)]
  <2> DEFINE T == {m \in Nat : \E f : f = [k \in 0..m |-> Step(f, k)]}
  <2>1. 0 \in T
    <3> DEFINE f == [k \in 0..0 |-> <<>>]
    <3>1. f = [k \in 0..0 |-> Step(f, k)]
      OBVIOUS
    <3> QED BY <3>1
  <2>2. ASSUME NEW m \in 0..(N - 1), m \in T PROVE m + 1 \in T
    <3>1. PICK f : f = [k \in 0..m |-> Step(f, k)]
      BY <2>2
    <3> DEFINE g == [k \in 0..(m + 1) |-> IF k = m + 1 THEN Step(f, k) ELSE f[k]]
    <3>2. \A k \in 0..(m + 1) : k # 0 => g[k - 1] = f[k - 1]
      BY <1>1, <2>2
    <3>3. \A k \in 0..(m + 1) : Step(g, k) = Step(f, k)
      BY <3>2
    <3>4. \A k \in 0..m : f[k] = Step(f, k)
      BY <3>1
    <3>5. g = [k \in 0..(m + 1) |-> Step(g, k)]
      BY <1>1, <2>2, <3>3, <3>4
    <3> HIDE DEF g
    <3>6. \E h : h = [k \in 0..(m + 1) |-> Step(h, k)]
      BY <3>5
    <3>7. m + 1 \in Nat
      BY <2>2
    <3> QED BY <3>6, <3>7, Zenon
  <2> HIDE DEF T
  <2>3. N \in Nat
    BY <1>1
  <2> HIDE DEF N
  <2>4. 0..N \subseteq T
    BY <2>1, <2>2, <2>3, NatUpTo
  <2> HIDE DEF Step
  <2>5. N \in T
    BY <2>3, <2>4
  <2> QED BY <2>5 DEF T
<1>3. open = [k \in 0..N |-> Step(open, k)]
  BY <1>2
<1>4. OpenIntents(st) = open[N]
  BY DEF OpenIntents
<1>8. \A k \in 0..N : open[k] = Step(open, k)
  BY <1>3
<1> HIDE DEF open, N
<1> DEFINE U == {k \in 0..N : /\ open[k] \in Seq(Id)
                              /\ ToSet(open[k]) = {st.order[i] : i \in 1..k} \ st.closed}
<1>5. 0 \in U
  <2>1. open[0] = <<>>
    BY <1>1, <1>8
  <2>2. ToSet(open[0]) = {} /\ {st.order[i] : i \in 1..0} = {}
    BY <2>1 DEF ToSet
  <2>3. 0 \in 0..N /\ open[0] \in Seq(Id)
    BY <1>1, <2>1
  <2> QED BY <2>2, <2>3
<1>6. ASSUME NEW k \in 0..(N - 1), k \in U PROVE k + 1 \in U
  <2>1. open[k + 1] = IF st.order[k + 1] \in st.closed THEN open[k]
                      ELSE Append(open[k], st.order[k + 1])
    BY <1>1, <1>8, <1>6
  <2>2. {st.order[i] : i \in 1..(k + 1)} = {st.order[i] : i \in 1..k} \cup {st.order[k + 1]}
    BY <1>1, <1>6
  <2>3. open[k] \in Seq(Id) /\ st.order[k + 1] \in Id /\ k + 1 \in 0..N
    BY <1>1, <1>6
  <2>4. ToSet(Append(open[k], st.order[k + 1])) = ToSet(open[k]) \cup {st.order[k + 1]}
    BY <2>3, Appended DEF ToSet
  <2>5. ToSet(open[k]) = {st.order[i] : i \in 1..k} \ st.closed
    BY <1>6
  <2>6. open[k + 1] \in Seq(Id)
    BY <2>1, <2>3
  <2>7. ToSet(open[k + 1]) = {st.order[i] : i \in 1..(k + 1)} \ st.closed
    BY <2>1, <2>2, <2>4, <2>5
  <2> QED BY <2>3, <2>6, <2>7
<1> HIDE DEF U
<1>7. 0..N \subseteq U
  <2>1. N \in Nat
    BY <1>1
  <2> QED BY <2>1, <1>5, <1>6, NatUpTo
<1>9. N \in U
  BY <1>1, <1>7
<1>10. ToSet(st.order) = {st.order[i] : i \in 1..N}
  BY <1>1 DEF ToSet
<1> QED BY <1>4, <1>9, <1>10 DEF U

\* The open intents of a state are the orphans of the log it reflects.
LEMMA OpenAreOrphans ==
  ASSUME NEW ss, NEW st, IsChainState(st), Reflects(st, ss)
  PROVE  ToSet(OpenIntents(st)) = Orphans(ss)
<1>1. ToSet(OpenIntents(st)) = ToSet(st.order) \ st.closed
  BY OpenIntentsAre
<1>2. ToSet(st.order) = {ss[i].id : i \in {i \in DOMAIN ss : ss[i].kind = "intent"}}
  BY DEF Reflects
<1>3. st.closed = {ss[i].intent : i \in {i \in DOMAIN ss : ss[i].kind = "outcome"}}
  BY DEF Reflects
<1> QED BY <1>1, <1>2, <1>3 DEF Orphans

----------------------------------------------------------------------------
(* The inductive invariant. *)

\* The index of every entry of a log without repetitions, and of nothing else.
Indexes(f, s) == DOMAIN f = ToSet(s) /\ \A i \in DOMAIN s : f[s[i]] = i - 1

\* What the sequencer counts on: the durable log and the accepted statements.
Ahead(n) == view[n] \o accepted[n]

\* What a replay has read so far.
Done(n) == SubSeq(view[n], 1, fresh[n].count)

\* The durable log could be replayed.
LogIsSound == Sound(Bodies(log))

\* An open sequencer knows a prefix of the log.
ViewIsPrefix(n) ==
  /\ pc[n] = "closed" <=> view[n] = Off
  /\ view[n] # Off => Len(view[n]) <= Len(log) /\ \A i \in 1..Len(view[n]) : view[n][i] = log[i]

\* Nothing is left of a call when none runs, or when a replay comes first.
CallIsClean(n) ==
  /\ pc[n] \in {"loop", "append"} => ~poisoned[n]
  /\ pc[n] \in {"closed", "idle"} \/ (pc[n] = "replay" /\ purpose[n] # "undo") =>
       accepted[n] = <<>> /\ answers[n] = <<>>
  /\ Len(answers[n]) <= Len(batch[n])

\* Every answer given so far is true: the statement is at its index in the log
\* this sequencer knows, or it waits in its slot.
AnswersAreTrue(n) ==
  \A i \in DOMAIN answers[n] :
    LET a == answers[n][i] IN
    /\ a.tag = "registered" => a.at + 1 \in DOMAIN view[n] /\ view[n][a.at + 1] = batch[n][i]
    /\ a.tag = "waiting" => a.at \in DOMAIN accepted[n] /\ accepted[n][a.at] = batch[n][i]

\* The live state is that of the durable log and the accepted statements, which
\* together obey the chain rules.
LiveStateIsAhead(n) ==
  pc[n] \in {"idle", "loop", "append"} /\ ~poisoned[n] =>
    /\ Sound(Bodies(Ahead(n)))
    /\ Reflects(chain[n], Bodies(Ahead(n)))
    /\ Indexes(by_leaf[n], view[n])

\* A replay is at the state of the entries it has read.
ReplayIsExact(n) ==
  pc[n] = "replay" =>
    /\ fresh[n].count <= Len(view[n])
    /\ Reflects(fresh[n].chain, Bodies(Done(n)))
    /\ Indexes(fresh[n].leaves, Done(n))

NodeInv(n) ==
  /\ ViewIsPrefix(n) /\ CallIsClean(n) /\ AnswersAreTrue(n)
  /\ LiveStateIsAhead(n) /\ ReplayIsExact(n)

IInv == LogIsSound /\ RegistrationsHold /\ \A n \in Node : NodeInv(n)

----------------------------------------------------------------------------
(* The statements of a sequence of envelopes. *)

\* There is one statement for each envelope.
LEMMA BodiesType ==
  ASSUME NEW s \in Seq(Envelope)
  PROVE  /\ Bodies(s) \in Seq(Statement)
         /\ Len(Bodies(s)) = Len(s) /\ DOMAIN Bodies(s) = 1..Len(s)
         /\ \A i \in 1..Len(s) : Bodies(s)[i] = sealed[s[i]].body
         /\ Len(s) \in Nat /\ DOMAIN s = 1..Len(s) /\ \A i \in 1..Len(s) : s[i] \in Envelope
<1>1. /\ Len(s) \in Nat /\ DOMAIN s = 1..Len(s)
      /\ \A i \in 1..Len(s) : s[i] \in Envelope
  OBVIOUS
<1>2. \A i \in 1..Len(s) : sealed[s[i]].body \in Statement
  BY <1>1, SequencerAssumption DEF Sealed
<1>3. Bodies(s) = [i \in 1..Len(s) |-> sealed[s[i]].body]
  BY <1>1 DEF Bodies
<1> QED BY <1>1, <1>2, <1>3

\* One more envelope is one more statement.
LEMMA BodiesAppend ==
  ASSUME NEW s \in Seq(Envelope), NEW e \in Envelope
  PROVE  /\ Bodies(Append(s, e)) = Append(Bodies(s), sealed[e].body)
         /\ sealed[e].body \in Statement
<1>1. sealed[e].body \in Statement
  BY SequencerAssumption DEF Sealed
<1>2. /\ Bodies(s) \in Seq(Statement) /\ Len(Bodies(s)) = Len(s) /\ Len(s) \in Nat
      /\ \A i \in 1..Len(s) : Bodies(s)[i] = sealed[s[i]].body
  BY BodiesType
<1>3. /\ DOMAIN Append(s, e) = 1..(Len(s) + 1) /\ Append(s, e)[Len(s) + 1] = e
      /\ \A i \in 1..Len(s) : Append(s, e)[i] = s[i]
  BY Appended
<1>4. Bodies(Append(s, e)) = [i \in 1..(Len(s) + 1) |-> sealed[Append(s, e)[i]].body]
  BY <1>3 DEF Bodies
<1>5. Append(Bodies(s), sealed[e].body)
        = [i \in 1..(Len(s) + 1) |-> IF i = Len(s) + 1 THEN sealed[e].body ELSE Bodies(s)[i]]
  BY <1>1, <1>2
<1> QED BY <1>1, <1>2, <1>3, <1>4, <1>5

\* A prefix of a sound log is sound.
LEMMA SoundPart ==
  ASSUME NEW s \in Seq(Envelope), Sound(Bodies(s)), NEW t \in Seq(Envelope),
         Len(t) <= Len(s), \A i \in 1..Len(t) : t[i] = s[i]
  PROVE  Sound(Bodies(t))
<1>1. \A i \in 1..Len(t) : Bodies(t)[i] = Bodies(s)[i]
  <2>1. Len(t) \in Nat /\ Len(s) \in Nat /\ \A i \in 1..Len(t) : Bodies(t)[i] = sealed[t[i]].body
    BY BodiesType
  <2>2. \A i \in 1..Len(s) : Bodies(s)[i] = sealed[s[i]].body
    BY BodiesType
  <2> QED BY <2>1, <2>2
<1>2. Bodies(t) \in Seq(Statement) /\ Len(Bodies(t)) = Len(t) /\ Len(Bodies(s)) = Len(s)
  BY BodiesType
<1> QED BY <1>1, <1>2, SoundPrefix

\* A sound log holds no envelope twice.
LEMMA NoneTwice ==
  ASSUME NEW s \in Seq(Envelope), Sound(Bodies(s)),
         NEW i \in 1..Len(s), NEW j \in 1..Len(s), s[i] = s[j]
  PROVE  i = j
<1>1. Bodies(s)[i] = Bodies(s)[j] /\ i \in DOMAIN Bodies(s) /\ j \in DOMAIN Bodies(s)
  BY BodiesType
<1> QED BY <1>1, SoundOnce

\* Replaying or accepting the next entry of a sound log gives the state of the
\* log with that entry: ids determine statements, so its id is new.
LEMMA CommitNext ==
  ASSUME NEW s \in Seq(Envelope), NEW e \in Envelope, Sound(Bodies(Append(s, e))),
         NEW st, IsChainState(st), Reflects(st, Bodies(s))
  PROVE  Reflects(CommitTo(st, sealed[e].body), Bodies(Append(s, e)))
<1> DEFINE b == sealed[e].body
           ss == Bodies(s)
<1>1. /\ Bodies(Append(s, e)) = Append(ss, b) /\ b \in Statement /\ ss \in Seq(Statement)
      /\ DOMAIN ss = 1..Len(s) /\ Len(ss) = Len(s) /\ Len(s) \in Nat
  BY BodiesAppend, BodiesType
<1>2. ASSUME NEW i \in DOMAIN ss, ss[i].id = b.id PROVE FALSE
  <2>1. s[i] \in Envelope /\ ss[i] = sealed[s[i]].body
    BY <1>1, BodiesType
  <2>2. ss[i] = b
    BY <1>2, <2>1, SequencerAssumption
  <2>3. Append(ss, b)[i] = Append(ss, b)[Len(ss) + 1]
        /\ i \in DOMAIN Append(ss, b) /\ Len(ss) + 1 \in DOMAIN Append(ss, b)
    BY <1>1, <2>2, Appended
  <2>4. i = Len(ss) + 1
    BY <1>1, <2>3, SoundOnce
  <2> QED BY <1>1, <2>4
<1> HIDE DEF b, ss
<1>3. Reflects(CommitTo(st, b), Append(ss, b))
  BY <1>1, <1>2, CommitReflects DEF ss
<1> QED BY <1>1, <1>3 DEF b, ss

\* The index after one more entry.
LEMMA IndexNext ==
  ASSUME NEW s \in Seq(Envelope), NEW e \in Envelope, NEW f, Indexes(f, s),
         \A i \in 1..Len(s) : s[i] # e
  PROVE  Indexes([g \in DOMAIN f \cup {e} |-> IF g = e THEN Len(s) ELSE f[g]], Append(s, e))
<1> DEFINE t == Append(s, e)
           h == [g \in DOMAIN f \cup {e} |-> IF g = e THEN Len(s) ELSE f[g]]
<1>1. /\ Len(s) \in Nat /\ DOMAIN s = 1..Len(s) /\ DOMAIN t = 1..(Len(s) + 1)
      /\ \A i \in 1..Len(s) : t[i] = s[i]
      /\ t[Len(s) + 1] = e
  BY Appended
<1> HIDE DEF t
<1>2. DOMAIN h = ToSet(t)
  BY <1>1 DEF Indexes, ToSet
<1>3. ASSUME NEW i \in DOMAIN t PROVE h[t[i]] = i - 1
  <2>1. CASE i = Len(s) + 1
    BY <1>1, <2>1
  <2>2. CASE i # Len(s) + 1
    <3>1. i \in DOMAIN s /\ t[i] = s[i] /\ s[i] # e /\ s[i] \in DOMAIN f
      BY <1>1, <2>2 DEF Indexes, ToSet
    <3> QED BY <3>1 DEF Indexes
  <2> QED BY <2>1, <2>2
<1> QED BY <1>2, <1>3 DEF Indexes, t

----------------------------------------------------------------------------
(* Types. *)

\* Sequences and records the actions build.
LEMMA EmptyTypes ==
  /\ IsChainState(EmptyChain) /\ IsLeaves(NoLeaves)
  /\ DOMAIN StartOfLog = {"chain", "leaves", "count"}
  /\ StartOfLog.chain = EmptyChain /\ StartOfLog.leaves = NoLeaves /\ StartOfLog.count = 0
BY EmptyType DEF IsLeaves, NoLeaves, StartOfLog

\* A batch is a sequence of envelopes.
LEMMA BatchType == ASSUME NEW b \in Batches PROVE b \in Seq(Envelope)
BY SequencerAssumption DEF Batches

\* Init has the types.
LEMMA InitType == Init => TypeOK
BY EmptyTypes DEF Init, TypeOK

\* Replies to the answers of a node, and what a return does.
LEMMA ReturnType ==
  ASSUME TypeOK, NEW n \in Node, NEW replies, Return(n, replies),
         DOMAIN replies \subseteq DOMAIN batch[n],
         \A i \in DOMAIN replies : replies[i].tag = "registered" => replies[i].at \in Nat
  PROVE  /\ pc' \in [Node -> {"closed", "idle", "loop", "append", "replay"}]
         /\ batch' \in [Node -> Seq(Envelope)]
         /\ answers' \in [Node -> Seq(Answers)]
         /\ accepted' \in [Node -> Seq(Envelope)]
         /\ acked' \subseteq [envelope : Envelope, index : Nat]
<1>1. batch[n] \in Seq(Envelope)
  BY DEF TypeOK
<1>2. \A i \in DOMAIN replies : batch[n][i] \in Envelope
  BY <1>1
<1>3. acked' \subseteq [envelope : Envelope, index : Nat]
  BY <1>2 DEF TypeOK, Return
<1>4. pc' \in [Node -> {"closed", "idle", "loop", "append", "replay"}]
  BY DEF TypeOK, Return
<1>5. /\ batch' \in [Node -> Seq(Envelope)]
      /\ answers' \in [Node -> Seq(Answers)]
      /\ accepted' \in [Node -> Seq(Envelope)]
  BY DEF TypeOK, Return
<1> QED BY <1>3, <1>4, <1>5

\* What an answer adds is an answer.
LEMMA AnswerType ==
  ASSUME TypeOK, NEW n \in Node, NEW a \in Answers, Answer(n, a)
  PROVE  answers' \in [Node -> Seq(Answers)]
BY DEF TypeOK, Answer

\* The answers are records.
LEMMA AnswersType ==
  /\ Refused \in Answers
  /\ \A k \in Nat : Registered(k) \in Answers /\ Waiting(k) \in Answers
BY DEF Answers, Refused, Registered, Waiting

\* The judged statement is an envelope.
LEMMA CurrentType ==
  ASSUME TypeOK, NEW n \in Node, Judging(n)
  PROVE  /\ Current(n) \in Envelope /\ Len(answers[n]) + 1 \in DOMAIN batch[n]
         /\ Len(answers[n]) \in Nat /\ answers[n] \in Seq(Answers)
<1>1. batch[n] \in Seq(Envelope) /\ answers[n] \in Seq(Answers)
  BY DEF TypeOK
<1>2. Len(answers[n]) \in Nat /\ Len(batch[n]) \in Nat /\ Len(answers[n]) < Len(batch[n])
  BY <1>1 DEF Judging
<1> QED BY <1>1, <1>2 DEF Current

\* Every action keeps the types; a view that is read is one of an open sequencer,
\* and the slot of a waiting answer is a slot.
LEMMA NextType ==
  ASSUME TypeOK, IInv, [Next]_vars
  PROVE  TypeOK'
<1> USE DEF IInv, NodeInv
<1>1. CASE UNCHANGED vars
  BY <1>1 DEF TypeOK, vars, seqVars, callVars
<1>2. ASSUME NEW n \in Node, Open(n) PROVE TypeOK'
  <2>1. /\ log' = log /\ view' = [view EXCEPT ![n] = log]
        /\ \E r \in Registry : registry' = [registry EXCEPT ![n] = r]
        /\ pc' = [pc EXCEPT ![n] = "replay"] /\ purpose' = [purpose EXCEPT ![n] = "open"]
        /\ fresh' = [fresh EXCEPT ![n] = StartOfLog]
        /\ UNCHANGED <<chain, by_leaf, poisoned, batch, answers, accepted, acked>>
    BY <1>2 DEF Open, TileLog!Open, StartReplay, callVars
  <2> QED BY <2>1, EmptyTypes DEF TypeOK
<1>3. ASSUME NEW n \in Node, Stop(n) PROVE TypeOK'
  BY <1>3, EmptyTypes DEF TypeOK, Stop, TileLog!Close
<1>4. ASSUME NEW n \in Node, NEW b \in Batches, Submit(n, b) PROVE TypeOK'
  <2>1. batch' \in [Node -> Seq(Envelope)]
    BY <1>4, BatchType DEF TypeOK, Submit
  <2>2. CASE poisoned[n]
    <3>1. /\ pc' = [pc EXCEPT ![n] = "replay"] /\ purpose' = [purpose EXCEPT ![n] = "heal"]
          /\ fresh' = [fresh EXCEPT ![n] = StartOfLog]
          /\ UNCHANGED <<log, view, seqVars, answers, accepted, acked>>
      BY <1>4, <2>2 DEF Submit, StartReplay
    <3> QED BY <2>1, <3>1, EmptyTypes DEF TypeOK, seqVars
  <2>3. CASE ~poisoned[n]
    <3>1. /\ pc' = [pc EXCEPT ![n] = "loop"]
          /\ UNCHANGED <<log, view, seqVars, answers, accepted, purpose, fresh, acked>>
      BY <1>4, <2>3 DEF Submit
    <3> QED BY <2>1, <3>1 DEF TypeOK, seqVars
  <2> QED BY <2>2, <2>3
<1>5. ASSUME NEW n \in Node, ReplayEntry(n) PROVE TypeOK'
  <2> DEFINE e == view[n][fresh[n].count + 1]
             b == sealed[e].body
             c == fresh[n].count
             l == fresh[n].leaves
             x == [chain |-> CommitTo(fresh[n].chain, b),
                   leaves |-> [f \in DOMAIN l \cup {e} |-> IF f = e THEN c ELSE l[f]],
                   count |-> c + 1]
  <2>1. /\ c \in Nat /\ IsChainState(fresh[n].chain) /\ IsLeaves(l)
        /\ DOMAIN fresh = Node
    BY DEF TypeOK
  <2>2. view[n] \in Seq(Envelope) /\ c < Len(view[n])
    BY <1>5, SequencerAssumption DEF TypeOK, ReplayEntry, ViewIsPrefix
  <2>3. e \in Envelope /\ b \in Statement
    BY <2>1, <2>2, SequencerAssumption DEF Sealed
  <2>4. Passes(fresh[n].chain, b)
    BY <1>5 DEF ReplayEntry, ReplayAccepts
  <2>5. IsChainState(CommitTo(fresh[n].chain, b))
    BY <2>1, <2>3, <2>4, CommitType
  <2>6. IsLeaves(x.leaves)
    BY <2>1, <2>3 DEF IsLeaves
  <2>7. DOMAIN x = {"chain", "leaves", "count"} /\ x.chain = CommitTo(fresh[n].chain, b) /\ x.count \in Nat
    BY <2>1
  <2>8. fresh' = [fresh EXCEPT ![n] = x]
    BY <1>5 DEF ReplayEntry
  <2> HIDE DEF e, b, c, l, x
  <2>9. /\ DOMAIN fresh' = Node
        /\ \A m \in Node : fresh'[m] = IF m = n THEN x ELSE fresh[m]
    BY <2>1, <2>8
  <2>10. \A m \in Node : /\ DOMAIN fresh'[m] = {"chain", "leaves", "count"}
                         /\ IsChainState(fresh'[m].chain) /\ IsLeaves(fresh'[m].leaves)
                         /\ fresh'[m].count \in Nat
    BY <2>5, <2>6, <2>7, <2>9 DEF TypeOK
  <2> QED BY <1>5, <2>9, <2>10 DEF TypeOK, ReplayEntry, seqVars, callVars
<1>6. ASSUME NEW n \in Node,
             /\ DOMAIN RefuseWaiting(n) \subseteq DOMAIN batch[n]
             /\ \A i \in DOMAIN RefuseWaiting(n) :
                  RefuseWaiting(n)[i].tag = "registered" => RefuseWaiting(n)[i].at \in Nat,
             FinishReplay(n) \/ FailReplay(n)
      PROVE  TypeOK'
  <2>1. /\ DOMAIN chain' = Node /\ \A m \in Node : IsChainState(chain'[m])
        /\ DOMAIN by_leaf' = Node /\ \A m \in Node : IsLeaves(by_leaf'[m])
    BY ZenonT(40), <1>6, EmptyTypes DEF TypeOK, FinishReplay, FailReplay, Adopt
  <2>2. /\ log' \in Seq(Envelope) /\ view' \in [Node -> Seq(Envelope) \cup {Off}]
        /\ registry' \in [Node -> Registry]
        /\ poisoned' \in [Node -> BOOLEAN] /\ purpose' \in [Node -> {"open", "heal", "undo"}]
    BY ZenonT(40), <1>6 DEF TypeOK, FinishReplay, FailReplay
  <2>3. fresh' = [fresh EXCEPT ![n] = StartOfLog]
    BY <1>6 DEF FinishReplay, FailReplay
  <2>4. /\ DOMAIN fresh' = Node
        /\ \A m \in Node : /\ DOMAIN fresh'[m] = {"chain", "leaves", "count"}
                           /\ IsChainState(fresh'[m].chain) /\ IsLeaves(fresh'[m].leaves)
                           /\ fresh'[m].count \in Nat
    BY <2>3, EmptyTypes DEF TypeOK
  <2>5. /\ DOMAIN RefuseAll(n) = DOMAIN batch[n]
        /\ \A i \in DOMAIN RefuseAll(n) : RefuseAll(n)[i].tag # "registered"
    BY DEF RefuseAll, Refused
  <2>6. \/ Return(n, RefuseWaiting(n)) \/ Return(n, RefuseAll(n))
        \/ /\ \E p \in {"idle", "loop"} : pc' = [pc EXCEPT ![n] = p]
           /\ UNCHANGED <<batch, answers, accepted, acked>>
    <3>1. purpose[n] \in {"open", "heal", "undo"}
      BY DEF TypeOK
    <3> QED BY <1>6, <3>1 DEF FinishReplay, FailReplay, callVars
  <2>7. /\ pc' \in [Node -> {"closed", "idle", "loop", "append", "replay"}]
        /\ batch' \in [Node -> Seq(Envelope)]
        /\ answers' \in [Node -> Seq(Answers)]
        /\ accepted' \in [Node -> Seq(Envelope)]
        /\ acked' \subseteq [envelope : Envelope, index : Nat]
    <3>1. CASE Return(n, RefuseWaiting(n))
      BY <1>6, <3>1, ReturnType
    <3>2. CASE Return(n, RefuseAll(n))
      BY <2>5, <3>2, ReturnType
    <3>3. CASE /\ \E p \in {"idle", "loop"} : pc' = [pc EXCEPT ![n] = p]
               /\ UNCHANGED <<batch, answers, accepted, acked>>
      BY <3>3 DEF TypeOK
    <3> QED BY <2>6, <3>1, <3>2, <3>3
  <2> QED BY <2>1, <2>2, <2>4, <2>7 DEF TypeOK
<1>7. ASSUME NEW n \in Node
      PROVE  /\ answers[n] \in Seq(Answers) /\ batch[n] \in Seq(Envelope)
             /\ DOMAIN answers[n] = 1..Len(answers[n]) /\ DOMAIN answers[n] \subseteq DOMAIN batch[n]
             /\ \A i \in DOMAIN answers[n] : answers[n][i] \in Answers /\ answers[n][i].at \in Nat
             /\ DOMAIN RefuseWaiting(n) = DOMAIN answers[n]
             /\ \A i \in DOMAIN RefuseWaiting(n) :
                  RefuseWaiting(n)[i].tag = "registered" => RefuseWaiting(n)[i].at \in Nat
  <2>1. answers[n] \in Seq(Answers) /\ batch[n] \in Seq(Envelope)
    BY DEF TypeOK
  <2>2. /\ Len(answers[n]) \in Nat /\ Len(batch[n]) \in Nat /\ Len(answers[n]) <= Len(batch[n])
        /\ DOMAIN answers[n] = 1..Len(answers[n]) /\ DOMAIN batch[n] = 1..Len(batch[n])
        /\ \A i \in DOMAIN answers[n] : answers[n][i] \in Answers
    BY <2>1 DEF CallIsClean
  <2>3. \A i \in DOMAIN answers[n] : answers[n][i].at \in Nat
    BY <2>2 DEF Answers
  <2>4. /\ DOMAIN RefuseWaiting(n) = DOMAIN answers[n]
        /\ \A i \in DOMAIN answers[n] :
             RefuseWaiting(n)[i] = IF answers[n][i].tag = "waiting" THEN Refused ELSE answers[n][i]
    BY DEF RefuseWaiting
  <2>5. \A i \in DOMAIN answers[n] : RefuseWaiting(n)[i].at \in Nat
    BY <2>3, <2>4 DEF Refused
  <2> QED BY <2>1, <2>2, <2>3, <2>4, <2>5
<1>8. ASSUME NEW n \in Node, NEW a \in Answers, Answer(n, a),
             UNCHANGED <<log, view, pc, seqVars, batch, accepted, fresh, purpose, acked>>
      PROVE  TypeOK'
  BY <1>8, AnswerType DEF TypeOK, seqVars
<1>9. ASSUME NEW n \in Node, AnswerDuplicate(n) PROVE TypeOK'
  <2>1. by_leaf[n][Current(n)] \in Nat
    BY <1>9 DEF TypeOK, IsLeaves, AnswerDuplicate, IsDurable
  <2> QED BY <1>8, <1>9, <2>1, AnswersType DEF AnswerDuplicate
<1>10. ASSUME NEW n \in Node, AnswerPending(n) PROVE TypeOK'
  <2>1. PICK k \in DOMAIN accepted[n] : Answer(n, Waiting(k))
    BY <1>10 DEF AnswerPending
  <2>2. k \in Nat
    BY <2>1 DEF TypeOK
  <2> QED BY <1>8, <1>10, <2>1, <2>2, AnswersType DEF AnswerPending
<1>11. ASSUME NEW n \in Node, Accept(n) PROVE TypeOK'
  <2> DEFINE e == Current(n)
             b == sealed[e].body
  <2>1. e \in Envelope /\ b \in Statement
    BY <1>11, CurrentType, SequencerAssumption DEF Accept, Sealed
  <2>2. Passes(chain[n], b) /\ IsChainState(chain[n])
    BY <1>11 DEF Accept, Valid, TypeOK
  <2>3. IsChainState(CommitTo(chain[n], b))
    BY <2>1, <2>2, CommitType
  <2>4. chain' = [chain EXCEPT ![n] = CommitTo(chain[n], b)]
    BY <1>11 DEF Accept, Speculate
  <2>5. accepted' = [accepted EXCEPT ![n] = Append(accepted[n], e)]
    BY <1>11 DEF Accept
  <2> HIDE DEF e, b
  <2>6. DOMAIN chain' = Node /\ \A m \in Node : IsChainState(chain'[m])
    BY <2>3, <2>4 DEF TypeOK
  <2>7. accepted' \in [Node -> Seq(Envelope)]
    BY <2>1, <2>5 DEF TypeOK
  <2>8. answers' \in [Node -> Seq(Answers)]
    <3>1. Len(accepted[n]) + 1 \in Nat
      BY DEF TypeOK
    <3> QED BY <1>11, <3>1, AnswersType, AnswerType DEF Accept
  <2> QED BY <1>11, <2>6, <2>7, <2>8 DEF TypeOK, Accept
<1>12. ASSUME NEW n \in Node, Reject(n) PROVE TypeOK'
  BY <1>8, <1>12, AnswersType DEF Reject
<1>13. ASSUME NEW n \in Node, EndLoop(n) PROVE TypeOK'
  <2>1. CASE Return(n, answers[n])
    <3>1. /\ pc' \in [Node -> {"closed", "idle", "loop", "append", "replay"}]
          /\ batch' \in [Node -> Seq(Envelope)]
          /\ answers' \in [Node -> Seq(Answers)]
          /\ accepted' \in [Node -> Seq(Envelope)]
          /\ acked' \subseteq [envelope : Envelope, index : Nat]
      BY <1>7, <2>1, ReturnType
    <3> QED BY <1>13, <3>1 DEF TypeOK, EndLoop, seqVars
  <2>2. CASE pc' = [pc EXCEPT ![n] = "append"] /\ UNCHANGED <<callVars, acked>>
    BY <1>13, <2>2 DEF TypeOK, EndLoop, seqVars, callVars
  <2> QED BY <1>13, <2>1, <2>2 DEF EndLoop
<1>14. ASSUME NEW n \in Node, AppendDurably(n) PROVE TypeOK'
  <2>1. /\ view[n] = log /\ log' = log \o accepted[n]
        /\ view' = [view EXCEPT ![n] = log']
    BY <1>14 DEF AppendDurably, TileLog!AppendBatch
  <2>2. log \in Seq(Envelope) /\ accepted[n] \in Seq(Envelope) /\ Len(view[n]) \in Nat
    BY <2>1 DEF TypeOK
  <2>3. log' \in Seq(Envelope) /\ view' \in [Node -> Seq(Envelope) \cup {Off}]
    BY <2>1, <2>2 DEF TypeOK
  <2>4. DOMAIN by_leaf' = Node /\ \A m \in Node : IsLeaves(by_leaf'[m])
    <3> DEFINE P(e) == CHOOSE k \in DOMAIN accepted[n] : accepted[n][k] = e
               X == {accepted[n][k] : k \in DOMAIN accepted[n]}
               g == [e \in DOMAIN by_leaf[n] \cup X |->
                       IF e \in DOMAIN by_leaf[n] THEN by_leaf[n][e] ELSE Len(view[n]) + P(e) - 1]
    <3>1. \A e \in X : P(e) \in DOMAIN accepted[n]
      OBVIOUS
    <3>2. \A e \in X : Len(view[n]) + P(e) - 1 \in Nat /\ e \in Envelope
      <4>1. \A k \in DOMAIN accepted[n] : k \in Nat /\ k >= 1 /\ accepted[n][k] \in Envelope
        BY <2>2
      <4> HIDE DEF P
      <4> QED BY SMTT(30), <2>2, <3>1, <4>1
    <3>3. IsLeaves(by_leaf[n]) /\ DOMAIN by_leaf = Node
      BY DEF TypeOK
    <3>4. by_leaf' = [by_leaf EXCEPT ![n] = g]
      BY <1>14 DEF AppendDurably
    <3> HIDE DEF P, X
    <3>5. IsLeaves(g)
      BY <3>2, <3>3 DEF IsLeaves
    <3> HIDE DEF g
    <3> QED BY <3>3, <3>4, <3>5 DEF TypeOK
  <2>5. /\ pc' \in [Node -> {"closed", "idle", "loop", "append", "replay"}]
        /\ batch' \in [Node -> Seq(Envelope)]
        /\ answers' \in [Node -> Seq(Answers)]
        /\ accepted' \in [Node -> Seq(Envelope)]
        /\ acked' \subseteq [envelope : Envelope, index : Nat]
    <3> DEFINE r == RegisterWaiting(n)
    <3>1. /\ DOMAIN r = DOMAIN answers[n]
          /\ \A i \in DOMAIN answers[n] :
               r[i] = IF answers[n][i].tag = "waiting"
                      THEN Registered(Len(view[n]) + answers[n][i].at - 1) ELSE answers[n][i]
      BY DEF RegisterWaiting
    <3>2. \A i \in DOMAIN answers[n] : answers[n][i].tag = "waiting" =>
            answers[n][i].at \in Nat /\ answers[n][i].at >= 1
      <4>1. \A k \in DOMAIN accepted[n] : k \in Nat /\ k >= 1
        BY <2>2
      <4>2. \A i \in DOMAIN answers[n] : answers[n][i].tag = "waiting" =>
              answers[n][i].at \in DOMAIN accepted[n]
        BY DEF AnswersAreTrue
      <4> QED BY <4>1, <4>2
    <3>3. \A i \in DOMAIN answers[n] : r[i].at \in Nat
      <4>1. SUFFICES ASSUME NEW i \in DOMAIN answers[n] PROVE r[i].at \in Nat
        OBVIOUS
      <4>2. CASE answers[n][i].tag = "waiting"
        <5>1. r[i].at = Len(view[n]) + answers[n][i].at - 1
          <6>1. r[i] = Registered(Len(view[n]) + answers[n][i].at - 1)
            BY <3>1, <4>1, <4>2
          <6> HIDE DEF r
          <6> QED BY <6>1 DEF Registered
        <5> HIDE DEF r
        <5> QED BY <2>2, <3>2, <4>1, <4>2, <5>1
      <4>3. CASE answers[n][i].tag # "waiting"
        BY <1>7, <3>1, <4>1, <4>3
      <4> QED BY <4>2, <4>3
    <3>4. Return(n, r)
      BY <1>14 DEF AppendDurably
    <3> HIDE DEF r
    <3> QED BY <1>7, <3>1, <3>3, <3>4, ReturnType
  <2> QED BY <1>14, <2>3, <2>4, <2>5 DEF TypeOK, AppendDurably
<1>15. ASSUME NEW n \in Node, AppendFails(n) PROVE TypeOK'
  BY <1>15, EmptyTypes DEF TypeOK, AppendFails, StartReplay, seqVars, callVars
<1>16. ASSUME NEW n \in Node, AppendIndeterminate(n) PROVE TypeOK'
  <2>1. log' = log \o accepted[n] /\ view' = view
    BY <1>16 DEF AppendIndeterminate, TileLog!AppendUnacknowledged
  <2>2. log' \in Seq(Envelope)
    BY <2>1 DEF TypeOK
  <2> QED BY <1>16, <2>1, <2>2, EmptyTypes DEF TypeOK, AppendIndeterminate, StartReplay, seqVars, callVars
<1>17. ASSUME NEW n \in Node, FinishReplay(n) \/ FailReplay(n) PROVE TypeOK'
  BY <1>6, <1>7, <1>17
<1> QED
  BY <1>1, <1>2, <1>3, <1>4, <1>5, <1>9, <1>10, <1>11, <1>12, <1>13, <1>14, <1>15, <1>16, <1>17 DEF Next

----------------------------------------------------------------------------
(* The inductive invariant, step by step. *)

\* The log only grows.
Grows == Len(log) <= Len(log') /\ \A i \in 1..Len(log) : log'[i] = log[i]

\* Nothing of this sequencer changes.
Same(n) ==
  /\ view'[n] = view[n] /\ pc'[n] = pc[n] /\ chain'[n] = chain[n] /\ by_leaf'[n] = by_leaf[n]
  /\ poisoned'[n] = poisoned[n] /\ batch'[n] = batch[n] /\ answers'[n] = answers[n]
  /\ accepted'[n] = accepted[n] /\ fresh'[n] = fresh[n] /\ purpose'[n] = purpose[n]

\* What holds of a sequencer that does nothing still holds when others append.
LEMMA Frame ==
  ASSUME TypeOK, TypeOK', NEW n \in Node, NodeInv(n), Same(n), Grows
  PROVE  NodeInv(n)'
<1>1. log \in Seq(Envelope) /\ log' \in Seq(Envelope) /\ view[n] \in Seq(Envelope) \cup {Off}
  BY DEF TypeOK
<1>2. ViewIsPrefix(n)'
  <2>1. Len(log) \in Nat /\ Len(log') \in Nat
    BY <1>1
  <2>2. view[n] # Off => Len(view[n]) \in Nat
    BY <1>1
  <2> QED BY <2>1, <2>2 DEF NodeInv, ViewIsPrefix, Same, Grows
<1>3. CallIsClean(n)'
  BY DEF NodeInv, CallIsClean, Same
<1>4. AnswersAreTrue(n)'
  BY DEF NodeInv, AnswersAreTrue, Same
<1>5. LiveStateIsAhead(n)'
  BY DEF NodeInv, LiveStateIsAhead, Ahead, Same
<1>6. ReplayIsExact(n)'
  BY DEF NodeInv, ReplayIsExact, Done, Same
<1> QED BY <1>2, <1>3, <1>4, <1>5, <1>6 DEF NodeInv

\* So it is enough to look at the sequencer that takes the step.
LEMMA OneNode ==
  ASSUME TypeOK, TypeOK', IInv, NEW n \in Node, NodeInv(n)', LogIsSound', RegistrationsHold',
         Grows, \A m \in Node : m # n => Same(m)
  PROVE  IInv'
<1>1. ASSUME NEW m \in Node PROVE NodeInv(m)'
  <2>1. CASE m = n
    BY <2>1
  <2>2. CASE m # n
    BY <2>2, Frame DEF IInv
  <2> QED BY <2>1, <2>2
<1> QED BY <1>1 DEF IInv

\* A step that leaves the log and the acknowledgements alone.
LEMMA LogKept ==
  ASSUME TypeOK, IInv, UNCHANGED <<log, acked>>
  PROVE  LogIsSound' /\ RegistrationsHold' /\ Grows
<1>1. LogIsSound'
  BY DEF IInv, LogIsSound
<1>2. RegistrationsHold'
  BY DEF IInv, RegistrationsHold
<1>3. Grows
  BY DEF Grows, TypeOK
<1> QED BY <1>1, <1>2, <1>3

\* Whoever is told the truth is told what stays true.
LEMMA ReturnHolds ==
  ASSUME TypeOK, log' \in Seq(Envelope), IInv, Grows, NEW n \in Node, NEW replies, Return(n, replies),
         \A i \in DOMAIN replies : replies[i].tag = "registered" =>
           replies[i].at + 1 \in DOMAIN log' /\ log'[replies[i].at + 1] = batch[n][i]
  PROVE  RegistrationsHold'
<1>1. SUFFICES ASSUME NEW r \in acked'
               PROVE  r.index + 1 \in DOMAIN log' /\ log'[r.index + 1] = r.envelope
  BY DEF RegistrationsHold
<1>2. CASE r \in acked
  <2>1. r.index + 1 \in DOMAIN log /\ log[r.index + 1] = r.envelope
    BY <1>2 DEF IInv, RegistrationsHold
  <2>2. DOMAIN log = 1..Len(log) /\ DOMAIN log' = 1..Len(log') /\ Len(log) \in Nat /\ Len(log') \in Nat
    BY DEF TypeOK
  <2> QED BY <2>1, <2>2 DEF Grows
<1>3. CASE r \notin acked
  <2>1. PICK i \in DOMAIN replies : /\ replies[i].tag = "registered"
                                    /\ r = [envelope |-> batch[n][i], index |-> replies[i].at]
    BY <1>3 DEF Return
  <2> QED BY <2>1
<1> QED BY <1>2, <1>3

\* An index this sequencer knows is one of the durable log.
LEMMA KnownIsDurable ==
  ASSUME TypeOK, log' \in Seq(Envelope), IInv, Grows, NEW n \in Node, pc[n] # "closed",
         NEW k \in DOMAIN view[n]
  PROVE  k \in DOMAIN log' /\ log'[k] = view[n][k]
<1>1. /\ view[n] \in Seq(Envelope) /\ Len(view[n]) <= Len(log)
      /\ \A i \in 1..Len(view[n]) : view[n][i] = log[i]
  BY SequencerAssumption DEF TypeOK, IInv, NodeInv, ViewIsPrefix
<1>2. k \in 1..Len(view[n]) /\ Len(view[n]) \in Nat
  BY <1>1
<1>3. Len(log) \in Nat /\ Len(log') \in Nat /\ DOMAIN log' = 1..Len(log')
  BY DEF TypeOK
<1> QED BY <1>1, <1>2, <1>3 DEF Grows

\* A replay starts exact.
LEMMA StartIsExact ==
  ASSUME TypeOK', NEW n \in Node, view'[n] \in Seq(Envelope), fresh'[n] = StartOfLog
  PROVE  ReplayIsExact(n)'
<1>1. Done(n)' = <<>>
  BY EmptyTypes DEF Done
<1>2. Bodies(<<>>) = <<>>
  BY DEF Bodies
<1>3. Reflects(EmptyChain, Bodies(<<>>))
  BY <1>2, EmptyIsSound
<1>4. Indexes(NoLeaves, <<>>)
  BY DEF Indexes, NoLeaves, ToSet
<1>5. 0 <= Len(view'[n])
  OBVIOUS
<1> QED BY <1>1, <1>3, <1>4, <1>5, EmptyTypes DEF ReplayIsExact

\* What a sequencer knows obeys the rules.
LEMMA ViewIsSound ==
  ASSUME TypeOK, IInv, NEW n \in Node, pc[n] # "closed"
  PROVE  view[n] \in Seq(Envelope) /\ Sound(Bodies(view[n]))
<1>1. /\ view[n] \in Seq(Envelope) /\ Len(view[n]) <= Len(log)
      /\ \A i \in 1..Len(view[n]) : view[n][i] = log[i]
  BY SequencerAssumption DEF TypeOK, IInv, NodeInv, ViewIsPrefix
<1>2. log \in Seq(Envelope) /\ Sound(Bodies(log))
  BY DEF TypeOK, IInv, LogIsSound
<1> QED BY <1>1, <1>2, SoundPart

\* Opening: the view is the whole log and a replay starts.
LEMMA OpenStep ==
  ASSUME TypeOK, TypeOK', IInv, NEW n \in Node, Open(n)
  PROVE  IInv'
<1>1. /\ UNCHANGED <<log, acked>> /\ view[n] = Off /\ view' = [view EXCEPT ![n] = log]
      /\ pc' = [pc EXCEPT ![n] = "replay"] /\ purpose' = [purpose EXCEPT ![n] = "open"]
      /\ fresh' = [fresh EXCEPT ![n] = StartOfLog]
      /\ UNCHANGED <<chain, by_leaf, poisoned, batch, answers, accepted>>
  BY DEF Open, TileLog!Open, StartReplay, callVars
<1>2. view'[n] = log /\ pc'[n] = "replay" /\ purpose'[n] = "open" /\ fresh'[n] = StartOfLog
  BY <1>1 DEF TypeOK
<1>3. pc[n] = "closed" /\ accepted[n] = <<>> /\ answers[n] = <<>>
  BY <1>1 DEF IInv, NodeInv, ViewIsPrefix, CallIsClean
<1>4. log \in Seq(Envelope) /\ Len(log) \in Nat /\ log # Off
  BY SequencerAssumption DEF TypeOK
<1>5. ViewIsPrefix(n)'
  BY <1>1, <1>2, <1>4 DEF ViewIsPrefix
<1>6. CallIsClean(n)' /\ AnswersAreTrue(n)' /\ LiveStateIsAhead(n)'
  BY <1>1, <1>2, <1>3 DEF CallIsClean, AnswersAreTrue, LiveStateIsAhead, IInv, NodeInv
<1>7. ReplayIsExact(n)'
  BY <1>2, <1>4, StartIsExact
<1>8. \A m \in Node : m # n => Same(m)
  BY <1>1 DEF Same, TypeOK
<1> QED BY <1>1, <1>5, <1>6, <1>7, <1>8, LogKept, OneNode DEF NodeInv

\* Closing: everything but the log is forgotten.
LEMMA StopStep ==
  ASSUME TypeOK, TypeOK', IInv, NEW n \in Node, Stop(n)
  PROVE  IInv'
<1>1. UNCHANGED <<log, acked>>
  BY DEF Stop, TileLog!Close
<1>2. /\ view'[n] = Off /\ pc'[n] = "closed" /\ batch'[n] = <<>> /\ answers'[n] = <<>>
      /\ accepted'[n] = <<>> /\ poisoned'[n] = FALSE
  BY DEF Stop, TileLog!Close, TypeOK
<1>3. NodeInv(n)'
  BY <1>2 DEF NodeInv, ViewIsPrefix, CallIsClean, AnswersAreTrue, LiveStateIsAhead, ReplayIsExact
<1>4. \A m \in Node : m # n => Same(m)
  BY DEF Same, TypeOK, Stop, TileLog!Close
<1> QED BY <1>1, <1>3, <1>4, LogKept, OneNode

\* A batch is taken: the loop starts, or a replay first.
LEMMA SubmitStep ==
  ASSUME TypeOK, TypeOK', IInv, NEW n \in Node, NEW b \in Batches, Submit(n, b)
  PROVE  IInv'
<1>1. /\ pc[n] = "idle" /\ batch' = [batch EXCEPT ![n] = b]
      /\ UNCHANGED <<log, view, chain, by_leaf, poisoned, answers, accepted, acked>>
  BY DEF Submit, seqVars
<1>2. accepted[n] = <<>> /\ answers[n] = <<>> /\ view[n] \in Seq(Envelope) /\ view[n] # Off
  BY <1>1, SequencerAssumption DEF TypeOK, IInv, NodeInv, ViewIsPrefix, CallIsClean
<1>3. b \in Seq(Envelope) /\ Len(b) \in Nat /\ batch'[n] = b
  BY <1>1, BatchType DEF TypeOK
<1>4. CASE poisoned[n]
  <2>1. /\ pc' = [pc EXCEPT ![n] = "replay"] /\ purpose' = [purpose EXCEPT ![n] = "heal"]
        /\ fresh' = [fresh EXCEPT ![n] = StartOfLog]
    BY <1>4 DEF Submit, StartReplay
  <2>2. pc'[n] = "replay" /\ purpose'[n] = "heal" /\ fresh'[n] = StartOfLog
    BY <2>1 DEF TypeOK
  <2>3. ViewIsPrefix(n)' /\ CallIsClean(n)' /\ AnswersAreTrue(n)' /\ LiveStateIsAhead(n)'
    BY <1>1, <1>2, <1>3, <2>2
       DEF ViewIsPrefix, CallIsClean, AnswersAreTrue, LiveStateIsAhead, IInv, NodeInv
  <2>4. ReplayIsExact(n)'
    BY <1>1, <1>2, <2>2, StartIsExact
  <2>5. \A m \in Node : m # n => Same(m)
    BY <1>1, <2>1 DEF Same, TypeOK
  <2> QED BY <1>1, <2>3, <2>4, <2>5, LogKept, OneNode DEF NodeInv
<1>5. CASE ~poisoned[n]
  <2>1. pc' = [pc EXCEPT ![n] = "loop"] /\ UNCHANGED <<purpose, fresh>>
    BY <1>5 DEF Submit
  <2>2. pc'[n] = "loop"
    BY <2>1 DEF TypeOK
  <2>3. ViewIsPrefix(n)' /\ CallIsClean(n)' /\ AnswersAreTrue(n)'
    BY <1>1, <1>2, <1>3, <1>5, <2>2 DEF ViewIsPrefix, CallIsClean, AnswersAreTrue, IInv, NodeInv
  <2>4. LiveStateIsAhead(n)' /\ ReplayIsExact(n)'
    BY <1>1, <1>5, <2>2 DEF LiveStateIsAhead, Ahead, ReplayIsExact, IInv, NodeInv
  <2>5. \A m \in Node : m # n => Same(m)
    BY <1>1, <2>1 DEF Same, TypeOK
  <2> QED BY <1>1, <2>3, <2>4, <2>5, LogKept, OneNode DEF NodeInv
<1> QED BY <1>4, <1>5

\* The first k entries, and one more.
LEMMA Slice ==
  ASSUME NEW S, NEW s \in Seq(S), NEW k \in Nat, k < Len(s)
  PROVE  /\ SubSeq(s, 1, k) \in Seq(S) /\ Len(SubSeq(s, 1, k)) = k
         /\ \A i \in 1..k : SubSeq(s, 1, k)[i] = s[i]
         /\ s[k + 1] \in S
         /\ SubSeq(s, 1, k + 1) = Append(SubSeq(s, 1, k), s[k + 1])
<1>1. \A i \in 1..(k + 1) : s[i] \in S
  OBVIOUS
<1>2. SubSeq(s, 1, k) = [i \in 1..k |-> s[i]] /\ SubSeq(s, 1, k + 1) = [i \in 1..(k + 1) |-> s[i]]
  OBVIOUS
<1>3. SubSeq(s, 1, k) \in Seq(S) /\ Len(SubSeq(s, 1, k)) = k
  BY <1>1, <1>2
<1>4. Append(SubSeq(s, 1, k), s[k + 1])
        = [i \in 1..(k + 1) |-> IF i = k + 1 THEN s[k + 1] ELSE SubSeq(s, 1, k)[i]]
  <2> DEFINE u == SubSeq(s, 1, k)
  <2>1. u \in Seq(S) /\ Len(u) = k /\ s[k + 1] \in S
    BY <1>1, <1>3
  <2> HIDE DEF u
  <2>2. Append(u, s[k + 1]) = [i \in 1..(k + 1) |-> IF i = k + 1 THEN s[k + 1] ELSE u[i]]
    BY <2>1
  <2> QED BY <2>2 DEF u
<1>5. \A i \in 1..k : SubSeq(s, 1, k)[i] = s[i]
  BY <1>2
<1>6. SubSeq(s, 1, k + 1) = Append(SubSeq(s, 1, k), s[k + 1])
  BY <1>2, <1>4, <1>5
<1> QED BY <1>1, <1>3, <1>5, <1>6

\* The next entry of a replay.
LEMMA ReplayStep ==
  ASSUME TypeOK, TypeOK', IInv, NEW n \in Node, ReplayEntry(n)
  PROVE  IInv'
<1> DEFINE c == fresh[n].count
           e == view[n][c + 1]
           d == Done(n)
           t == SubSeq(view[n], 1, c + 1)
<1>1. /\ pc[n] = "replay" /\ c \in Nat /\ c < Len(view[n])
      /\ UNCHANGED <<log, view, pc, chain, by_leaf, poisoned, batch, answers, accepted, purpose, acked>>
  BY DEF ReplayEntry, TypeOK, seqVars, callVars
<1>2. view[n] \in Seq(Envelope) /\ Sound(Bodies(view[n])) /\ Len(view[n]) \in Nat
  BY <1>1, ViewIsSound
<1>3. /\ e \in Envelope /\ d \in Seq(Envelope) /\ Len(d) = c
      /\ \A i \in 1..c : d[i] = view[n][i]
      /\ t \in Seq(Envelope) /\ Len(t) = c + 1 /\ \A i \in 1..(c + 1) : t[i] = view[n][i]
      /\ t = Append(d, e)
  <2>1. /\ d \in Seq(Envelope) /\ Len(d) = c /\ \A i \in 1..c : d[i] = view[n][i]
        /\ e \in Envelope /\ t = Append(d, e)
    BY ZenonT(40), <1>1, <1>2, Slice DEF Done
  <2> HIDE DEF e, d, t, c
  <2>2. t \in Seq(Envelope) /\ Len(t) = c + 1
    BY <1>1, <2>1, Appended
  <2>3. ASSUME NEW i \in 1..(c + 1) PROVE t[i] = view[n][i]
    <3>1. t[c + 1] = e /\ \A k \in 1..c : t[k] = d[k]
      BY <1>1, <2>1, Appended
    <3>2. CASE i = c + 1
      BY <3>1, <3>2 DEF e
    <3>3. CASE i # c + 1
      <4>1. i \in 1..c
        BY <1>1, <3>3
      <4> QED BY <2>1, <3>1, <4>1
    <3> QED BY <3>2, <3>3
  <2> QED BY <1>1, <2>1, <2>2, <2>3
<1>4. t = Append(d, e)
  BY <1>3
<1>5. Sound(Bodies(t))
  <2>1. Len(t) <= Len(view[n]) /\ \A i \in 1..Len(t) : t[i] = view[n][i]
    BY <1>1, <1>2, <1>3
  <2> HIDE DEF t
  <2> QED BY <1>2, <1>3, <2>1, SoundPart
<1>6. /\ IsChainState(fresh[n].chain) /\ Reflects(fresh[n].chain, Bodies(d))
      /\ Indexes(fresh[n].leaves, d)
  BY <1>1 DEF TypeOK, IInv, NodeInv, ReplayIsExact
<1>7. /\ fresh'[n].count = c + 1
      /\ fresh'[n].chain = CommitTo(fresh[n].chain, sealed[e].body)
      /\ fresh'[n].leaves = [f \in DOMAIN fresh[n].leaves \cup {e} |->
                               IF f = e THEN c ELSE fresh[n].leaves[f]]
      /\ \A m \in Node : m # n => fresh'[m] = fresh[m]
  BY DEF ReplayEntry, TypeOK
<1>8. Done(n)' = t
  BY <1>1, <1>7 DEF Done
<1> HIDE DEF c, e, d, t
<1>9. Reflects(fresh'[n].chain, Bodies(t))
  BY <1>3, <1>4, <1>5, <1>6, <1>7, CommitNext
<1>10. Indexes(fresh'[n].leaves, t)
  <2>1. \A i \in 1..Len(d) : d[i] # e
    <3>1. SUFFICES ASSUME NEW i \in 1..Len(d), d[i] = e PROVE FALSE
      OBVIOUS
    <3>2. t[i] = t[c + 1] /\ i \in 1..Len(t) /\ c + 1 \in 1..Len(t)
      BY <1>1, <1>3, <3>1 DEF e
    <3>3. i = c + 1
      BY <1>3, <1>5, <3>2, NoneTwice
    <3> QED BY <1>1, <1>3, <3>1, <3>3
  <2> DEFINE l == fresh[n].leaves
  <2>2. Indexes([f \in DOMAIN l \cup {e} |-> IF f = e THEN Len(d) ELSE l[f]], Append(d, e))
    <3>1. Indexes(l, d) /\ d \in Seq(Envelope) /\ e \in Envelope
      BY <1>3, <1>6
    <3> HIDE DEF l
    <3> QED BY <2>1, <3>1, IndexNext
  <2> QED BY <1>3, <1>4, <1>7, <2>2
<1>11. ReplayIsExact(n)'
  <2>1. fresh'[n].count <= Len(view'[n])
    BY <1>1, <1>2, <1>7
  <2> QED BY <1>8, <1>9, <1>10, <2>1 DEF ReplayIsExact
<1>12. ViewIsPrefix(n)' /\ CallIsClean(n)' /\ AnswersAreTrue(n)' /\ LiveStateIsAhead(n)'
  BY <1>1 DEF ViewIsPrefix, CallIsClean, AnswersAreTrue, LiveStateIsAhead, IInv, NodeInv
<1>13. \A m \in Node : m # n => Same(m)
  BY <1>1, <1>7 DEF Same
<1> QED BY <1>1, <1>11, <1>12, <1>13, LogKept, OneNode DEF NodeInv

\* Where a call returns, with the log unchanged: answers that say registered come
\* from the durable log.
LEMMA ReturnKeeps ==
  ASSUME TypeOK, TypeOK', IInv, NEW n \in Node, pc[n] # "closed", log' = log,
         \/ Return(n, answers[n]) \/ Return(n, RefuseWaiting(n)) \/ Return(n, RefuseAll(n))
         \/ acked' = acked
  PROVE  LogIsSound' /\ RegistrationsHold' /\ Grows
<1>1. LogIsSound'
  BY DEF IInv, LogIsSound
<1>2. Grows
  BY DEF Grows, TypeOK
<1>3. log' \in Seq(Envelope)
  BY DEF TypeOK
<1>4. \A i \in DOMAIN answers[n] : answers[n][i].tag = "registered" =>
        answers[n][i].at + 1 \in DOMAIN log' /\ log'[answers[n][i].at + 1] = batch[n][i]
  BY <1>2, <1>3, KnownIsDurable DEF IInv, NodeInv, AnswersAreTrue
<1>5. CASE Return(n, answers[n])
  BY <1>1, <1>2, <1>3, <1>4, <1>5, ReturnHolds
<1>6. CASE Return(n, RefuseWaiting(n))
  <2> DEFINE r == RefuseWaiting(n)
  <2>1. /\ DOMAIN r = DOMAIN answers[n]
        /\ \A i \in DOMAIN r : r[i].tag = "registered" => r[i] = answers[n][i]
    BY DEF RefuseWaiting, Refused
  <2> HIDE DEF r
  <2>2. \A i \in DOMAIN r : r[i].tag = "registered" =>
          r[i].at + 1 \in DOMAIN log' /\ log'[r[i].at + 1] = batch[n][i]
    BY <1>4, <2>1
  <2>3. Return(n, r)
    BY <1>6 DEF r
  <2> QED BY <1>1, <1>2, <1>3, <2>2, <2>3, ReturnHolds
<1>7. CASE Return(n, RefuseAll(n))
  <2>1. \A i \in DOMAIN RefuseAll(n) : RefuseAll(n)[i].tag # "registered"
    BY DEF RefuseAll, Refused
  <2> QED BY <1>1, <1>2, <1>3, <1>7, <2>1, ReturnHolds
<1>8. CASE acked' = acked
  BY <1>8, LogKept
<1> QED BY <1>5, <1>6, <1>7, <1>8

\* Appending nothing to a sequence.
LEMMA ConcatEmpty ==
  ASSUME NEW S, NEW s \in Seq(S)
  PROVE  s \o <<>> = s
OBVIOUS

\* After a call, a sequencer that shows the state of its log is in order.
LEMMA IdleIsAhead ==
  ASSUME TypeOK', NEW n \in Node, view'[n] \in Seq(Envelope), accepted'[n] = <<>>,
         poisoned'[n] \/ /\ Sound(Bodies(view'[n]))
                         /\ Reflects(chain'[n], Bodies(view'[n]))
                         /\ Indexes(by_leaf'[n], view'[n])
  PROVE  LiveStateIsAhead(n)'
<1>1. Ahead(n)' = view'[n]
  BY ConcatEmpty DEF Ahead
<1> QED BY <1>1 DEF LiveStateIsAhead

\* The end of a replay.
LEMMA FinishStep ==
  ASSUME TypeOK, TypeOK', IInv, NEW n \in Node, FinishReplay(n)
  PROVE  IInv'
<1>1. /\ pc[n] = "replay" /\ fresh[n].count = Len(view[n])
      /\ UNCHANGED <<log, view, registry, purpose>>
      /\ chain' = [chain EXCEPT ![n] = fresh[n].chain]
      /\ by_leaf' = [by_leaf EXCEPT ![n] = fresh[n].leaves]
      /\ fresh' = [fresh EXCEPT ![n] = StartOfLog]
  BY DEF FinishReplay, Adopt
<1>2. view[n] \in Seq(Envelope) /\ Sound(Bodies(view[n])) /\ Len(view[n]) \in Nat
  BY <1>1, ViewIsSound
<1>3. Done(n) = view[n]
  BY <1>1, <1>2 DEF Done
<1>4. /\ chain'[n] = fresh[n].chain /\ by_leaf'[n] = fresh[n].leaves
      /\ \A m \in Node : m # n => /\ chain'[m] = chain[m] /\ by_leaf'[m] = by_leaf[m]
                                  /\ fresh'[m] = fresh[m]
  BY <1>1 DEF TypeOK
<1>5. Reflects(chain'[n], Bodies(view'[n])) /\ Indexes(by_leaf'[n], view'[n])
  BY <1>1, <1>3, <1>4 DEF IInv, NodeInv, ReplayIsExact
<1>6. \/ Return(n, RefuseWaiting(n)) /\ UNCHANGED poisoned
      \/ /\ purpose[n] # "undo"
         /\ \/ pc' = [pc EXCEPT ![n] = "idle"] /\ UNCHANGED poisoned
            \/ pc' = [pc EXCEPT ![n] = "loop"] /\ poisoned' = [poisoned EXCEPT ![n] = FALSE]
         /\ UNCHANGED <<batch, answers, accepted, acked>>
  <2>1. purpose[n] \in {"open", "heal", "undo"}
    BY DEF TypeOK
  <2> QED BY <2>1 DEF FinishReplay, callVars
<1>7. LogIsSound' /\ RegistrationsHold' /\ Grows
  BY <1>1, <1>6, ReturnKeeps
<1>8. CASE Return(n, RefuseWaiting(n)) /\ UNCHANGED poisoned
  <2>1. /\ pc'[n] = "idle" /\ batch'[n] = <<>> /\ answers'[n] = <<>> /\ accepted'[n] = <<>>
        /\ \A m \in Node : m # n => /\ pc'[m] = pc[m] /\ batch'[m] = batch[m]
                                    /\ answers'[m] = answers[m] /\ accepted'[m] = accepted[m]
    BY <1>8 DEF Return, TypeOK
  <2>2. ViewIsPrefix(n)' /\ CallIsClean(n)' /\ AnswersAreTrue(n)' /\ ReplayIsExact(n)'
    BY <1>1, <2>1 DEF ViewIsPrefix, CallIsClean, AnswersAreTrue, ReplayIsExact, IInv, NodeInv
  <2>3. LiveStateIsAhead(n)'
    BY <1>1, <1>2, <1>5, <2>1, IdleIsAhead
  <2>4. \A m \in Node : m # n => Same(m)
    BY <1>1, <1>4, <1>8, <2>1 DEF Same
  <2> QED BY <1>7, <2>2, <2>3, <2>4, OneNode DEF NodeInv
<1>9. CASE /\ purpose[n] # "undo"
           /\ \/ pc' = [pc EXCEPT ![n] = "idle"] /\ UNCHANGED poisoned
              \/ pc' = [pc EXCEPT ![n] = "loop"] /\ poisoned' = [poisoned EXCEPT ![n] = FALSE]
           /\ UNCHANGED <<batch, answers, accepted, acked>>
  <2>1. /\ pc'[n] \in {"idle", "loop"} /\ (pc'[n] = "loop" => ~poisoned'[n])
        /\ \A m \in Node : m # n => pc'[m] = pc[m] /\ poisoned'[m] = poisoned[m]
    BY <1>9 DEF TypeOK
  <2>2. accepted[n] = <<>> /\ answers[n] = <<>>
    BY <1>1, <1>9 DEF IInv, NodeInv, CallIsClean
  <2>3. ViewIsPrefix(n)' /\ CallIsClean(n)' /\ AnswersAreTrue(n)' /\ ReplayIsExact(n)'
    BY <1>1, <1>9, <2>1, <2>2 DEF ViewIsPrefix, CallIsClean, AnswersAreTrue, ReplayIsExact, IInv, NodeInv
  <2>4. LiveStateIsAhead(n)'
    BY <1>1, <1>2, <1>5, <1>9, <2>2, IdleIsAhead
  <2>5. \A m \in Node : m # n => Same(m)
    BY <1>1, <1>4, <1>9, <2>1 DEF Same
  <2> QED BY <1>7, <2>3, <2>4, <2>5, OneNode DEF NodeInv
<1> QED BY <1>6, <1>8, <1>9

\* A replay that fails leaves the sequencer poisoned.
LEMMA FailStep ==
  ASSUME TypeOK, TypeOK', IInv, NEW n \in Node, FailReplay(n)
  PROVE  IInv'
<1>1. /\ pc[n] = "replay" /\ UNCHANGED <<log, view, registry, purpose>>
      /\ fresh' = [fresh EXCEPT ![n] = StartOfLog]
      /\ poisoned' = [poisoned EXCEPT ![n] = TRUE]
      /\ Return(n, RefuseWaiting(n)) \/ Return(n, RefuseAll(n))
  BY DEF FailReplay
<1>2. view[n] \in Seq(Envelope)
  BY <1>1, ViewIsSound
<1>3. /\ pc'[n] = "idle" /\ batch'[n] = <<>> /\ answers'[n] = <<>> /\ accepted'[n] = <<>>
      /\ poisoned'[n]
      /\ \A m \in Node : m # n => /\ pc'[m] = pc[m] /\ batch'[m] = batch[m]
                                  /\ answers'[m] = answers[m] /\ accepted'[m] = accepted[m]
                                  /\ poisoned'[m] = poisoned[m] /\ fresh'[m] = fresh[m]
  BY <1>1 DEF Return, TypeOK
<1>4. \A m \in Node : m # n => chain'[m] = chain[m] /\ by_leaf'[m] = by_leaf[m]
  BY SMTT(30) DEF FailReplay, TypeOK
<1>5. ViewIsPrefix(n)' /\ CallIsClean(n)' /\ AnswersAreTrue(n)' /\ ReplayIsExact(n)'
  BY <1>1, <1>3 DEF ViewIsPrefix, CallIsClean, AnswersAreTrue, ReplayIsExact, IInv, NodeInv
<1>6. LiveStateIsAhead(n)'
  BY <1>3 DEF LiveStateIsAhead
<1>7. LogIsSound' /\ RegistrationsHold' /\ Grows
  BY <1>1, ReturnKeeps
<1>8. \A m \in Node : m # n => Same(m)
  BY <1>1, <1>3, <1>4 DEF Same
<1> QED BY <1>5, <1>6, <1>7, <1>8, OneNode DEF NodeInv

\* One more answer, that is true, with the accepted statements as they were.
LEMMA AnswerStep ==
  ASSUME TypeOK, TypeOK', IInv, NEW n \in Node, Judging(n), NEW a, Answer(n, a),
         UNCHANGED <<log, view, pc, seqVars, batch, accepted, fresh, purpose, acked>>,
         a.tag = "registered" => a.at + 1 \in DOMAIN view[n] /\ view[n][a.at + 1] = Current(n),
         a.tag = "waiting" => a.at \in DOMAIN accepted[n] /\ accepted[n][a.at] = Current(n)
  PROVE  IInv'
<1> DEFINE k == Len(answers[n])
<1>1. k \in Nat /\ answers[n] \in Seq(Answers) /\ Len(batch[n]) \in Nat /\ k < Len(batch[n]) /\ pc[n] = "loop"
  BY CurrentType DEF Judging, TypeOK
<1>2. answers'[n] = Append(answers[n], a) /\ \A m \in Node : m # n => answers'[m] = answers[m]
  BY DEF Answer, TypeOK
<1>3. /\ Len(answers'[n]) = k + 1 /\ DOMAIN answers'[n] = 1..(k + 1) /\ DOMAIN answers[n] = 1..k
      /\ answers'[n][k + 1] = a /\ \A i \in 1..k : answers'[n][i] = answers[n][i]
  BY <1>1, <1>2
<1>4. AnswersAreTrue(n)'
  <2>1. SUFFICES ASSUME NEW i \in DOMAIN answers'[n]
                 PROVE  LET b == answers'[n][i] IN
                        /\ b.tag = "registered" => b.at + 1 \in DOMAIN view[n] /\ view[n][b.at + 1] = batch[n][i]
                        /\ b.tag = "waiting" => b.at \in DOMAIN accepted[n] /\ accepted[n][b.at] = batch[n][i]
    BY DEF AnswersAreTrue
  <2>2. CASE i = k + 1
    BY <1>3, <2>2 DEF Current
  <2>3. CASE i # k + 1
    <3>1. i \in DOMAIN answers[n] /\ answers'[n][i] = answers[n][i]
      BY <1>1, <1>3, <2>1, <2>3
    <3> QED BY <3>1 DEF IInv, NodeInv, AnswersAreTrue
  <2> QED BY <2>2, <2>3
<1>5. CallIsClean(n)'
  BY <1>1, <1>3 DEF CallIsClean, IInv, NodeInv, seqVars
<1>6. ViewIsPrefix(n)' /\ LiveStateIsAhead(n)' /\ ReplayIsExact(n)'
  BY <1>1 DEF ViewIsPrefix, LiveStateIsAhead, Ahead, ReplayIsExact, IInv, NodeInv, seqVars
<1>7. \A m \in Node : m # n => Same(m)
  BY <1>2 DEF Same, seqVars
<1> QED BY <1>4, <1>5, <1>6, <1>7, LogKept, OneNode DEF NodeInv

\* A retry of a durable statement is told its index.
LEMMA DuplicateStep ==
  ASSUME TypeOK, TypeOK', IInv, NEW n \in Node, AnswerDuplicate(n)
  PROVE  IInv'
<1> DEFINE e == Current(n)
           a == Registered(by_leaf[n][e])
<1>1. Judging(n) /\ e \in DOMAIN by_leaf[n] /\ Answer(n, a)
  BY DEF AnswerDuplicate, IsDurable
<1>2. Indexes(by_leaf[n], view[n]) /\ view[n] \in Seq(Envelope)
  BY <1>1, ViewIsSound DEF Judging, IInv, NodeInv, LiveStateIsAhead, CallIsClean
<1>3. PICK k \in DOMAIN view[n] : view[n][k] = e /\ by_leaf[n][e] = k - 1
  BY <1>1, <1>2 DEF Indexes, ToSet
<1>4. k \in Nat /\ a.at + 1 = k /\ a.tag = "registered"
  BY <1>2, <1>3 DEF Registered
<1> HIDE DEF a
<1> QED BY <1>1, <1>3, <1>4, AnswerStep DEF AnswerDuplicate

\* A statement of the batch that repeats an accepted one shares its slot.
LEMMA PendingStep ==
  ASSUME TypeOK, TypeOK', IInv, NEW n \in Node, AnswerPending(n)
  PROVE  IInv'
<1>1. PICK k \in DOMAIN accepted[n] : accepted[n][k] = Current(n) /\ Answer(n, Waiting(k))
  BY DEF AnswerPending
<1>2. Waiting(k).tag = "waiting" /\ Waiting(k).at = k
  BY DEF Waiting
<1> QED BY <1>1, <1>2, AnswerStep DEF AnswerPending

\* A refused statement changes nothing.
LEMMA RejectStep ==
  ASSUME TypeOK, TypeOK', IInv, NEW n \in Node, Reject(n)
  PROVE  IInv'
<1>1. Refused.tag = "refused"
  BY DEF Refused
<1> QED BY <1>1, AnswerStep DEF Reject

\* An accepted statement takes the next slot, and the live state runs ahead.
LEMMA AcceptStep ==
  ASSUME TypeOK, TypeOK', IInv, NEW n \in Node, Accept(n)
  PROVE  IInv'
<1> DEFINE e == Current(n)
           b == sealed[e].body
           k == Len(answers[n])
           a == Waiting(Len(accepted[n]) + 1)
           s == Ahead(n)
<1>1. /\ Judging(n) /\ Passes(chain[n], b)
      /\ UNCHANGED <<log, view, pc, registry, by_leaf, poisoned, batch, fresh, purpose, acked>>
      /\ chain' = [chain EXCEPT ![n] = CommitTo(chain[n], b)]
      /\ accepted' = [accepted EXCEPT ![n] = Append(accepted[n], e)]
      /\ Answer(n, a)
  BY DEF Accept, Valid, Speculate
<1>2. pc[n] = "loop" /\ ~poisoned[n] /\ view[n] \in Seq(Envelope)
  BY <1>1, ViewIsSound DEF Judging, IInv, NodeInv, CallIsClean
<1>3. /\ e \in Envelope /\ k \in Nat /\ answers[n] \in Seq(Answers) /\ b \in Statement
      /\ Len(batch[n]) \in Nat /\ k < Len(batch[n])
  BY <1>1, CurrentType, BodiesAppend DEF Judging, TypeOK
<1>4. accepted[n] \in Seq(Envelope) /\ Len(accepted[n]) \in Nat /\ DOMAIN accepted[n] = 1..Len(accepted[n])
  BY DEF TypeOK
<1>5. /\ chain'[n] = CommitTo(chain[n], b) /\ accepted'[n] = Append(accepted[n], e)
      /\ answers'[n] = Append(answers[n], a)
      /\ \A m \in Node : m # n => /\ chain'[m] = chain[m] /\ accepted'[m] = accepted[m]
                                  /\ answers'[m] = answers[m]
  BY <1>1 DEF TypeOK, Answer
<1>6. s \in Seq(Envelope) /\ Ahead(n)' = Append(s, e)
  <2> HIDE DEF e
  <2>1. view[n] \o Append(accepted[n], e) = Append(view[n] \o accepted[n], e)
    <3>1. view[n] \in Seq(Envelope) /\ accepted[n] \in Seq(Envelope) /\ e \in Envelope
      BY <1>2, <1>3, <1>4
    <3>2. \A v, w \in Seq(Envelope) : \A x \in Envelope : v \o Append(w, x) = Append(v \o w, x)
      BY ConcatAppend
    <3> QED BY <3>1, <3>2, Zenon
  <2>2. view[n] \o accepted[n] \in Seq(Envelope)
    BY <1>2, <1>4, Concatenated
  <2>3. Ahead(n)' = view[n] \o Append(accepted[n], e)
    <3>1. view'[n] = view[n]
      BY <1>1
    <3> QED BY <1>5, <3>1, Zenon DEF Ahead
  <2> QED BY <2>1, <2>2, <2>3, Zenon DEF Ahead
<1>7. Sound(Bodies(s)) /\ Reflects(chain[n], Bodies(s)) /\ Indexes(by_leaf[n], view[n]) /\ IsChainState(chain[n])
  BY <1>2 DEF TypeOK, IInv, NodeInv, LiveStateIsAhead
<1> HIDE DEF e, s
<1>8. Sound(Bodies(Append(s, e)))
  BY <1>1, <1>3, <1>6, <1>7, BodiesAppend, PassedIsSound
<1>9. Reflects(chain'[n], Bodies(Append(s, e)))
  BY <1>3, <1>5, <1>6, <1>7, <1>8, CommitNext
<1>10. LiveStateIsAhead(n)'
  BY <1>1, <1>6, <1>7, <1>8, <1>9 DEF LiveStateIsAhead
<1>11. /\ Len(answers'[n]) = k + 1 /\ DOMAIN answers'[n] = 1..(k + 1) /\ DOMAIN answers[n] = 1..k
       /\ answers'[n][k + 1] = a /\ \A i \in 1..k : answers'[n][i] = answers[n][i]
  BY <1>3, <1>5
<1>12. /\ DOMAIN accepted'[n] = 1..(Len(accepted[n]) + 1)
       /\ accepted'[n][Len(accepted[n]) + 1] = e
       /\ \A i \in DOMAIN accepted[n] : i \in DOMAIN accepted'[n] /\ accepted'[n][i] = accepted[n][i]
  BY <1>3, <1>4, <1>5
<1>13. AnswersAreTrue(n)'
  <2>1. SUFFICES ASSUME NEW i \in DOMAIN answers'[n]
                 PROVE  LET r == answers'[n][i] IN
                        /\ r.tag = "registered" => r.at + 1 \in DOMAIN view[n] /\ view[n][r.at + 1] = batch[n][i]
                        /\ r.tag = "waiting" => r.at \in DOMAIN accepted'[n] /\ accepted'[n][r.at] = batch[n][i]
    BY <1>1 DEF AnswersAreTrue
  <2>2. CASE i = k + 1
    <3>1. a.tag = "waiting" /\ a.at = Len(accepted[n]) + 1
      BY DEF Waiting
    <3>2. batch[n][i] = e
      BY <2>2 DEF e, Current
    <3> HIDE DEF a
    <3>3. Len(accepted[n]) + 1 \in DOMAIN accepted'[n]
      BY <1>4, <1>12
    <3> QED BY <1>11, <1>12, <2>2, <3>1, <3>2, <3>3
  <2>3. CASE i # k + 1
    <3>1. i \in DOMAIN answers[n] /\ answers'[n][i] = answers[n][i]
      BY <1>3, <1>11, <2>1, <2>3
    <3> QED BY <1>12, <3>1 DEF IInv, NodeInv, AnswersAreTrue
  <2> QED BY <2>2, <2>3
<1>14. CallIsClean(n)'
  BY <1>1, <1>2, <1>3, <1>11 DEF CallIsClean
<1>15. ViewIsPrefix(n)' /\ ReplayIsExact(n)'
  BY <1>1, <1>2 DEF ViewIsPrefix, ReplayIsExact, IInv, NodeInv
<1>16. \A m \in Node : m # n => Same(m)
  BY <1>1, <1>5 DEF Same
<1> QED BY <1>1, <1>10, <1>13, <1>14, <1>15, <1>16, LogKept, OneNode DEF NodeInv

\* Every statement is judged: the call returns, or appends.
LEMMA EndStep ==
  ASSUME TypeOK, TypeOK', IInv, NEW n \in Node, EndLoop(n)
  PROVE  IInv'
<1>1. /\ pc[n] = "loop"
      /\ UNCHANGED <<log, view, registry, chain, by_leaf, poisoned, fresh, purpose>>
  BY DEF EndLoop, seqVars
<1>2. ~poisoned[n] /\ view[n] \in Seq(Envelope)
  BY <1>1, ViewIsSound DEF IInv, NodeInv, CallIsClean
<1>3. CASE accepted[n] = <<>> /\ Return(n, answers[n])
  <2>1. /\ pc'[n] = "idle" /\ batch'[n] = <<>> /\ answers'[n] = <<>> /\ accepted'[n] = <<>>
        /\ \A m \in Node : m # n => /\ pc'[m] = pc[m] /\ batch'[m] = batch[m]
                                    /\ answers'[m] = answers[m] /\ accepted'[m] = accepted[m]
    BY <1>3 DEF Return, TypeOK
  <2>2. ViewIsPrefix(n)' /\ CallIsClean(n)' /\ AnswersAreTrue(n)' /\ ReplayIsExact(n)'
    BY <1>1, <2>1 DEF ViewIsPrefix, CallIsClean, AnswersAreTrue, ReplayIsExact, IInv, NodeInv
  <2>3. LiveStateIsAhead(n)'
    BY <1>1, <1>2, <1>3, <2>1 DEF LiveStateIsAhead, Ahead, IInv, NodeInv
  <2>4. \A m \in Node : m # n => Same(m)
    BY <1>1, <2>1 DEF Same
  <2>5. LogIsSound' /\ RegistrationsHold' /\ Grows
    BY <1>1, <1>3, ReturnKeeps
  <2> QED BY <2>2, <2>3, <2>4, <2>5, OneNode DEF NodeInv
<1>4. CASE pc' = [pc EXCEPT ![n] = "append"] /\ UNCHANGED <<callVars, acked>>
  <2>1. pc'[n] = "append" /\ \A m \in Node : m # n => pc'[m] = pc[m]
    BY <1>4 DEF TypeOK
  <2>2. NodeInv(n)'
    BY <1>1, <1>2, <1>4, <2>1 DEF NodeInv, ViewIsPrefix, CallIsClean, AnswersAreTrue, LiveStateIsAhead,
         Ahead, ReplayIsExact, IInv, callVars
  <2>3. \A m \in Node : m # n => Same(m)
    BY <1>1, <1>4, <2>1 DEF Same, callVars
  <2> QED BY <1>1, <1>4, <2>2, <2>3, LogKept, OneNode
<1> QED BY <1>3, <1>4 DEF EndLoop

\* Appending to the log keeps what was in it.
LEMMA AppendGrows ==
  ASSUME TypeOK, IInv, NEW n \in Node, pc[n] = "append", view[n] = log, log' = log \o accepted[n]
  PROVE  /\ log' = Ahead(n) /\ log' \in Seq(Envelope) /\ LogIsSound' /\ Grows
         /\ Len(log') = Len(log) + Len(accepted[n])
         /\ DOMAIN log' = 1..(Len(log) + Len(accepted[n]))
         /\ \A i \in 1..Len(log) : log'[i] = log[i]
         /\ \A i \in 1..Len(accepted[n]) : log'[Len(log) + i] = accepted[n][i]
         /\ Len(log) \in Nat /\ Len(accepted[n]) \in Nat
         /\ DOMAIN accepted[n] = 1..Len(accepted[n]) /\ DOMAIN log = 1..Len(log)
<1>1. log \in Seq(Envelope) /\ accepted[n] \in Seq(Envelope)
  BY DEF TypeOK
<1>2. /\ log' \in Seq(Envelope) /\ Len(log') = Len(log) + Len(accepted[n])
      /\ DOMAIN log' = 1..(Len(log) + Len(accepted[n]))
      /\ \A i \in 1..Len(log) : log'[i] = log[i]
      /\ \A i \in 1..Len(accepted[n]) : log'[Len(log) + i] = accepted[n][i]
      /\ Len(log) \in Nat /\ Len(accepted[n]) \in Nat
  BY <1>1, Concatenated
<1>3. log' = Ahead(n)
  BY DEF Ahead
<1>4. Sound(Bodies(Ahead(n)))
  BY DEF IInv, NodeInv, LiveStateIsAhead, CallIsClean
<1>5. LogIsSound'
  BY <1>3, <1>4 DEF LogIsSound
<1>6. Grows
  BY <1>2 DEF Grows
<1> QED BY <1>1, <1>2, <1>3, <1>5, <1>6

\* The index after a batch.
LEMMA IndexBatch ==
  ASSUME NEW s \in Seq(Envelope), NEW t \in Seq(Envelope), Sound(Bodies(s \o t)), NEW f, Indexes(f, s)
  PROVE  Indexes([e \in DOMAIN f \cup {t[k] : k \in DOMAIN t} |->
                    IF e \in DOMAIN f THEN f[e]
                    ELSE Len(s) + (CHOOSE k \in DOMAIN t : t[k] = e) - 1], s \o t)
<1> DEFINE u == s \o t
           P(e) == CHOOSE k \in DOMAIN t : t[k] = e
           X == {t[k] : k \in DOMAIN t}
           g == [e \in DOMAIN f \cup X |-> IF e \in DOMAIN f THEN f[e] ELSE Len(s) + P(e) - 1]
<1>1. /\ u \in Seq(Envelope) /\ Len(u) = Len(s) + Len(t)
      /\ Len(s) \in Nat /\ Len(t) \in Nat
      /\ DOMAIN u = 1..(Len(s) + Len(t)) /\ DOMAIN s = 1..Len(s) /\ DOMAIN t = 1..Len(t)
      /\ \A i \in 1..Len(s) : u[i] = s[i]
      /\ \A i \in 1..Len(t) : u[Len(s) + i] = t[i]
  BY Concatenated
<1>2. \A i, j \in 1..Len(u) : u[i] = u[j] => i = j
  BY <1>1, NoneTwice
<1>3. \A e \in X : P(e) \in DOMAIN t /\ t[P(e)] = e
  OBVIOUS
<1> HIDE DEF u, P
<1>4. \A i \in DOMAIN u : i \notin 1..Len(s) => i - Len(s) \in 1..Len(t) /\ u[i] = t[i - Len(s)]
  <2>1. SUFFICES ASSUME NEW i \in DOMAIN u, i \notin 1..Len(s)
                 PROVE  i - Len(s) \in 1..Len(t) /\ u[i] = t[i - Len(s)]
    OBVIOUS
  <2>2. i - Len(s) \in 1..Len(t) /\ Len(s) + (i - Len(s)) = i
    BY <1>1, <2>1
  <2> QED BY <1>1, <2>2
<1>5. DOMAIN g = ToSet(u)
  <2>1. DOMAIN g = {s[i] : i \in DOMAIN s} \cup {t[i] : i \in DOMAIN t}
    BY DEF Indexes, ToSet
  <2>2. \A i \in DOMAIN s : i \in DOMAIN u /\ u[i] = s[i]
    BY <1>1
  <2>3. \A i \in DOMAIN t : Len(s) + i \in DOMAIN u /\ u[Len(s) + i] = t[i]
    BY <1>1
  <2>4. \A i \in DOMAIN u : (i \in DOMAIN s /\ u[i] = s[i]) \/ \E k \in DOMAIN t : u[i] = t[k]
    BY <1>1, <1>4
  <2> HIDE DEF g
  <2> QED BY <2>1, <2>2, <2>3, <2>4 DEF ToSet
<1>6. ASSUME NEW i \in DOMAIN u PROVE g[u[i]] = i - 1
  <2>1. CASE i \in 1..Len(s)
    <3>1. u[i] = s[i] /\ s[i] \in DOMAIN f /\ f[s[i]] = i - 1
      BY <1>1, <2>1 DEF Indexes, ToSet
    <3> QED BY <3>1
  <2>2. CASE i \notin 1..Len(s)
    <3> DEFINE k == i - Len(s)
    <3>1. k \in DOMAIN t /\ u[i] = t[k] /\ u[i] \in X
      BY <1>1, <1>4, <2>2
    <3>2. u[i] \notin DOMAIN f
      <4>1. \A j \in DOMAIN s : u[j] = s[j] /\ j \in 1..Len(u) /\ j # i /\ i \in 1..Len(u)
        BY <1>1, <2>2
      <4>2. \A j \in DOMAIN s : s[j] # u[i]
        BY <1>2, <4>1
      <4> QED BY <4>2 DEF Indexes, ToSet
    <3>3. P(u[i]) = k
      <4>1. P(u[i]) \in DOMAIN t /\ t[P(u[i])] = u[i]
        BY <1>3, <3>1
      <4>2. /\ Len(s) + P(u[i]) \in 1..Len(u) /\ u[Len(s) + P(u[i])] = u[i] /\ i \in 1..Len(u)
            /\ P(u[i]) \in Int /\ i \in Int
        BY <1>1, <4>1
      <4>3. Len(s) + P(u[i]) = i
        BY <1>2, <4>2
      <4> QED BY <1>1, <4>2, <4>3
    <3>4. g[u[i]] = Len(s) + k - 1
      BY <3>1, <3>2, <3>3
    <3>5. i \in Int
      BY <1>1
    <3> QED BY <1>1, <3>4, <3>5
  <2> QED BY <2>1, <2>2
<1> HIDE DEF g, X
<1>7. Indexes(g, u)
  BY <1>5, <1>6 DEF Indexes
<1> QED BY <1>7 DEF g, u, X, P

\* A successful append: durable first, answered after.
LEMMA DurableStep ==
  ASSUME TypeOK, TypeOK', IInv, NEW n \in Node, AppendDurably(n)
  PROVE  IInv'
<1>1. /\ pc[n] = "append" /\ view[n] = log /\ log' = log \o accepted[n]
      /\ view' = [view EXCEPT ![n] = log']
      /\ Return(n, RegisterWaiting(n))
      /\ UNCHANGED <<registry, chain, poisoned, fresh, purpose>>
  BY DEF AppendDurably, TileLog!AppendBatch
<1>2. /\ log' = Ahead(n) /\ log' \in Seq(Envelope) /\ LogIsSound' /\ Grows
      /\ Len(log') = Len(log) + Len(accepted[n])
      /\ DOMAIN log' = 1..(Len(log) + Len(accepted[n]))
      /\ \A i \in 1..Len(log) : log'[i] = log[i]
      /\ \A i \in 1..Len(accepted[n]) : log'[Len(log) + i] = accepted[n][i]
      /\ Len(log) \in Nat /\ Len(accepted[n]) \in Nat
      /\ DOMAIN accepted[n] = 1..Len(accepted[n]) /\ DOMAIN log = 1..Len(log)
  BY <1>1, AppendGrows
<1>3. log' # Off
  BY <1>2, SequencerAssumption
<1>4. /\ ~poisoned[n] /\ Sound(Bodies(log')) /\ Reflects(chain[n], Bodies(log'))
      /\ Indexes(by_leaf[n], log)
  BY <1>1, <1>2 DEF IInv, NodeInv, LiveStateIsAhead, CallIsClean
<1>5. /\ view'[n] = log' /\ pc'[n] = "idle" /\ batch'[n] = <<>> /\ answers'[n] = <<>>
      /\ accepted'[n] = <<>>
      /\ \A m \in Node : m # n => /\ pc'[m] = pc[m] /\ batch'[m] = batch[m] /\ view'[m] = view[m]
                                  /\ answers'[m] = answers[m] /\ accepted'[m] = accepted[m]
  BY <1>1 DEF Return, TypeOK
<1>6. Indexes(by_leaf'[n], log') /\ \A m \in Node : m # n => by_leaf'[m] = by_leaf[m]
  <2> DEFINE f == by_leaf[n]
             t == accepted[n]
             g == [e \in DOMAIN f \cup {t[k] : k \in DOMAIN t} |->
                     IF e \in DOMAIN f THEN f[e]
                     ELSE Len(log) + (CHOOSE k \in DOMAIN t : t[k] = e) - 1]
  <2>1. by_leaf' = [by_leaf EXCEPT ![n] = g]
    BY <1>1 DEF AppendDurably
  <2>2. log \in Seq(Envelope) /\ t \in Seq(Envelope) /\ log' = log \o t
    BY <1>1 DEF TypeOK
  <2>3. Indexes(f, log) /\ Sound(Bodies(log \o t))
    BY <1>1, <1>4
  <2>4. Indexes(g, log \o t)
    <3> HIDE DEF f, t
    <3> QED BY ZenonT(40), <2>2, <2>3, IndexBatch
  <2> HIDE DEF g
  <2> QED BY <2>1, <2>2, <2>4 DEF TypeOK
<1>7. RegistrationsHold'
  <2> DEFINE r == RegisterWaiting(n)
  <2>1. /\ DOMAIN r = DOMAIN answers[n]
        /\ \A i \in DOMAIN answers[n] :
             r[i] = IF answers[n][i].tag = "waiting"
                    THEN Registered(Len(log) + answers[n][i].at - 1) ELSE answers[n][i]
    BY <1>1 DEF RegisterWaiting
  <2> HIDE DEF r
  <2>2. SUFFICES ASSUME NEW i \in DOMAIN r, r[i].tag = "registered"
                 PROVE  r[i].at + 1 \in DOMAIN log' /\ log'[r[i].at + 1] = batch[n][i]
    BY <1>1, <1>2, ReturnHolds DEF r
  <2>3. CASE answers[n][i].tag = "waiting"
    <3> DEFINE k == answers[n][i].at
    <3>1. k \in 1..Len(accepted[n]) /\ accepted[n][k] = batch[n][i]
      BY <1>2, <2>1, <2>2, <2>3 DEF IInv, NodeInv, AnswersAreTrue
    <3>2. r[i] = Registered(Len(log) + k - 1)
      BY <2>1, <2>2, <2>3
    <3>3. r[i].at = Len(log) + k - 1
      BY <3>2 DEF Registered
    <3> HIDE DEF k
    <3>4. r[i].at + 1 = Len(log) + k /\ Len(log) + k \in DOMAIN log'
      BY <1>2, <3>1, <3>3
    <3> QED BY <1>2, <3>1, <3>4
  <2>4. CASE answers[n][i].tag # "waiting"
    <3>1. r[i] = answers[n][i] /\ i \in DOMAIN answers[n]
      BY <2>1, <2>2, <2>4
    <3>2. r[i].at + 1 \in DOMAIN log /\ log[r[i].at + 1] = batch[n][i]
      BY <1>1, <2>2, <3>1 DEF IInv, NodeInv, AnswersAreTrue
    <3> QED BY <1>2, <3>2
  <2> QED BY <2>3, <2>4
<1>8. ViewIsPrefix(n)' /\ CallIsClean(n)' /\ AnswersAreTrue(n)' /\ ReplayIsExact(n)'
  BY <1>2, <1>3, <1>5 DEF ViewIsPrefix, CallIsClean, AnswersAreTrue, ReplayIsExact
<1>9. LiveStateIsAhead(n)'
  BY <1>1, <1>2, <1>4, <1>5, <1>6, IdleIsAhead
<1>10. \A m \in Node : m # n => Same(m)
  BY <1>1, <1>5, <1>6 DEF Same
<1> QED BY <1>2, <1>7, <1>8, <1>9, <1>10, OneNode DEF NodeInv

\* An append that reports an error starts an undo, whether it took effect or not.
LEMMA UndoStep ==
  ASSUME TypeOK, TypeOK', IInv, NEW n \in Node, pc[n] = "append", StartReplay(n, "undo"),
         UNCHANGED <<view, seqVars, callVars, acked>>, Grows, LogIsSound'
  PROVE  IInv'
<1>1. /\ pc'[n] = "replay" /\ purpose'[n] = "undo" /\ fresh'[n] = StartOfLog
      /\ \A m \in Node : m # n => pc'[m] = pc[m] /\ purpose'[m] = purpose[m] /\ fresh'[m] = fresh[m]
  BY DEF StartReplay, TypeOK
<1>2. view'[n] = view[n] /\ view[n] \in Seq(Envelope) /\ Len(view[n]) \in Nat
      /\ Len(log) \in Nat /\ Len(log') \in Nat
  BY ViewIsSound DEF TypeOK
<1>3. ReplayIsExact(n)'
  BY <1>1, <1>2, StartIsExact
<1>4. ViewIsPrefix(n)'
  BY <1>1, <1>2, SequencerAssumption DEF ViewIsPrefix, IInv, NodeInv, Grows
<1>5. CallIsClean(n)' /\ AnswersAreTrue(n)' /\ LiveStateIsAhead(n)'
  BY <1>1 DEF CallIsClean, AnswersAreTrue, LiveStateIsAhead, IInv, NodeInv, callVars
<1>6. RegistrationsHold'
  <2>1. DOMAIN log = 1..Len(log) /\ DOMAIN log' = 1..Len(log')
    BY DEF TypeOK
  <2> QED BY <1>2, <2>1 DEF RegistrationsHold, IInv, Grows
<1>7. \A m \in Node : m # n => Same(m)
  BY <1>1 DEF Same, seqVars, callVars
<1> QED BY <1>3, <1>4, <1>5, <1>6, <1>7, OneNode DEF NodeInv

\* The step of a failed append that did not reach the log ...
LEMMA FailsStep ==
  ASSUME TypeOK, TypeOK', IInv, NEW n \in Node, AppendFails(n)
  PROVE  IInv'
<1>1. LogIsSound' /\ Grows
  BY LogKept DEF AppendFails
<1> QED BY <1>1, UndoStep DEF AppendFails

\* ... and of one that did.
LEMMA IndeterminateStep ==
  ASSUME TypeOK, TypeOK', IInv, NEW n \in Node, AppendIndeterminate(n)
  PROVE  IInv'
<1>1. /\ pc[n] = "append" /\ view[n] = log /\ log' = log \o accepted[n] /\ view' = view
      /\ StartReplay(n, "undo") /\ UNCHANGED <<seqVars, callVars, acked>>
  BY DEF AppendIndeterminate, TileLog!AppendUnacknowledged
<1>2. LogIsSound' /\ Grows
  BY <1>1, AppendGrows
<1> QED BY <1>1, <1>2, UndoStep

\* The invariant holds at the start ...
LEMMA InitInv == ASSUME Init PROVE IInv
<1>1. log = <<>> /\ acked = {} /\ Bodies(<<>>) = <<>>
  <2>1. log = <<>> /\ acked = {}   BY DEF Init
  <2>2. Bodies(<<>>) = <<>>        BY DEF Bodies
  <2> QED BY <2>1, <2>2
<1>2. LogIsSound /\ RegistrationsHold
  BY <1>1, EmptyIsSound DEF LogIsSound, RegistrationsHold, Init
<1>3. ASSUME NEW n \in Node PROVE NodeInv(n)
  BY DEF Init, NodeInv, ViewIsPrefix, CallIsClean, AnswersAreTrue, LiveStateIsAhead, ReplayIsExact
<1> QED BY <1>2, <1>3 DEF IInv

\* ... and every step keeps it.
LEMMA NextInv ==
  ASSUME TypeOK, TypeOK', IInv, [Next]_vars
  PROVE  IInv'
<1>1. CASE UNCHANGED vars
  <2>1. LogIsSound' /\ RegistrationsHold' /\ Grows
    BY <1>1, LogKept DEF vars
  <2>2. \A n \in Node : Same(n)
    BY <1>1 DEF Same, vars, seqVars, callVars
  <2>3. \A n \in Node : NodeInv(n)'
    BY <2>1, <2>2, Frame DEF IInv
  <2> QED BY <2>1, <2>3 DEF IInv
<1>2. CASE Next
  <2>1. PICK n \in Node :
          \/ Open(n) \/ Stop(n)
          \/ \E b \in Batches : Submit(n, b)
          \/ ReplayEntry(n) \/ FinishReplay(n) \/ FailReplay(n)
          \/ AnswerDuplicate(n) \/ AnswerPending(n) \/ Accept(n) \/ Reject(n)
          \/ EndLoop(n)
          \/ AppendDurably(n) \/ AppendFails(n) \/ AppendIndeterminate(n)
    BY <1>2 DEF Next
  <2>2. CASE Open(n)                            BY <2>2, OpenStep
  <2>3. CASE Stop(n)                            BY <2>3, StopStep
  <2>4. CASE \E b \in Batches : Submit(n, b)    BY <2>4, SubmitStep
  <2>5. CASE ReplayEntry(n)                     BY <2>5, ReplayStep
  <2>6. CASE FinishReplay(n)                    BY <2>6, FinishStep
  <2>7. CASE FailReplay(n)                      BY <2>7, FailStep
  <2>8. CASE AnswerDuplicate(n)                 BY <2>8, DuplicateStep
  <2>9. CASE AnswerPending(n)                   BY <2>9, PendingStep
  <2>10. CASE Accept(n)                         BY <2>10, AcceptStep
  <2>11. CASE Reject(n)                         BY <2>11, RejectStep
  <2>12. CASE EndLoop(n)                        BY <2>12, EndStep
  <2>13. CASE AppendDurably(n)                  BY <2>13, DurableStep
  <2>14. CASE AppendFails(n)                    BY <2>14, FailsStep
  <2>15. CASE AppendIndeterminate(n)            BY <2>15, IndeterminateStep
  <2> QED
    BY <2>1, <2>2, <2>3, <2>4, <2>5, <2>6, <2>7, <2>8, <2>9, <2>10, <2>11, <2>12, <2>13, <2>14, <2>15
<1> QED BY <1>1, <1>2

----------------------------------------------------------------------------
(* What follows. *)

\* The inductive invariant holds in every behaviour of the sequencers.
THEOREM Invariance == Spec => [](TypeOK /\ IInv)
<1>1. Init => TypeOK /\ IInv
  BY InitType, InitInv
<1>2. TypeOK /\ IInv /\ [Next]_vars => (TypeOK /\ IInv)'
  BY NextType, NextInv
<1> QED BY <1>1, <1>2, PTL DEF Spec

\* Every variable keeps its type.
THEOREM TypeCorrect == Spec => []TypeOK
BY Invariance, PTL

\* The durable log obeys the chain rules: whatever batches, failed appends,
\* crashes and other sequencers do, no agent's chain forks and no intent has two
\* outcomes.
THEOREM ChainedLog == Spec => []LogIsChained
<1>1. IInv => LogIsChained
  BY DEF IInv, LogIsSound, Sound, LogIsChained
<1> QED BY <1>1, Invariance, PTL

\* No statement is in the log twice: a retry, also of an append that took effect
\* unnoticed, never registers again.
THEOREM NoRepeats == Spec => [](\A i, j \in DOMAIN log : log[i] = log[j] => i = j)
<1>1. TypeOK /\ IInv => \A i, j \in DOMAIN log : log[i] = log[j] => i = j
  <2>1. SUFFICES ASSUME TypeOK, IInv, NEW i \in DOMAIN log, NEW j \in DOMAIN log, log[i] = log[j]
                 PROVE  i = j
    OBVIOUS
  <2>2. log \in Seq(Envelope) /\ Sound(Bodies(log))
    BY <2>1 DEF TypeOK, IInv, LogIsSound
  <2> QED BY <2>1, <2>2, NoneTwice
<1> QED BY <1>1, Invariance, PTL

\* A registration a client was given is true forever.
THEOREM TrueRegistrations == Spec => []RegistrationsHold
<1>1. IInv => RegistrationsHold
  BY DEF IInv
<1> QED BY <1>1, Invariance, PTL

\* Between two calls a sequencer that is not poisoned shows exactly its log.
THEOREM DurableLiveState == Spec => []LiveStateIsDurable
<1>1. ASSUME TypeOK, IInv PROVE LiveStateIsDurable
  <2>1. SUFFICES ASSUME NEW n \in Node, pc[n] = "idle" /\ ~poisoned[n]
                 PROVE  /\ Reflects(chain[n], Bodies(view[n]))
                        /\ ToSet(OpenIntents(chain[n])) = Orphans(Bodies(view[n]))
                        /\ DOMAIN by_leaf[n] = ToSet(view[n])
                        /\ \A i \in DOMAIN view[n] : by_leaf[n][view[n][i]] = i - 1
    BY DEF LiveStateIsDurable
  <2>2. view[n] \in Seq(Envelope) /\ accepted[n] = <<>> /\ IsChainState(chain[n])
    BY <1>1, <2>1, ViewIsSound DEF TypeOK, IInv, NodeInv, CallIsClean
  <2>3. Ahead(n) = view[n]
    BY <2>2, ConcatEmpty DEF Ahead
  <2>4. Reflects(chain[n], Bodies(view[n])) /\ Indexes(by_leaf[n], view[n])
    BY <1>1, <2>1, <2>3 DEF IInv, NodeInv, LiveStateIsAhead
  <2> QED BY <2>2, <2>4, OpenAreOrphans DEF Indexes
<1> QED BY <1>1, Invariance, PTL

\* A log that was written can be replayed, under any registry.
THEOREM ReplayableLog == Spec => []ReplayNeverRefuses
<1>1. ASSUME TypeOK, IInv PROVE ReplayNeverRefuses
  <2>1. SUFFICES ASSUME NEW n \in Node, pc[n] = "replay", fresh[n].count < Len(view[n])
                 PROVE  Passes(fresh[n].chain, sealed[view[n][fresh[n].count + 1]].body)
    BY DEF ReplayNeverRefuses, ReplayAccepts
  <2> DEFINE c == fresh[n].count
             e == view[n][c + 1]
             t == SubSeq(view[n], 1, c + 1)
  <2>2. view[n] \in Seq(Envelope) /\ Sound(Bodies(view[n])) /\ c \in Nat /\ Len(view[n]) \in Nat
    BY <1>1, <2>1, ViewIsSound DEF TypeOK
  <2>3. /\ Done(n) \in Seq(Envelope) /\ Len(Done(n)) = c /\ e \in Envelope /\ t = Append(Done(n), e)
        /\ \A i \in 1..c : Done(n)[i] = view[n][i]
    BY ZenonT(40), <2>1, <2>2, Slice DEF Done
  <2>4. Reflects(fresh[n].chain, Bodies(Done(n)))
    BY <1>1, <2>1 DEF IInv, NodeInv, ReplayIsExact
  <2>5. Sound(Bodies(t))
    <3>1. t \in Seq(Envelope) /\ Len(t) = c + 1 /\ \A i \in 1..(c + 1) : t[i] = view[n][i]
      BY <2>1, <2>2
    <3>2. Len(t) <= Len(view[n]) /\ \A i \in 1..Len(t) : t[i] = view[n][i]
      BY <2>1, <2>2, <3>1
    <3> HIDE DEF t
    <3> QED BY <2>2, <3>1, <3>2, SoundPart
  <2> HIDE DEF e, t
  <2>6. Bodies(t) = Append(Bodies(Done(n)), sealed[e].body) /\ sealed[e].body \in Statement
        /\ Bodies(Done(n)) \in Seq(Statement)
    BY <2>3, BodiesAppend, BodiesType
  <2>7. Passes(fresh[n].chain, sealed[e].body)
    BY <2>4, <2>5, <2>6, SoundPasses
  <2> QED BY <2>7 DEF e
<1> QED BY <1>1, Invariance, PTL

----------------------------------------------------------------------------
(* Sequencers with a writer lock, finitely many faults and retrying clients *)
(* do only what sequencers do.                                              *)

\* Every step of SequencerLive is a step of Sequencer or leaves its state alone.
THEOREM LiveIsSequencer == LiveSpec => Spec
<1>1. LiveInit => Init
  BY DEF LiveInit
<1>2. ASSUME [LiveNext]_LiveVars PROVE [Next]_vars
  <2>1. ASSUME NEW n \in Node, Fault(n) PROVE Next
    BY <2>1 DEF Fault, Drop, Next
  <2>2. ASSUME NEW n \in Node, Proceed(n) PROVE Next
    BY <2>2 DEF Proceed, Next
  <2>3. ASSUME NEW n \in Node, Reopen(n) PROVE Next
    BY <2>3 DEF Reopen, Drop, Next
  <2>4. ASSUME NEW n \in Node, NEW b \in Batches, Ask(n, b) PROVE Next
    BY <2>4 DEF Ask, Next
  <2>5. CASE UNCHANGED LiveVars
    BY <2>5 DEF LiveVars
  <2> QED BY <1>2, <2>1, <2>2, <2>3, <2>4, <2>5 DEF LiveNext
<1> QED BY <1>1, <1>2, PTL DEF LiveSpec, Spec

\* So, while views go stale under each other and faults and retries mix, the
\* durable log obeys the chain rules, registrations stay true, and a sequencer
\* that answers shows exactly its durable log.
THEOREM LiveIsSafe == LiveSpec => [](LogIsChained /\ RegistrationsHold /\ LiveStateIsDurable)
<1> QED
  BY LiveIsSequencer, ChainedLog, TrueRegistrations, DurableLiveState, PTL
=============================================================================
