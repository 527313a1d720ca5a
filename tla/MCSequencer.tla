---------------------------- MODULE MCSequencer ----------------------------
(* TLC instances of Sequencer.  Agent A speaks through two kids, agent B     *)
(* through one; the statements cover a chain of three with a fork, an        *)
(* outcome given twice, an outcome of another agent's intent, the same       *)
(* statement in two envelopes, and statements the registry rules refuse.     *)
EXTENDS Sequencer

CONSTANTS n1, n2

MCAgent == {"A", "B"}
MCId == {"a0", "a1", "a1x", "a2", "a2x", "b0", "b0x"}

Says(id, agent, seq, prev, kind, intent) ==
  [id |-> id, agent |-> agent, seq |-> seq, prev |-> prev, kind |-> kind,
   intent |-> intent, schema |-> TRUE]

a0 == Says("a0", "A", 0, Genesis, "intent", NoIntent)
a1 == Says("a1", "A", 1, "a0", "outcome", "a0")     \* the outcome of a0
a1x == Says("a1x", "A", 1, "a0", "intent", NoIntent) \* forks from a1
a2 == Says("a2", "A", 2, "a1", "outcome", "a0")     \* a second outcome of a0
a2x == Says("a2x", "A", 2, "a1x", "outcome", "a0")   \* its first one on this fork
b0 == Says("b0", "B", 0, Genesis, "other", NoIntent)
b0x == Says("b0x", "B", 0, Genesis, "outcome", "a0") \* of another agent's intent

Seal(body, kid, key) ==
  [body |-> body, kid |-> kid, key |-> key, form |-> "well_formed",
   completeness |-> Unclaimed, assurance |-> {}]

Everything ==
  [ea0 |-> Seal(a0, "kA", "KA"), ea0b |-> Seal(a0, "kA2", "KA2"),
   ea1 |-> Seal(a1, "kA", "KA"), ea1x |-> Seal(a1x, "kA2", "KA2"),
   ea2 |-> Seal(a2, "kA", "KA"), ea2x |-> Seal(a2x, "kA", "KA"),
   eb0 |-> Seal(b0, "kB", "KB"), eb0x |-> Seal(b0x, "kB", "KB"),
   too_high |-> [Seal(a1, "kA", "KA") EXCEPT !.completeness = 2],
   oversize |-> [Seal(a1, "kA", "KA") EXCEPT !.form = "oversize"],
   forged |-> Seal(a1, "kA", "KB")]

MCSealed == [e \in Envelope |-> Everything[e]]

Knows(agent, key) == [agent |-> agent, key |-> key, max_completeness |-> 1, max_assurance |-> 1]

AllKids == [kA |-> Knows("A", "KA"), kA2 |-> Knows("A", "KA2"), kB |-> Knows("B", "KB")]
\* kA has been revoked, B's key rotated.
Rotated == [kA2 |-> Knows("A", "KA2"), kB |-> Knows("B", "KB2")]

OneRegistry == {AllKids}
TwoRegistries == {AllKids, Rotated}
=============================================================================
