----------------------------- MODULE Checkpoint -----------------------------
(***************************************************************************)
(* Signed checkpoints of vc-log (checkpoint.rs) as vc-seq issues them: the *)
(* note a sequencer signs, the signature lines witnesses add, and what a   *)
(* verifier concludes from the note that reaches it.                       *)
(*                                                                         *)
(* A note is a sequence of lines: the text, a blank line, signature lines. *)
(* A line is a record; an origin is the sequence of the lines it would put *)
(* into the text, because an origin is any string a sequencer is opened    *)
(* with.  A signature is the key and the text it signs; key ids do not     *)
(* collide.  Base64 and the bytes of a line are left out: a line that is   *)
(* not a well-formed signature line is one of another kind.                *)
(***************************************************************************)
EXTENDS Integers, Sequences, SequencesExt, FiniteSets

CONSTANTS
  Origin,         \* origins a sequencer may be opened with
  Name,           \* key names
  ValidName,      \* those valid_name allows
  ControlName,    \* those with a control character
  Placeholder,    \* what sign_line puts for such a name
  Operator,       \* the operator's KeyInfo: [name, key]
  Policy,         \* the sets of KeyInfos verifiers trust as witnesses
  WeakKey,        \* small-order public keys
  Tree,           \* sizes and roots that get a checkpoint: [size, root]
  MaxSignatures,  \* bound: signatures made
  MaxChanges      \* bound: changes to notes on their way

\* An origin is a sequence of lines, a KeyInfo has a name and a key.
ASSUME CheckpointAssumption ==
  /\ \A origin \in Origin : origin \in Seq(ToSet(origin))
  /\ ValidName \subseteq Name \ ControlName
  /\ Operator.name \in ValidName /\ Operator.key \notin WeakKey
  /\ Placeholder \notin ControlName
  /\ \A witnesses \in Policy :
       /\ IsFiniteSet(witnesses)
       /\ \A w \in witnesses : w = [name |-> w.name, key |-> w.key]
  /\ MaxSignatures \in Nat /\ MaxChanges \in Nat

Witness == UNION Policy

VARIABLES
  note,      \* the note on its way to the verifiers
  issued,    \* history: the checkpoints sequencers signed
  signed,    \* history: the signature lines made, with the text they sign
  changes    \* how often a note was changed

vars == <<note, issued, signed, changes>>

----------------------------------------------------------------------------
(* Lines and texts. *)

Blank == [kind |-> "blank"]
NameLine(s, trimmed) == [kind |-> "name", is |-> s, trimmed |-> trimmed]
SizeLine(n, canonical) == [kind |-> "size", is |-> n, canonical |-> canonical]
RootLine(r) == [kind |-> "root", is |-> r]

Text(cp) == cp.origin \o <<SizeLine(cp.size, TRUE), RootLine(cp.root)>>

Malformed == [origin |-> <<>>, size |-> 0, root |-> "none"]

\* Lines after the root are ignored.
Parse(text) ==
  IF /\ Len(text) >= 3
     /\ text[1] # Blank
     /\ text[2].kind = "size" /\ text[2].canonical
     /\ text[3].kind = "root"
  THEN [origin |-> <<text[1]>>, size |-> text[2].is, root |-> text[3].is]
  ELSE Malformed

\* sign_line_unchecked.
SignatureLine(text, name, key) ==
  [kind |-> "signature", name |-> name, id |-> <<name, key>>, by |-> key, over |-> text]

\* Mutant: the name is taken as it is.
SignedAsIs(text, name, key) == SignatureLine(text, name, key)

\* sign_line: a name cannot bring lines of its own.
Signed(text, name, key) ==
  SignatureLine(text, IF name \in ControlName THEN Placeholder ELSE name, key)

Note(text, lines) == text \o <<Blank>> \o lines

----------------------------------------------------------------------------
(* Verifying a note. *)

\* The first blank line ends the text (a blank first line does not: there is no
\* line before it to end).
SplitAt(n) ==
  LET blanks == {i \in 2..Len(n) : n[i] = Blank}
  IN  IF blanks = {} THEN 0 ELSE CHOOSE i \in blanks : \A j \in blanks : i <= j

TextOf(n) == SubSeq(n, 1, SplitAt(n) - 1)
LinesOf(n) == SubSeq(n, SplitAt(n) + 1, Len(n))

Valid(line, text, k) ==
  /\ line.kind = "signature"
  /\ line.name = k.name /\ line.id = <<k.name, k.key>>
  /\ line.by = k.key /\ line.over = text

\* The keys with a valid signature, each once, in the order of their lines.
ValidSigners(text, lines, keys) ==
  LET found(line) == {k \in keys : k.key \notin WeakKey /\ Valid(line, text, k)}
      ok[i \in 0..Len(lines)] ==
        IF i = 0 THEN <<>>
        ELSE LET before == ok[i - 1]
             IN  before \o SetToSeq(found(lines[i]) \ ToSet(before))
  IN  ok[Len(lines)]

Independent(witnesses) ==
  {w \in witnesses : w.key # Operator.key /\ w.name # Operator.name}

\* Mutant: a signer counts when its key or its name is new.
NewSignerEither(count, s) == s.name \notin count.names \/ s.key \notin count.keys

NewSigner(count, s) == s.name \notin count.names /\ s.key \notin count.keys

\* How many signers the quorum counts: one whose name and key no earlier one has,
\* counted or not.
Got(signers) ==
  LET count[i \in 0..Len(signers)] ==
        IF i = 0 THEN [got |-> 0, names |-> {}, keys |-> {}]
        ELSE LET before == count[i - 1]
                 s == signers[i]
             IN  [got |-> before.got + (IF NewSigner(before, s) THEN 1 ELSE 0),
                  names |-> before.names \cup {s.name}, keys |-> before.keys \cup {s.key}]
  IN  count[Len(signers)].got

\* Mutant: one witness more than needed.
VerifyNoteMore(n, witnesses, need) ==
  /\ SplitAt(n) # 0
  /\ Parse(TextOf(n)) # Malformed
  /\ Operator \in ToSet(ValidSigners(TextOf(n), LinesOf(n), {Operator}))
  /\ Got(ValidSigners(TextOf(n), LinesOf(n), Independent(witnesses))) > need

\* verify_note is Ok, with the checkpoint Parse gives.
VerifyNote(n, witnesses, need) ==
  /\ SplitAt(n) # 0
  /\ Parse(TextOf(n)) # Malformed
  /\ Operator \in ToSet(ValidSigners(TextOf(n), LinesOf(n), {Operator}))
  /\ Got(ValidSigners(TextOf(n), LinesOf(n), Independent(witnesses))) >= need

VerifyNoteForOrigin(n, origin, witnesses, need) ==
  VerifyNote(n, witnesses, need) /\ Parse(TextOf(n)).origin = origin

----------------------------------------------------------------------------
(* Behaviour. *)

Init ==
  /\ note = <<>>
  /\ issued = {} /\ signed = {}
  /\ changes = 0

\* Mutant: any origin is accepted.
AnyOrigin(origin) == TRUE

\* Sequencer::open refuses an origin that is empty, padded or holds a control
\* character, a newline among them.
CarriedOrigin(origin) ==
  Len(origin) = 1 /\ origin[1].kind = "name" /\ origin[1].trimmed

\* A sequencer that was opened with this origin and the operator's key under
\* this name signs a checkpoint of its tree.
IssueCheckpoint(origin, name, tree) ==
  LET cp == [origin |-> origin, size |-> tree.size, root |-> tree.root]
      line == Signed(Text(cp), name, Operator.key)
  IN
  /\ CarriedOrigin(origin) /\ name \in ValidName
  /\ Cardinality(signed) < MaxSignatures
  /\ changes = 0
  /\ note' = Note(Text(cp), <<line>>)
  /\ issued' = issued \cup {cp}
  /\ signed' = signed \cup {line}
  /\ UNCHANGED changes

\* Someone with a key signs the text of the note.
Cosign(k) ==
  LET line == Signed(TextOf(note), k.name, k.key) IN
  /\ SplitAt(note) # 0 /\ line \notin signed
  /\ Cardinality(signed) < MaxSignatures
  /\ note' = Append(note, line)
  /\ signed' = signed \cup {line}
  /\ UNCHANGED <<issued, changes>>

\* Lines that may get into a note: signatures made, also over other texts or put
\* under another name, and the lines of texts.
Stray ==
  signed
  \cup {[s EXCEPT !.name = k.name] : s \in signed, k \in Independent(Witness)}
  \cup {Blank}
  \cup {SizeLine(t.size, c) : t \in Tree, c \in BOOLEAN} \cup {RootLine(t.root) : t \in Tree}

\* A line is lost, duplicated or added, moved or replaced.
Change ==
  /\ note # <<>> /\ changes < MaxChanges
  /\ changes' = changes + 1
  /\ \/ \E i \in DOMAIN note : note' = RemoveAt(note, i)
     \/ \E i \in 1..(Len(note) + 1), x \in Stray : note' = InsertAt(note, i, x)
     \/ \E i \in DOMAIN note, x \in Stray : note' = ReplaceAt(note, i, x)
     \/ \E i \in 1..(Len(note) - 1) :
          note' = [note EXCEPT ![i] = note[i + 1], ![i + 1] = note[i]]
  /\ UNCHANGED <<issued, signed>>

Next ==
  \/ \E origin \in Origin, name \in Name, tree \in Tree : IssueCheckpoint(origin, name, tree)
  \/ \E k \in Witness : Cosign(k)
  \/ Change

Spec == Init /\ [][Next]_vars

----------------------------------------------------------------------------
(* Properties. *)

TypeOK ==
  /\ \A s \in signed : s.kind = "signature" /\ s.name \notin ControlName
  /\ \A cp \in issued : cp.origin \in Origin
  /\ Cardinality(signed) <= MaxSignatures /\ changes <= MaxChanges

\* Sets of signature lines no two of which share a name or a key.
Distinct(lines) ==
  \A s, t \in lines : s # t => s.name # t.name /\ s.by # t.by

\* A quorum is never inflated: behind a note accepted with `need' witnesses, more
\* than there are signatures included, there are that many who signed this very
\* text, under names and keys that all differ, none of them the operator's
\* (THREAT_MODEL.md, T-L0-02).
QuorumIsReal ==
  \A witnesses \in Policy, need \in 0..(Cardinality(signed) + 1) :
    VerifyNote(note, witnesses, need) =>
      \E lines \in SUBSET {s \in signed : s.over = TextOf(note)} :
        /\ Cardinality(lines) = need /\ Distinct(lines)
        /\ \A s \in lines : s.by # Operator.key /\ s.name # Operator.name
                            /\ [name |-> s.name, key |-> s.by] \in witnesses

\* Nobody but the sequencers makes signatures that read as the operator's: a witness
\* may hold the operator's key, but not under the operator's name.
OperatorIsAlone ==
  \A k \in Witness :
    k.key = Operator.key => Signed(<<>>, k.name, k.key).name # Operator.name

\* The checkpoint a verifier takes from a note accepted for a log is one a
\* sequencer of that log issued: no line moved in from another note, and no origin
\* the operator's other logs have, changes which log, size or root the operator's
\* signature stands for (THREAT_MODEL.md, T-L0-09).
AcceptedWasIssued ==
  \A origin \in Origin :
    VerifyNoteForOrigin(note, origin, {}, 0) =>
      [Parse(TextOf(note)) EXCEPT !.origin = origin] \in issued

Counted(witnesses) ==
  {w \in Independent(witnesses) : w.key \notin WeakKey
     /\ \E i \in DOMAIN LinesOf(note) : Valid(LinesOf(note)[i], TextOf(note), w)}

\* Those of some signers who share neither their name nor their key with another.
Apart(signers) ==
  {w \in signers : \A v \in signers : v # w => v.name # w.name /\ v.key # w.key}

\* The witnesses that signed are counted at most once each, and nobody can use up
\* the place of one who shares neither name nor key with another signer: such a
\* witness counts, in whatever order and however often the lines come.  So a note
\* that nobody changed is accepted with all of these.
QuorumIsExact ==
  SplitAt(note) # 0 =>
    \A witnesses \in Policy :
      LET signers == Counted(witnesses)
          sure == Cardinality(Apart(signers))
          got == Got(ValidSigners(TextOf(note), LinesOf(note), Independent(witnesses)))
      IN  /\ sure <= got /\ got <= Cardinality(signers)
          /\ changes = 0 /\ Signed(TextOf(note), Operator.name, Operator.key) \in ToSet(note) =>
               VerifyNote(note, witnesses, sure)
=============================================================================
