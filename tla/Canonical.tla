----------------------------- MODULE Canonical -----------------------------
(***************************************************************************)
(* Canonical JSON of vc-core (canonical.rs): a strict parser and a writer. *)
(*                                                                         *)
(* A client sends a JSON text, token by token.  What the parser accepts is *)
(* written in canonical form, and that text is parsed again, as it is by   *)
(* whoever checks that a payload is canonical.  The parser's recursion is  *)
(* kept as a stack of the arrays and objects it is in.                     *)
(*                                                                         *)
(* A character stands for its class, and classes are ordered like their    *)
(* code points.  A number is a token, by its spelling; null stands for the *)
(* three literals.                                                         *)
(***************************************************************************)
EXTENDS Integers, Sequences, SequencesExt

CONSTANTS
  Char,      \* the characters texts are made of
  MaxDepth,  \* MAX_DEPTH
  MaxChars,  \* bound: characters of a string
  MaxTokens  \* bound: tokens of a client's text, white space aside

Control == 1  \* below U+0020, without an escape of its own
Tab == 2      \* below U+0020, with one
Quote == 3    \* the quotation mark; the backslash is treated alike
Slash == 4    \* has an escape, which the writer does not use
Letter == 5
High == 6     \* surrogates: units of UTF-16, not characters
Low == 7
Bmp == 8      \* above the surrogates, in the basic multilingual plane
Astral == 9   \* beyond it: UTF-16 spells it High, Low

ASSUME CanonicalAssumption ==
  /\ Char \subseteq {Control, Tab, Quote, Slash, Letter, Bmp, Astral}
  /\ Astral \in Char  \* any text may spell one with two escapes
  /\ MaxDepth \in Nat /\ MaxChars \in Nat /\ MaxTokens \in Nat

Utf16(s) ==
  FlattenSeq([i \in DOMAIN s |-> IF s[i] = Astral THEN <<High, Low>> ELSE <<s[i]>>])

\* Doubles, and the spellings "0", "-0", "1", "1.0" and "1e400" by their numbers.
Zero == 10
MinusZero == 11
One == 12
Infinite == 13
Parsed == <<Zero, MinusZero, One, One, Infinite>>
Shortest(x) == IF x = One THEN 3 ELSE 1

\* Tokens: marks, numbers, and inside a string a character as such, its short
\* escape, or a unit of UTF-16 as \uXXXX.
Token(kind, x) == [kind |-> kind, x |-> x]
Mark(kind) == Token(kind, 0)

Tokens ==
  {Mark(k) : k \in {"array", "endarray", "object", "endobject",
                    "comma", "colon", "quote", "space", "null"}}
  \cup {Token("number", n) : n \in DOMAIN Parsed}
  \cup {Token("raw", c) : c \in Char \ {Quote}}
  \cup {Token("short", c) : c \in Char}
  \cup {Token("hex", u) : u \in {High, Low} \cup (Char \ {Astral})}

\* Values: a leaf, or an array or object with its items (and keys) in order.
Value(kind, x, str) == [kind |-> kind, x |-> x, str |-> str, keys |-> <<>>, items |-> <<>>]

\* One level more than the limit admits, so that a value too deep has a place.
Levels == MaxDepth + 2

\* Values with their items in S: strings hold characters and no surrogate, and no
\* object has a key twice.
ValuesOver(S) ==
  {v \in [kind : {"null", "number", "string", "array", "object"}, x : {0} \cup ToSet(Parsed),
          str : Seq(Char), keys : Seq(Seq(Char)), items : Seq(S)] :
     /\ v.kind = "number" <=> v.x # 0
     /\ v.kind # "string" => v.str = <<>>
     /\ v.kind \notin {"array", "object"} => v.items = <<>>
     /\ IF v.kind = "object" THEN IsInjective(v.keys) /\ Len(v.keys) = Len(v.items)
        ELSE v.keys = <<>>}

\* Values of up to d levels.
Values[d \in 0..Levels] == IF d = 0 THEN {} ELSE ValuesOver(Values[d - 1])

Nothing == Value("none", 0, <<>>)

VARIABLES
  stack,    \* the arrays and objects the parser is in, outermost first
  mode,     \* what it expects next; at the end "done" or "refused"
  str,      \* the string it is in, or the key before a colon
  value,    \* the whole value, once it is parsed
  count,    \* tokens read
  source,   \* the canonical text that is parsed again, <<>> for a client's
  sent      \* history: the value of the client's text

parser == <<stack, mode, str, value>>
vars == <<parser, count, source, sent>>

Init ==
  /\ stack = <<>> /\ mode = "value" /\ str = <<>> /\ value = Nothing
  /\ count = 0 /\ source = <<>> /\ sent = Nothing

----------------------------------------------------------------------------
(* When the parser accepts a token; everything else is an error. *)

\* Mutant: the limit is checked one level late.
WithinLater(depth) == depth <= MaxDepth + 1

Within(depth) == depth <= MaxDepth

\* value(depth) is called: an array that has just begun ("first") may also end.
AtValue == mode \in {"value", "first"} /\ Within(Len(stack))

In(kind) == stack # <<>> /\ Last(stack).kind = kind

\* The string is a key while its object has a value for every key.
IsKey == In("object") /\ Len(Last(stack).keys) = Len(Last(stack).items)

\* Mutant: repeated keys are left to the writer.
IsFreshAnyway(key) == TRUE

IsFresh(key) == key \notin ToSet(Last(stack).keys)

\* Inside a string: no control character as such, and surrogates only in pairs.
FitsString(t) ==
  CASE t.kind = "raw" -> mode = "string" /\ t.x \notin {Control, Tab}
    [] t.kind = "short" -> mode = "string" /\ t.x \in {Tab, Quote, Slash}
    [] t.kind = "hex" -> mode = IF t.x = Low THEN "low" ELSE "string"

Fits(t) ==
  CASE t.kind = "space" -> mode \notin {"string", "low"}
    [] t.kind \in {"null", "array", "object"} -> AtValue
    [] t.kind = "number" -> AtValue /\ Parsed[t.x] # Infinite
    [] t.kind = "endarray" -> mode = "first" \/ (mode = "after" /\ In("array"))
    [] t.kind = "endobject" -> mode = "firstkey" \/ (mode = "after" /\ In("object"))
    [] t.kind = "comma" -> mode = "after" /\ stack # <<>>
    [] t.kind = "colon" -> mode = "colon"
    [] t.kind = "quote" ->
         \/ AtValue
         \/ mode \in {"key", "firstkey"}
         \/ /\ mode = "string"
            /\ IsKey => IsFresh(str)
    [] OTHER -> FitsString(t)

----------------------------------------------------------------------------
(* What it does with one that fits. *)

Goto(m) == mode' = m /\ UNCHANGED <<stack, str, value>>

InLast(s, top) == Append(Front(s), top)

\* A value is complete: it goes into what the parser is in.
Complete(v, open) ==
  /\ mode' = "after" /\ str' = <<>>
  /\ IF open = <<>>
       THEN stack' = <<>> /\ value' = v
       ELSE /\ stack' = InLast(open, [Last(open) EXCEPT !.items = Append(@, v)])
            /\ UNCHANGED value

Leaf(t) ==
  \/ t.kind = "null" /\ Complete(Value("null", 0, <<>>), stack)
  \/ t.kind = "number" /\ Complete(Value("number", Parsed[t.x], <<>>), stack)

Enter(t) ==
  /\ t.kind \in {"array", "object"}
  /\ stack' = Append(stack, Value(t.kind, 0, <<>>))
  /\ mode' = IF t.kind = "array" THEN "first" ELSE "firstkey"
  /\ UNCHANGED <<str, value>>

Leave(t) == t.kind \in {"endarray", "endobject"} /\ Complete(Last(stack), Front(stack))

Separate(t) ==
  \/ t.kind = "comma" /\ Goto(IF In("object") THEN "key" ELSE "value")
  \/ t.kind = "colon" /\ Goto("value")
  \/ t.kind = "space" /\ Goto(mode)

ReadChar(t) ==
  /\ t.kind \in {"raw", "short", "hex"}
  /\ \/ t.x = High /\ Goto("low")
     \/ /\ t.x # High /\ mode' = "string"
        /\ str' = Append(str, IF t.x = Low THEN Astral ELSE t.x)
        /\ UNCHANGED <<stack, value>>

\* A key has no value until the parser has read one: it is kept aside.
EndString(t) ==
  /\ t.kind = "quote"
  /\ \/ mode # "string" /\ Goto("string")
     \/ /\ mode = "string" /\ IsKey
        /\ stack' = InLast(stack, [Last(stack) EXCEPT !.keys = Append(@, str)])
        /\ mode' = "colon" /\ str' = <<>> /\ UNCHANGED value
     \/ mode = "string" /\ ~IsKey /\ Complete(Value("string", 0, str), stack)

Refuse == mode' = "refused" /\ stack' = <<>> /\ str' = <<>> /\ value' = Nothing

Read(t) ==
  \/ Fits(t) /\ (Leaf(t) \/ Enter(t) \/ Leave(t) \/ Separate(t) \/ ReadChar(t) \/ EndString(t))
  \/ ~Fits(t) /\ Refuse

\* The end of the text: anything unfinished is an error.
EndOfText ==
  \/ mode = "after" /\ stack = <<>> /\ Goto("done")
  \/ ~(mode = "after" /\ stack = <<>>) /\ Refuse

----------------------------------------------------------------------------
(* The writer. *)

\* Mutant: a control character goes out as it is.
WriteCharRaw(c) == Token(IF c \in {Tab, Quote} THEN "short" ELSE "raw", c)

WriteChar(c) ==
  Token(IF c \in {Tab, Quote} THEN "short" ELSE IF c < Quote THEN "hex" ELSE "raw", c)

WriteStr(s) == <<Mark("quote")>> \o [i \in DOMAIN s |-> WriteChar(s[i])] \o <<Mark("quote")>>

Precedes(u, w) ==
  \E n \in 0 .. Len(w) - 1 :
    /\ n <= Len(u) /\ SubSeq(u, 1, n) = SubSeq(w, 1, n)
    /\ n < Len(u) => u[n + 1] < w[n + 1]

\* Mutant: keys in the order of their code points.
BeforeByCodePoint(k, l) == Precedes(k, l)

Before(k, l) == Precedes(Utf16(k), Utf16(l))

\* The places of the keys in their order.
Sorted(keys) ==
  CHOOSE order \in Surjection(DOMAIN keys, DOMAIN keys) :
    \A i, j \in DOMAIN keys : i < j => Before(keys[order[i]], keys[order[j]])

Join(parts) ==
  FlattenSeq([n \in DOMAIN parts |-> (IF n > 1 THEN <<Mark("comma")>> ELSE <<>>) \o parts[n]])

\* What is written of v, when text has what is written of its items.
TextOver(text, v) ==
  CASE v.kind = "null" -> <<Mark("null")>>
    [] v.kind = "number" -> <<Token("number", Shortest(v.x))>>
    [] v.kind = "string" -> WriteStr(v.str)
    [] v.kind = "array" ->
         <<Mark("array")>> \o Join([n \in DOMAIN v.items |-> text[v.items[n]]]) \o <<Mark("endarray")>>
    [] v.kind = "object" ->
         LET order == Sorted(v.keys)
             Member(i) == WriteStr(v.keys[i]) \o <<Mark("colon")>> \o text[v.items[i]]
         IN <<Mark("object")>> \o Join([n \in DOMAIN order |-> Member(order[n])]) \o <<Mark("endobject")>>

Written[d \in 0..Levels] == [v \in Values[d] |-> TextOver(Written[d - 1], v)]

Write(v) == Written[Levels][v]

\* from_value, the other way in, from a value that another parser has built: is v
\* accepted, n levels below the whole value, when its items are those in accepted?
AcceptedOver(accepted, n, v) ==
  /\ n <= MaxDepth
  /\ v.kind = "number" => v.x # Infinite
  /\ \A i \in DOMAIN v.items : accepted[v.items[i]]

Accepted[d \in 0..Levels] ==
  [v \in Values[d] |-> AcceptedOver(Accepted[d - 1], Levels - d, v)]

FromValueAccepts(v) == Accepted[Levels][v]

----------------------------------------------------------------------------
Reading == mode \notin {"done", "refused"}

Sends ==
  /\ source = <<>> /\ Reading
  /\ \/ \E t \in Tokens :
          /\ count < MaxTokens \/ t.kind = "space"
          /\ t.kind \in {"raw", "short", "hex"} => Len(str) < MaxChars
          /\ Read(t)
          /\ count' = IF t.kind = "space" THEN count ELSE count + 1
     \/ EndOfText /\ UNCHANGED count
  /\ UNCHANGED <<source, sent>>

\* What was accepted is written, and the canonical text is to be parsed.
Canonicalize ==
  /\ source = <<>> /\ mode = "done"
  /\ source' = Write(value) /\ sent' = value
  /\ stack' = <<>> /\ mode' = "value" /\ str' = <<>> /\ value' = Nothing /\ count' = 0

Rereads ==
  /\ source # <<>> /\ Reading
  /\ \/ count < Len(source) /\ Read(source[count + 1]) /\ count' = count + 1
     \/ count = Len(source) /\ EndOfText /\ UNCHANGED count
  /\ UNCHANGED <<source, sent>>

Next == Sends \/ Canonicalize \/ Rereads

Spec == Init /\ [][Next]_vars

----------------------------------------------------------------------------
(* Properties. *)

\* What v means, when meaning has what its items mean.  Keys are in no order a
\* value's reader may rely on, and -0 equals 0.
MeaningOver(meaning, v) ==
  IF v.kind = "object"
  THEN <<"object", {<<v.keys[i], meaning[v.items[i]]>> : i \in DOMAIN v.keys}>>
  ELSE <<v.kind, IF v.x = MinusZero THEN Zero ELSE v.x, v.str,
         [i \in DOMAIN v.items |-> meaning[v.items[i]]]>>

Meanings[d \in 0..Levels] == [v \in Values[d] |-> MeaningOver(Meanings[d - 1], v)]

Meaning(v) == Meanings[Levels][v]

\* An array or object the parser is in, with the last key's value still to come.
Open(d) ==
  [kind : {"array", "object"}, x : {0}, str : {<<>>}, keys : Seq(Seq(Char)), items : Seq(Values[d])]

\* The parser's values are well formed wherever they are: no object has a key
\* twice, so that the writer's own check for repeated keys cannot fail
\* (canonical.rs 105-109), and a text that is parsed again is one of tokens.
TypeOK ==
  /\ mode \in {"value", "first", "key", "firstkey", "colon", "after", "string", "low",
               "done", "refused"}
  /\ str \in Seq(Char)
  /\ {value, sent} \subseteq {Nothing} \cup Values[Levels]
  /\ Len(stack) <= Levels
  /\ \A i \in DOMAIN stack : LET v == stack[i] IN
       /\ v \in Open(Levels - i)
       /\ IF v.kind = "object"
          THEN IsInjective(v.keys) /\ Len(v.keys) \in {Len(v.items), Len(v.items) + 1}
          ELSE v.keys = <<>>
  /\ source \in Seq(Tokens) /\ count \in Nat

\* What the writer writes the parser accepts; it means what the client's text
\* meant, and writing it again changes nothing: every escape, the depth and
\* the order of keys survive (canonicalize_str of canonicalize_str).
CanonicalIsFixed ==
  source # <<>> =>
    /\ mode # "refused"
    /\ mode = "done" => Meaning(value) = Meaning(sent) /\ Write(value) = source

\* In a canonical text the keys of every object ascend by UTF-16 units, the
\* ones beyond the basic plane below U+E000 and above (canonical.rs 103-104).
KeysAscend ==
  source # <<>> =>
    \A i \in DOMAIN stack : LET keys == stack[i].keys IN
      \A a, b \in DOMAIN keys : a < b => Precedes(Utf16(keys[a]), Utf16(keys[b]))

\* v with the members of every object in the opposite order.
ReversedOver(reversed, v) ==
  LET items == [i \in DOMAIN v.items |-> reversed[v.items[i]]]
  IN IF v.kind = "object" THEN [v EXCEPT !.keys = Reverse(@), !.items = Reverse(items)]
     ELSE [v EXCEPT !.items = items]

Reversed[d \in 0..Levels] == [v \in Values[d] |-> ReversedOver(Reversed[d - 1], v)]

Reordered(v) == Reversed[Levels][v]

\* The two ways in agree: a value whose text the strict parser accepts is
\* accepted as a value (from_value) as well, and its canonical text is the same
\* in whatever order that keeps the members (canonicalize and
\* canonicalize_str).
EntriesAgree ==
  mode = "done" =>
    /\ FromValueAccepts(value)
    /\ Write(Reordered(value)) = Write(value)
=============================================================================
