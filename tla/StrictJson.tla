----------------------------- MODULE StrictJson -----------------------------
(***************************************************************************)
(* The four hand-written JSON readers of the repository, as one pushdown   *)
(* machine that is told which of them it is:                               *)
(*                                                                         *)
(*   "interface"  StrictJsonParser    src/src/model-interface.ts           *)
(*   "artifact"   ArtifactJsonParser  src/src/projected-corpus.ts          *)
(*   "catalog"    strictJson          src/src/framework-catalog.ts         *)
(*   "bundle"     preflightJson       src/src/reproduction-bundle.ts       *)
(*                                                                         *)
(* Each exists because JSON.parse keeps the last of two equal keys and     *)
(* knows no limits, while the bytes that are read are the ones that were   *)
(* reviewed and hashed.  The call stack of the recursive descent is        *)
(* `stack', one frame per open container; the depth argument is its        *)
(* length.                                                                 *)
(*                                                                         *)
(* A text is a sequence of tokens, chosen one at a time as the reader      *)
(* gets to them, so that every text of the bounded length is covered and   *)
(* a refused one is not read any further.  A string token stands for the   *)
(* string as it is spelled: "key" and "escapedKey" are two spellings of    *)
(* one key, "longKey" decodes to more than 65536 bytes, "loneKey" to a     *)
(* lone surrogate and "broken" to nothing at all (an unknown escape, a     *)
(* control character, no closing quote).  The size of a whole text, which  *)
(* every reader checks before it starts, is left out.                      *)
(***************************************************************************)
EXTENDS Naturals, Sequences, SequencesExt, FiniteSets

CONSTANTS MaxText,      \* tokens of a text, white space and the end included
          MaxDepth,     \* MAX_MODEL_INTERFACE_JSON_DEPTH, 128, MAX_DEPTH
          MaxNodes,     \* MAX_NODES, REPRODUCTION_MAX_NODES, a Budget's nodes
          MaxMembers,   \* members of one object: 4096 and 256
          MaxElements   \* elements of one array: 4096

VARIABLES
    parser,    \* which of the readers it is
    allowance, \* the values it may still read when it starts
    text,      \* the tokens read so far
    machine    \* [at, stack, left, verdict]

jsonVars == <<parser, allowance, text, machine>>

Parsers == {"interface", "artifact", "catalog", "bundle"}
Strings == {"key", "escapedKey", "base64", "longKey", "loneKey", "broken"}
Numbers == {"int", "frac"}        \* a safe integer, and any other number
Tokens == {"{", "}", "[", "]", ":", ",", "space", "junk", "end"}
            \cup Strings \cup Numbers

-----------------------------------------------------------------------------
(* The tokens.                                                             *)

\* Variant with a bug: the key is compared as it is spelled.
decoded_Raw(t) == t

\* What JSON.parse, or the reader's own loop, makes of a spelling.
decoded(t) == IF t = "escapedKey" THEN "key" ELSE t

\* The strings each reader takes.  The first two decode as they go; the others
\* find the closing quote and have JSON.parse decode what lies before it.
interfaceString(t) == t \in Strings \ {"broken", "loneKey"}
artifactString(t) == t \in Strings \ {"broken", "loneKey"}
catalogString(t) == t \in Strings \ {"broken", "loneKey", "longKey"}
\* Only the value of a member called base64 may be long; a lone surrogate is
\* not looked for.
bundleString(t, roomy) == t \in Strings \ {"broken"} /\ (t = "longKey" => roomy)

StringRead(t, roomy) ==
    CASE parser = "interface" -> interfaceString(t)
      [] parser = "artifact" -> artifactString(t)
      [] parser = "catalog" -> catalogString(t)
      [] parser = "bundle" -> bundleString(t, roomy)

\* number(): only the artifacts' reader looks at the value.  (The first also
\* refuses what is not finite, which is left out.)
artifactNumber(t) == t = "int"
NumberRead(t) == IF parser = "artifact" THEN artifactNumber(t) ELSE t \in Numbers

-----------------------------------------------------------------------------
(* The machine.  Every operator takes one and returns the next.            *)

refuse(m) == [m EXCEPT !.verdict = "refused"]
Depth(m) == Len(m.stack)
Top(m) == Last(m.stack)

Frame(kind) == [kind |-> kind, keys |-> {}, count |-> 0, member |-> "none"]

\* value(depth) before it looks at a character.
Room(m) ==
    /\ parser # "interface" => m.left > 0
    /\ parser \in {"catalog", "bundle"} => Depth(m) <= MaxDepth

Enter(m) == IF Room(m)
            THEN [m EXCEPT !.left = IF parser = "interface" THEN @ ELSE @ - 1,
                           !.at = "value"]
            ELSE refuse(m)

\* A value is complete: its caller goes on, or parse() does.
Return(m) == [m EXCEPT !.at = IF m.stack = <<>> THEN "trailing" ELSE "delimiter"]
Pop(m) == Return([m EXCEPT !.stack = Front(@)])

\* object() and array() up to the first character inside.
containerDepth(m, kind) ==
    IF parser \in {"interface", "artifact"} /\ Depth(m) >= MaxDepth
    THEN refuse(m)
    ELSE [m EXCEPT !.stack = Append(@, Frame(kind)), !.at = "opened"]

Roomy(m) == parser = "bundle" /\ m.stack # <<>> /\ Top(m).member = "base64"

value(m, t) ==
    CASE t = "{" -> containerDepth(m, "object")
      [] t = "[" -> containerDepth(m, "array")
      [] StringRead(t, Roomy(m)) \/ NumberRead(t) -> Return(m)
      [] OTHER -> refuse(m)

\* Variant with a bug: the member limit strikes one member early.
key_OneFewer(m, t) ==
    LET d == Depth(m) IN
    IF /\ StringRead(t, FALSE)
       /\ decoded(t) \notin Top(m).keys
       /\ parser \in {"catalog", "bundle"} => Top(m).count + 1 < MaxMembers
    THEN [m EXCEPT !.stack[d].keys = @ \cup {decoded(t)},
                   !.stack[d].count = @ + 1,
                   !.stack[d].member = decoded(t),
                   !.at = "colon"]
    ELSE refuse(m)

\* A member: its key, which must be a string, new, and within the limit.
key(m, t) ==
    LET d == Depth(m) IN
    IF /\ StringRead(t, FALSE)
       /\ decoded(t) \notin Top(m).keys
       /\ parser \in {"catalog", "bundle"} => Top(m).count < MaxMembers
    THEN [m EXCEPT !.stack[d].keys = @ \cup {decoded(t)},
                   !.stack[d].count = @ + 1,
                   !.stack[d].member = decoded(t),
                   !.at = "colon"]
    ELSE refuse(m)

colon(m, t) == IF t = ":" THEN Enter(m) ELSE refuse(m)

\* An element: counted first, then read.
Element(m) ==
    IF parser \in {"catalog", "bundle"} /\ Top(m).count >= MaxElements
    THEN refuse(m)
    ELSE Enter([m EXCEPT !.stack[Depth(m)].count = @ + 1])

\* The first character inside a container either closes it or starts the
\* first member or element.
opened(m, t) ==
    IF Top(m).kind = "object"
    THEN IF t = "}" THEN Pop(m) ELSE key(m, t)
    ELSE IF t = "]" THEN Pop(m)
         ELSE LET e == Element(m) IN
              IF e.verdict = "refused" THEN e ELSE value(e, t)

delimiter(m, t) ==
    CASE t = (IF Top(m).kind = "object" THEN "}" ELSE "]") -> Pop(m)
      [] t = "," -> IF Top(m).kind = "object"
                    THEN [m EXCEPT !.at = "key"]
                    ELSE Element(m)
      [] OTHER -> refuse(m)

\* parse() after the value.  The catalog's reader walks the parsed value
\* once more, for its numbers.
trailing(m, t) ==
    IF t = "end" /\ (parser = "catalog" => "frac" \notin Range(text))
    THEN [m EXCEPT !.verdict = "accepted"]
    ELSE refuse(m)

Respond(m, t) ==
    CASE t = "space" -> m
      [] m.at = "value" -> value(m, t)
      [] m.at = "opened" -> opened(m, t)
      [] m.at = "key" -> key(m, t)
      [] m.at = "colon" -> colon(m, t)
      [] m.at = "delimiter" -> delimiter(m, t)
      [] m.at = "trailing" -> trailing(m, t)

-----------------------------------------------------------------------------
\* What a reader starts from.  The artifacts of one corpus share a Budget, so
\* theirs starts from whatever the artifacts before it have left; the
\* interface's reader counts nothing.
JsonInit ==
    /\ parser \in Parsers
    /\ allowance \in IF parser = "artifact" THEN 0 .. MaxNodes ELSE {MaxNodes}
    /\ text = <<>>
    /\ machine = Enter([at |-> "value", stack |-> <<>>, left |-> allowance,
                        verdict |-> "reading"])

\* White space is skipped between any two tokens; one per text is enough to
\* see it skipped at every place.
Upcoming ==
    {t \in Tokens : /\ Len(text) + 1 >= MaxText => t = "end"
                    /\ t = "space" => "space" \notin Range(text)}

Read ==
    /\ machine.verdict = "reading"
    /\ \E t \in Upcoming :
          /\ machine' = Respond(machine, t)
          /\ text' = Append(text, t)
    /\ UNCHANGED <<parser, allowance>>

JsonNext == Read

-----------------------------------------------------------------------------
(* The reference: every JSON text, generated from the grammar, and what    *)
(* each reader's documentation asks of one, read off the text itself.      *)

Plain(s) == SelectSeq(s, LAMBDA t : t # "space")

RECURSIVE Values(_), Lists(_), Members(_)
\* The texts of exactly n tokens that are a value, ...
Values(n) ==
    IF n = 1 THEN {<<t>> : t \in Strings \cup Numbers}
    ELSE IF n < 1 THEN {}
    ELSE {<<"[">> \o s \o <<"]">> : s \in Lists(n - 2)}
           \cup {<<"{">> \o s \o <<"}">> : s \in Members(n - 2)}
\* ... values between commas, ...
Lists(n) ==
    IF n = 0 THEN {<<>>}
    ELSE Values(n) \cup
         UNION {{v \o <<",">> \o s : v \in Values(k), s \in Lists(n - k - 1)} :
                k \in 1 .. n - 2}
\* ... and members between commas.
Members(n) ==
    IF n = 0 THEN {<<>>}
    ELSE {<<k, ":">> \o v : k \in Strings, v \in Values(n - 2)} \cup
         UNION {{<<k, ":">> \o v \o <<",">> \o s :
                    k \in Strings, v \in Values(j), s \in Members(n - j - 3)} :
                j \in 1 .. n - 4}

Grammar == UNION {Values(n) : n \in 1 .. MaxText - 1}

\* The string a token spells.
Name(t) == IF t \in {"key", "escapedKey"} THEN "key" ELSE t

Opens == {"[", "{"}
Closes == {"]", "}"}
IsKey(s, i) == i < Len(s) /\ s[i + 1] = ":"
\* The containers open around token i.
Nesting(s, i) == Cardinality({j \in 1 .. i - 1 : s[j] \in Opens})
                   - Cardinality({j \in 1 .. i : s[j] \in Closes})
IsValue(s, i) == s[i] \in Opens \cup Strings \cup Numbers /\ ~IsKey(s, i)
Nodes(s) == Cardinality({i \in DOMAIN s : IsValue(s, i)})
\* Tokens i and j lie directly in one and the same container.
Siblings(s, i, j) ==
    /\ i < j
    /\ Nesting(s, i) = Nesting(s, j)
    /\ \A k \in i .. j : Nesting(s, k) >= Nesting(s, i)
Elders(s, i) == {j \in 1 .. i - 1 : Siblings(s, j, i) /\ (IsKey(s, j) = IsKey(s, i))
                                     /\ (IsKey(s, j) \/ IsValue(s, j))}
\* The key a member's value belongs to.
Under(s, i) == IF i > 2 /\ s[i - 1] = ":" THEN Name(s[i - 2]) ELSE "none"

\* What reader p, with room for b more values, is to accept.
Strict(p, b, s) ==
    /\ \A i \in DOMAIN s : s[i] # "broken"
    /\ \A i, j \in DOMAIN s :
          Siblings(s, i, j) /\ IsKey(s, i) /\ IsKey(s, j) => Name(s[i]) # Name(s[j])
    /\ p # "interface" => Nodes(s) <= b
    /\ p \in {"interface", "artifact"} =>
          \A i \in DOMAIN s : s[i] \in Opens => Nesting(s, i) < MaxDepth
    /\ p # "bundle" => "loneKey" \notin Range(s)
    /\ p \in {"artifact", "catalog"} => "frac" \notin Range(s)
    /\ p \in {"catalog", "bundle"} =>
          \A i \in DOMAIN s :
             /\ IsValue(s, i) => Nesting(s, i) <= MaxDepth
             /\ s[i] = "longKey" => /\ p = "bundle" /\ ~IsKey(s, i)
                                    /\ Under(s, i) = "base64"
             /\ IsKey(s, i) => Cardinality(Elders(s, i)) < MaxMembers
             /\ IsValue(s, i) /\ Under(s, i) = "none" =>
                   Cardinality(Elders(s, i)) < MaxElements

Admissible == [p \in Parsers, b \in 0 .. MaxNodes |->
                  {Append(s, "end") : s \in {g \in Grammar : Strict(p, b, g)}}]
Beginnings == [p \in Parsers, b \in 0 .. MaxNodes |->
                UNION {{SubSeq(s, 1, n) : n \in 0 .. Len(s)} : s \in Admissible[p, b]}]

-----------------------------------------------------------------------------
\* A text a reader accepts is one JSON value and nothing after it; no object
\* of it, at any depth, holds two members of one decoded name, however they
\* are spelled; it keeps within the reader's limits; and the values it holds
\* are exactly what it took from the budget the artifacts of a corpus share.
AcceptedIsStrict ==
    machine.verdict = "accepted" =>
        /\ Plain(text) \in Admissible[parser, allowance]
        /\ parser # "interface" => allowance - machine.left = Nodes(Front(Plain(text)))

\* A text is refused only when nothing could be appended to what was read of
\* it that would make it admissible: no limit strikes one early, no sequence
\* of legal containers, members and white space leaves the reader in the wrong
\* place.
RefusedIsHopeless ==
    machine.verdict = "refused" => Plain(text) \notin Beginnings[parser, allowance]

\* Each reader accepts exactly the texts that its grammar and limits admit, and
\* gives up no text before it has to.
ReadersAreStrict == AcceptedIsStrict /\ RefusedIsHopeless
=============================================================================
