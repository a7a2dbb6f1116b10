----------------------------- MODULE StrictJSON -----------------------------
(***************************************************************************)
(* The strict JSON reader, of which the code has three copies: parseStrict- *)
(* JSON of src/utils/json.ts reads what the CLI and the update helper      *)
(* answer, that of scripts/install-cli.mjs reads release documents and the *)
(* updater's own files, that of scripts/verify-release.mjs reads the       *)
(* package's metadata.  Each is a parser that only finds the end of a      *)
(* value, with a depth limit and without duplicate fields; JSON.parse then *)
(* makes the value.                                                        *)
(*                                                                         *)
(* A text is a sequence of tokens: the six marks, white space, and strings *)
(* and other atoms as wholes.  A value is a tree; the kind of a leaf is    *)
(* its token.  What calls itself in the code is a function here: of values *)
(* or of the levels that are left.                                         *)
(***************************************************************************)
EXTENDS Integers, Sequences, SequencesExt, FiniteSetsExt

CONSTANTS
  SDKDepth,        \* MAX_JSON_DEPTH
  VerifierDepth,   \* maxDepth of verify-release.mjs
  InstallerDepth,  \* JSON_DEPTH
  Levels,          \* how deep values may be nested at most
  Strings,         \* strings as they are spelled
  DecodedString,   \* the plain spelling of each
  Unpaired,        \* those that have an unpaired surrogate
  NonASCII,        \* those that have a character outside ASCII
  Place,           \* where a string stands when names are sorted
  WholeNumbers, OtherNumbers

Whitespace == {" ", "\n"}
Literals == {"null", "true", "false"}
Numbers == WholeNumbers \cup OtherNumbers
Opening == {"{", "["}
Closing(kind) == IF kind = "{" THEN "}" ELSE "]"

Atoms == Strings \cup Literals \cup Numbers
Tokens == Atoms \cup Whitespace \cup Opening \cup {"}", "]", ":", ","}

ASSUME JSONAssumption ==
  /\ SDKDepth \in Nat /\ VerifierDepth \in Nat /\ InstallerDepth \in Nat /\ Levels \in Nat
  /\ InstallerDepth <= SDKDepth /\ SDKDepth < Levels /\ VerifierDepth < Levels
  /\ DecodedString \in [Strings -> Strings] /\ Place \in [Strings -> Nat]
  /\ \A string \in Strings :
       LET decoded == DecodedString[string]
       IN  /\ DecodedString[decoded] = decoded
           /\ string \in Unpaired <=> decoded \in Unpaired
           /\ string \in NonASCII <=> decoded \in NonASCII
  /\ Unpaired \subseteq NonASCII
  /\ Strings \cap (Literals \cup Numbers) = {}
  /\ Atoms \cap (Whitespace \cup Opening \cup {"}", "]", ":", ",", "end"}) = {}

\* The strings and numbers a copy reads, its limit, and the depth at which it
\* starts to count.
SDK == [limit |-> SDKDepth, start |-> 0, strings |-> Strings \ Unpaired, numbers |-> Numbers]
Verifier == [limit |-> VerifierDepth, start |-> 0, strings |-> Strings, numbers |-> Numbers]
Installer == [limit |-> InstallerDepth, start |-> 1, strings |-> Strings, numbers |-> WholeNumbers]

AtomsOf(dialect) == dialect.strings \cup Literals \cup dialect.numbers

(***************************************************************************)
(* Values                                                                  *)
(***************************************************************************)
Tree(kind, names, items) == [kind |-> kind, names |-> names, items |-> items]
Leaf(token) == Tree(token, <<>>, <<>>)
List(items) == Tree("[", <<>>, items)
Record(names, items) == Tree("{", names, items)

\* A token as JSON.parse understands it.
PlainToken(token) == IF token \in Strings THEN DecodedString[token] ELSE token
PlainStrings == {DecodedString[string] : string \in Strings}

\* Leaves, lists of values and objects of named values.
Nests(values) ==
  [kind : {PlainToken(token) : token \in Atoms}, names : {<<>>}, items : {<<>>}]
  \cup [kind : {"["}, names : {<<>>}, items : Seq(values)]
  \cup {value \in [kind : {"{"}, names : Seq(PlainStrings), items : Seq(values)] :
          Len(value.names) = Len(value.items) /\ IsInjective(value.names)}

ValuesOf[levels \in Nat] == IF levels = 0 THEN {} ELSE Nests(ValuesOf[levels - 1])
Values == ValuesOf[Levels]

(***************************************************************************)
(* Reading                                                                 *)
(***************************************************************************)
At(text, offset) == IF offset \in DOMAIN text THEN text[offset] ELSE "end"

SkipWhitespace(text, offset) ==
  Min({i \in offset .. Len(text) : text[i] \notin Whitespace} \cup {Len(text) + 1})

\* What a function of the parser returns: where it stopped, 0 when it failed.
Failed == [offset |-> 0, value |-> Leaf("null")]
Parsed(offset, value) == [offset |-> offset, value |-> value]

\* What has been read of an object or of a list.
Begun(offset) == [offset |-> offset, names |-> <<>>, items |-> <<>>, status |-> "open"]
Fail(state) == [state EXCEPT !.status = "failed"]

\* Mutant: an escaped spelling of a field is another field.
IsNamedAsSpelled(dialect, text, state) ==
  LET name == SkipWhitespace(text, state.offset)
  IN  /\ At(text, name) \in dialect.strings
      /\ ~Contains(state.names, At(text, name))
      /\ At(text, SkipWhitespace(text, name + 1)) = ":"

\* Behind the last item of an object there is a new name and a colon.
IsNamed(dialect, text, state) ==
  LET name == SkipWhitespace(text, state.offset)
  IN  /\ At(text, name) \in dialect.strings
      /\ ~Contains(state.names, DecodedString[At(text, name)])
      /\ At(text, SkipWhitespace(text, name + 1)) = ":"

\* A round of the loop over the items of an object or a list.
ParseItem(dialect, text, kind, inner, state) ==
  LET name == SkipWhitespace(text, state.offset)
      item == inner[IF kind = "{" THEN SkipWhitespace(text, name + 1) + 1 ELSE state.offset]
      next == SkipWhitespace(text, item.offset)
      read == [state EXCEPT !.offset = next + 1, !.items = Append(@, item.value),
                 !.names = IF kind = "{" THEN Append(@, DecodedString[At(text, name)]) ELSE @]
  IN  IF state.status # "open" THEN state
      ELSE IF (kind = "{" /\ ~IsNamed(dialect, text, state)) \/ item.offset = 0 THEN Fail(state)
      ELSE CASE At(text, next) = Closing(kind) -> [read EXCEPT !.status = "closed"]
             [] At(text, next) = "," -> read
             [] OTHER -> Fail(state)

\* The loop, which ends before it has had a round for every token.
ParseItems(dialect, text, kind, inner, offset) ==
  LET after[rounds \in Nat] ==
        IF rounds = 0 THEN Begun(offset)
        ELSE ParseItem(dialect, text, kind, inner, after[rounds - 1])
  IN  after[Len(text) + 1]

\* A value, given what is read one level deeper.
ParseNested(dialect, text, inner, from) ==
  LET offset == SkipWhitespace(text, from)
      token == At(text, offset)
      inside == SkipWhitespace(text, offset + 1)
      read == ParseItems(dialect, text, token, inner, inside)
  IN  CASE token \in Opening ->
             IF At(text, inside) = Closing(token)
             THEN Parsed(inside + 1, Tree(token, <<>>, <<>>))
             ELSE IF read.status = "closed"
             THEN Parsed(read.offset, Tree(token, read.names, read.items))
             ELSE Failed
        [] token \in AtomsOf(dialect) -> Parsed(offset + 1, Leaf(PlainToken(token)))
        [] OTHER -> Failed

\* What parseValue reads at each offset while so many levels are left.
ParseLevels(dialect, text, levels) ==
  LET reads[left \in Nat] ==
        [offset \in Nat |-> IF left = 0 THEN Failed
                            ELSE ParseNested(dialect, text, reads[left - 1], offset)]
  IN  reads[levels]

ParseJSON(dialect, text, offset, depth) ==
  ParseLevels(dialect, text, dialect.limit + 1 - depth)[offset]

\* Exactly one value: there is nothing behind what has been read.
ReadToEnd(text, read) ==
  IF read.offset # 0 /\ SkipWhitespace(text, read.offset) = Len(text) + 1 THEN read ELSE Failed

ParseText(dialect, text) ==
  ReadToEnd(text, ParseJSON(dialect, text, SkipWhitespace(text, 1), dialect.start))

\* The copies of the SDK and of the verifier.
SDKReads(text) == ParseText(SDK, text)
VerifierReads(text) == ParseText(Verifier, text)

(***************************************************************************)
(* Writing                                                                 *)
(***************************************************************************)
\* The installer writes ASCII only.
InstallerWrites == [Installer EXCEPT !.strings = Strings \ NonASCII]

\* Whether a value may stand at a depth of what is written.
Allowed(dialect, value, depth) ==
  LET allowed[part \in Values] ==
        [level \in Nat |->
           /\ level <= dialect.limit
           /\ part.kind \in Opening \cup AtomsOf(dialect)
           /\ ToSet(part.names) \subseteq dialect.strings
           /\ \A i \in DOMAIN part.items : allowed[part.items[i]][level + 1]]
  IN  allowed[value][depth]

\* assertJSONDepth and validateJSONValue.
SDKAllows(value) == Allowed(SDK, value, 0)
InstallerAllows(value) == Allowed(InstallerWrites, value, 0)

\* JSON.stringify.
Encode[value \in Values] ==
  LET Mark(i) == IF i = 1 THEN value.kind ELSE ","
      Name(i) == IF value.kind = "{" THEN <<value.names[i], ":">> ELSE <<>>
      parts == [i \in DOMAIN value.items |-> <<Mark(i)>> \o Name(i) \o Encode[value.items[i]]]
  IN  IF value.kind \notin Opening THEN <<value.kind>>
      ELSE IF value.items = <<>> THEN <<value.kind, Closing(value.kind)>>
      ELSE FlattenSeq(parts) \o <<Closing(value.kind)>>

\* The places of names when they are sorted.
Sorted(names) ==
  CHOOSE order \in Bijection(DOMAIN names, DOMAIN names) :
    \A i, j \in DOMAIN names : i < j => Place[names[order[i]]] <= Place[names[order[j]]]

CanonicalValue[value \in Values] ==
  LET order == IF value.kind = "{" THEN Sorted(value.names) ELSE [i \in DOMAIN value.items |-> i]
  IN  Tree(value.kind,
           [i \in DOMAIN value.names |-> value.names[order[i]]],
           [i \in DOMAIN value.items |-> CanonicalValue[value.items[order[i]]]])

CanonicalJSON(value) == Encode[CanonicalValue[value]]

\* The copy of the installer checks the value once more.
Validated(read) == IF read # Failed /\ ~InstallerAllows(read.value) THEN Failed ELSE read
InstallerReads(text) == Validated(ParseText(Installer, text))

\* Mutant: the bytes need not be the canonical ones.
ReadAnySpelling(text) == InstallerReads(text)

\* A signed document is canonical and ends with a newline.
IfCanonical(text, read) ==
  IF read # Failed /\ CanonicalJSON(read.value) \o <<"\n">> # text THEN Failed ELSE read

ReadEnvelope(text) == IfCanonical(text, InstallerReads(text))

(***************************************************************************)
(* The grammar, for comparison: of a text that is a value there is a way to *)
(* take it apart at commas, and of its parts again                         *)
(***************************************************************************)
\* What a text says, without white space and escapes.
Said(text) ==
  FlattenSeq([i \in DOMAIN text |-> IF text[i] \in Whitespace THEN <<>> ELSE <<PlainToken(text[i])>>])

\* Where there is a token from one place up to another.
Ink(text, from, to) == {i \in from .. to - 1 : text[i] \notin Whitespace}

\* Where the value of a part may start: in an object, behind a string and a colon.
ValueStarts(strings, text, kind, from, to) ==
  IF kind = "[" THEN {from}
  ELSE {colon + 1 : colon \in {c \in from .. to - 1 :
          text[c] = ":" /\ \E name \in from .. c - 1 :
                             Ink(text, from, c) = {name} /\ text[name] \in strings}}

\* The name of a part of an object.
NameOf(text, from) == DecodedString[text[Min(Ink(text, from, Len(text) + 1))]]

IsRow(dialect, text, inner, first, last) ==
  \E commas \in SUBSET {i \in first + 1 .. last - 1 : text[i] = ","} :
    LET marks == commas \cup {first}
        Until(mark) == Min({m \in commas \cup {last} : m > mark})
    IN  /\ \A m \in marks :
             \E start \in ValueStarts(dialect.strings, text, text[first], m + 1, Until(m)) :
               inner[<<start, Until(m)>>]
        /\ text[first] = "{" =>
             \A m, n \in marks : NameOf(text, m + 1) = NameOf(text, n + 1) => m = n

IsNested(dialect, text, inner, from, to) ==
  LET ink == Ink(text, from, to)
  IN  \/ \E i \in ink : ink = {i} /\ text[i] \in AtomsOf(dialect)
      \/ \E first, last \in ink :
           /\ first < last /\ \A i \in ink : first <= i /\ i <= last
           /\ text[first] \in Opening /\ text[last] = Closing(text[first])
           /\ Ink(text, first + 1, last) = {} \/ IsRow(dialect, text, inner, first, last)

IsText(dialect, text) ==
  LET is[levels \in Nat] ==
        [part \in Nat \X Nat |-> levels # 0 /\ IsNested(dialect, text, is[levels - 1], part[1], part[2])]
  IN  is[dialect.limit + 1 - dialect.start][<<1, Len(text) + 1>>]
=============================================================================
