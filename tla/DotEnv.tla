------------------------------- MODULE DotEnv -------------------------------
(***************************************************************************)
(* dotenv files: envAssignment and formatSecrets of src/utils/files.ts     *)
(* write them, src/utils/import.ts reads them.  A text is a sequence of    *)
(* characters.  Reading takes two passes over a quoted value, which have   *)
(* to agree: statementEnd finds the line where it ends, decodeQuotedValue  *)
(* decodes what is within.  A loop is the function of its states, and      *)
(* stands still where the code leaves it.                                  *)
(***************************************************************************)
EXTENDS Naturals, Sequences, SequencesExt, FiniteSetsExt

CONSTANT Letters   \* the characters of a key

Backslash == "backslash"
Double == "quote"

Space == {" ", "\n", "\r"}
Quotes == {Double, "'"}
Marks == {Backslash, Double, "$", "backtick", "!"}  \* escaped by a backslash

ASSUME LettersAssumption ==
  Letters \cap (Space \cup Quotes \cup Marks \cup {"=", "#", ";", "[", "]"}) = {}

From(text, first) == SubSeq(text, first, Len(text))

\* The places of a part of a text that are not white space.
Inked(text, first, last) == {i \in first .. last : text[i] \notin Space}

TrimStart(text) == From(text, Min(Inked(text, 1, Len(text)) \cup {Len(text) + 1}))
Trim(text) ==
  LET inked == Inked(text, 1, Len(text))
  IN  SubSeq(text, Min(inked \cup {Len(text) + 1}), Max(inked \cup {0}))

\* The newline that ends the line of an offset, or the end of the text.
LineEnd(text, offset) ==
  Min({i \in offset .. Len(text) : text[i] = "\n"} \cup {Len(text) + 1})

(***************************************************************************)
(* Export                                                                  *)
(***************************************************************************)
IsKey(key) == key # <<>> /\ ToSet(key) \subseteq Letters

\* Mutant: a backslash is left alone.
EscapedMarks(character) ==
  CASE character = "\n" -> <<Backslash, "n">>
    [] character = "\r" -> <<Backslash, "r">>
    [] character \in Marks \ {Backslash} -> <<Backslash, character>>
    [] OTHER -> <<character>>

Escaped(character) ==
  CASE character = "\n" -> <<Backslash, "n">>
    [] character = "\r" -> <<Backslash, "r">>
    [] character \in Marks -> <<Backslash, character>>
    [] OTHER -> <<character>>

EnvAssignment(secret) ==
  secret.key \o <<"=", Double>>
  \o FlattenSeq([i \in DOMAIN secret.value |-> Escaped(secret.value[i])]) \o <<Double>>

\* The assignments joined by newlines, and one at the end.
FormatSecrets(secrets) ==
  FlattenSeq([i \in DOMAIN secrets |->
                EnvAssignment(secrets[i]) \o IF i < Len(secrets) THEN <<"\n">> ELSE <<>>])
  \o <<"\n">>

(***************************************************************************)
(* Import                                                                  *)
(***************************************************************************)
Malformed == [valid |-> FALSE]

Unescaped(character) ==
  CASE character = "n" -> <<"\n">>
    [] character = "r" -> <<"\r">>
    [] character \in Marks -> <<character>>
    [] OTHER -> <<Backslash, character>>

\* The loop of decodeQuotedValue: the next index and what is decoded so far.
Decode(source, quote, state) ==
  LET character == source[state.index]
      escape == character = Backslash /\ quote = Double
  IN  IF state.index > Len(source) \/ character = quote \/ (escape /\ state.index = Len(source))
      THEN state
      ELSE IF escape
      THEN [index |-> state.index + 2, value |-> state.value \o Unescaped(source[state.index + 1])]
      ELSE [index |-> state.index + 1, value |-> Append(state.value, character)]

\* Nothing but a comment may follow the closing quote.
DecodeQuoted(source, quote) ==
  LET decoded[n \in Nat] ==
        IF n = 0 THEN [index |-> 2, value |-> <<>>] ELSE Decode(source, quote, decoded[n - 1])
      last == decoded[Len(source)]
      remainder == Trim(From(source, last.index + 1))
  IN  IF /\ last.index <= Len(source) /\ source[last.index] = quote
         /\ remainder = <<>> \/ remainder[1] = "#"
      THEN [valid |-> TRUE, value |-> last.value] ELSE Malformed

\* Mutant: a backslash escapes a single quote too.
ScanAnyQuote(text, quote, state) ==
  LET character == text[state.offset]
  IN  IF state.offset > Len(text) \/ (character = quote /\ ~state.escaped) THEN state
      ELSE [offset |-> state.offset + 1, escaped |-> ~state.escaped /\ character = Backslash]

\* The loop of statementEnd over the characters of a value.  An escape ends with
\* its line.
Scan(text, quote, state) ==
  LET character == text[state.offset]
  IN  IF state.offset > Len(text) \/ (character = quote /\ ~state.escaped) THEN state
      ELSE [offset |-> state.offset + 1,
            escaped |-> quote = Double /\ ~state.escaped /\ character = Backslash]

\* Where the quote is closed, or the end of the text.
ClosingQuote(text, quote, first) ==
  LET scanned[n \in Nat] ==
        IF n = 0 THEN [offset |-> first, escaped |-> FALSE] ELSE Scan(text, quote, scanned[n - 1])
  IN  scanned[Len(text)].offset

\* The newline after the statement that starts at an offset.
StatementEnd(text, start) ==
  LET end == LineEnd(text, start)
      separator == Min({i \in start .. end - 1 : text[i] = "="} \cup {end})
      value == Min(Inked(text, separator + 1, end - 1) \cup {end})
  IN  IF value < end /\ text[value] \in Quotes
      THEN LineEnd(text, ClosingQuote(text, text[value], value + 1))
      ELSE end

\* "export " and the section [default], each as one character or two.
ExportPrefix == <<"e", " ">>
DefaultSection == <<"d">>

\* White space and a comment.
CommentStarts(source) ==
  {i \in DOMAIN source :
     source[i] \in Space /\ \E j \in i + 1 .. Len(source) :
       source[j] = "#" /\ \A between \in i .. j - 1 : source[between] \in Space}

ParseValue(source) ==
  IF source # <<>> /\ source[1] \in Quotes THEN DecodeQuoted(source, source[1])
  ELSE [valid |-> TRUE,
        value |-> Trim(SubSeq(source, 1, Min(CommentStarts(source) \cup {Len(source) + 1}) - 1))]

ParseAssignment(statement) ==
  LET separator == Min({i \in 1 .. LineEnd(statement, 1) - 1 : statement[i] = "="} \cup {Len(statement) + 1})
      name == Trim(SubSeq(statement, 1, separator - 1))
      key == IF IsPrefix(ExportPrefix, name) THEN Trim(From(name, Len(ExportPrefix) + 1)) ELSE name
      read == ParseValue(TrimStart(From(statement, separator + 1)))
  IN  IF separator > Len(statement) \/ ~IsKey(key) \/ ~read.valid THEN Malformed
      ELSE [valid |-> TRUE, key |-> key, value |-> read.value]

\* A line in brackets names the environment of what follows.
IsSection(line) ==
  /\ line[Len(line)] = "]"
  /\ \A i \in DOMAIN line : (line[i] = "[" => i = 1) /\ (line[i] = "]" => i = Len(line))
  /\ Trim(SubSeq(line, 2, Len(line) - 1)) # <<>>

Section(line) ==
  LET name == Trim(SubSeq(line, 2, Len(line) - 1))
  IN  IF name = DefaultSection THEN <<>> ELSE name

\* The loop of parseImport: the next line, its environment, and the secrets so far.
ReadStatement(text, state) ==
  LET end == LineEnd(text, state.start)
      line == Trim(SubSeq(text, state.start, end - 1))
      statementEnd == StatementEnd(text, state.start)
      assignment == ParseAssignment(SubSeq(text, state.start, statementEnd - 1))
      secret == [key |-> assignment.key, value |-> assignment.value,
                 environment |-> state.environment]
      Fails == [state EXCEPT !.valid = FALSE]
  IN  IF ~state.valid \/ state.start > Len(text) + 1 THEN state
      ELSE IF line = <<>> \/ line[1] \in {"#", ";"} THEN [state EXCEPT !.start = end + 1]
      ELSE IF line[1] = "[" THEN
        IF IsSection(line) THEN [state EXCEPT !.start = end + 1, !.environment = Section(line)]
        ELSE Fails
      ELSE IF assignment.valid THEN
        [state EXCEPT !.start = statementEnd + 1, !.secrets = Append(state.secrets, secret)]
      ELSE Fails

\* CR LF is a newline.
LineBreaks(text) ==
  FlattenSeq([i \in DOMAIN text |->
                IF text[i] = "\r" /\ i < Len(text) /\ text[i + 1] = "\n" THEN <<>> ELSE <<text[i]>>])

Statements(text) ==
  LET read[n \in Nat] ==
        IF n = 0 THEN [start |-> 1, environment |-> <<>>, secrets |-> <<>>, valid |-> TRUE]
        ELSE ReadStatement(text, read[n - 1])
  IN  read[Len(text) + 1]

ParseImport(text) == Statements(LineBreaks(text))
=============================================================================
