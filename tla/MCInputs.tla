------------------------------ MODULE MCInputs ------------------------------
(***************************************************************************)
(* Inputs with small limits and sets of inputs that are well formed, that  *)
(* differ from such in one token, and all short ones.                      *)
(***************************************************************************)
EXTENDS Inputs

\* 1 and 2 are one name but for its case.
MCLowercase == [name \in {1, 2, 3} |-> IF name = 2 THEN 1 ELSE name]

\* Two spellings of one string, another one, one outside ASCII and one with an
\* unpaired surrogate.
MCStrings == {"'a'", "'\\u0061'", "'b'", "'e'", "'\\ud800'"}
MCDecodedString == [string \in MCStrings |-> IF string = "'\\u0061'" THEN "'a'" ELSE string]
MCUnpaired == {"'\\ud800'"}
MCNonASCII == {"'e'", "'\\ud800'"}
MCPlace == [string \in MCStrings |-> IF string = "'b'" THEN 2 ELSE 1]

\* A text and what comes of it when one token is changed, lost or added.
Edits(text, tokens) ==
  {text}
  \cup {ReplaceAt(text, i, token) : i \in DOMAIN text, token \in tokens}
  \cup {RemoveAt(text, i) : i \in DOMAIN text}
  \cup {InsertAt(text, i, token) : i \in 1 .. Len(text) + 1, token \in tokens}

One == Leaf("1")
A == Leaf("'a'")
Nested == [n \in {2, 3, 4} |->
             IF n = 2 THEN List(<<List(<<One>>)>>)
             ELSE IF n = 3 THEN List(<<List(<<List(<<One>>)>>)>>)
             ELSE List(<<List(<<List(<<List(<<One>>)>>)>>)>>)]
Pair == Record(<<"'a'", "'b'">>, <<One, A>>)
Swapped == Record(<<"'b'", "'a'">>, <<One, A>>)
Long == Record(<<"'a'", "'b'">>, <<Pair, One>>)

\* Lists and objects of up to two values, and some that are longer or deeper.
Leaves == {Leaf(token) : token \in {"null", "1.5", "1", "'a'"}}
JSONValues ==
  Leaves
  \cup {List(items) : items \in SeqOf(Leaves \cup {List(<<>>)}, 2)}
  \cup {Record(<<"'a'">>, <<leaf>>) : leaf \in Leaves}
  \cup {Record(<<>>, <<>>), Nested[2], Nested[3], Nested[4], List(<<Nested[4]>>),
        Pair, Swapped, Long, List(<<Record(<<"'a'">>, <<List(<<>>)>>)>>)}

JSONTokens ==
  {"{", "}", "[", "]", ":", ",", " ", "'a'", "'\\u0061'", "'b'", "'e'", "'\\ud800'",
   "null", "1", "1.5"}

GivenJSON ==
  \E reader \in Readers :
    \/ \E written \in JSONValues :
         \/ Given(reader, Encode[written], {written})
         \/ \E text \in Edits(Encode[written], JSONTokens) : Given(reader, text, {})
    \/ \E text \in SeqOf({"{", "}", "[", "]", ":", ",", "'a'", "1"}, 5) : Given(reader, text, {})

\* Signed documents; the last one is longer than the limit.
GivenDocument ==
  \E written \in {List(<<>>), Pair, Swapped, Long} :
    Given("document", Encode[written] \o <<"\n">>, {written})

\* Secrets to export: one with a value of up to three characters, or two.
Secret(key, text) == [key |-> <<key>>, value |-> text, environment |-> <<>>]
Characters == {"n", " ", "\n", "\r", "#", "$", "'", Backslash, Double}
Exports ==
  {<<Secret("k", text)>> : text \in SeqOf(Characters, 3)}
  \cup {<<Secret("k", first), Secret("n", second)>> :
          first \in SeqOf(Characters, 1), second \in SeqOf(Characters, 1)}

GivenImport ==
  \/ \E secrets \in Exports : Given("import", FormatSecrets(secrets), {secrets})
  \/ \E text \in SeqOf((Characters \ {"$"}) \cup {"="}, 5) : Given("import", <<"k", "=">> \o text, {})
  \/ \E text \in SeqOf({"k", "=", " ", "\n", "'", "#", "[", "]", "d", "e"}, 5) : Given("import", text, {})

\* Archives of up to three files, and what comes of some when a byte is changed,
\* lost or added.
Contents == {<<>>, <<1>>, <<3, 0>>}
Source == [name \in {1, 3} |-> IF name = 1 THEN <<1>> ELSE <<>>]
OtherSource == [name \in {1} |-> <<3, 0>>]
Lists == SeqOf([name : {1, 2, 3}, data : Contents], 3)
Edited == {<<[name |-> 1, data |-> <<1>>], [name |-> 3, data |-> <<>>]>>,
           <<[name |-> 1, data |-> <<3, 0>>]>>}

GivenPackage ==
  \E files \in {Source, OtherSource} :
    \/ \E list \in Lists, zeros \in 0 .. 6 : Given("package", Pack(list, zeros), {files})
    \/ \E list \in Edited, zeros \in 3 .. 5 : \E bytes \in Edits(Pack(list, zeros), 0 .. 3) :
         Given("package", bytes, {files})

Init == GivenJSON \/ GivenDocument \/ GivenImport \/ GivenPackage

Spec == Init /\ [][Next]_allVars

\* The timers run and a file is read.
FairSpec == Spec /\ Timely /\ WF_allVars(ReadFile)
=============================================================================
