------------------------------- MODULE Files -------------------------------
(***************************************************************************)
(* Files that the SDK and its scripts read, from the first byte to the     *)
(* value: secrets to import, and the npm package before it is published.   *)
(* Inputs adds the documents that are JSON.                                *)
(***************************************************************************)
EXTENDS Download, PackageArchive, DotEnv

VARIABLES
  kind,     \* "document" (downloaded), "sdk", "verifier", "installer" (JSON), "import", "package"
  source,   \* what the bytes were made from (a value, a list of secrets, files),
            \* in a set; empty when they were made from nothing
  verdict,  \* "unread", "accepted", "refused"
  value     \* what was read

inputVars == <<kind, source, verdict, value>>
allVars == <<vars, inputVars>>

\* The input is there and nothing of it has been read.
Given(what, text, from) ==
  /\ kind = what /\ source = from
  /\ verdict = "unread" /\ value = <<>>
  /\ IF what = "document" THEN Request(text)
     ELSE /\ body = text /\ framing = "close" /\ declared = 0 /\ expected = 0
          /\ total = 0 /\ kept = 0
          /\ connection = "over" /\ timer = "off" /\ outcome = "open"

\* readUTF8FileBounded and readRegularBytes: all of a file, or nothing when it is
\* too long.
ReadFile ==
  /\ kind # "document" /\ outcome = "open"
  /\ total' = Len(body)
  /\ kept' = IF Len(body) <= Maximum THEN Len(body) ELSE 0
  /\ outcome' = IF Len(body) <= Maximum THEN "bytes" ELSE "failed"
  /\ UNCHANGED <<requestVars, connection, timer, inputVars>>

Accept(what) == verdict' = "accepted" /\ value' = what
RefuseInput == verdict' = "refused" /\ value' = <<>>

\* All bytes are there and nobody has read them.
Unread == outcome = "bytes" /\ verdict = "unread"

Import ==
  LET read == ParseImport(Received)
  IN  /\ kind = "import" /\ Unread
      /\ IF read.valid THEN Accept(read.secrets) ELSE RefuseInput
      /\ UNCHANGED <<vars, kind, source>>

VerifyPackage ==
  /\ kind = "package" /\ Unread
  /\ \E files \in source :
       IF VerifyArtifact(Received, files) THEN Accept(files) ELSE RefuseInput
  /\ UNCHANGED <<vars, kind, source>>

FileStep == ReadFile \/ Import \/ VerifyPackage

\* A file is read and imported, or checked.
Reading(what, text, from) == Given(what, text, from) /\ [][FileStep]_allVars

(***************************************************************************)
(* Properties                                                              *)
(***************************************************************************)
\* A file that export wrote as dotenv is imported as the secrets that were
\* exported, whatever quotes, escapes and newlines are in their values.
ImportReadsExport ==
  kind = "import" /\ verdict # "unread" =>
    \A exported \in source : verdict = "accepted" /\ value = exported

\* Whatever an import file says, its last assignment ends where it says: a line
\* that is appended is one more secret and changes none of the others.
LinesStaySeparate ==
  kind = "import" /\ verdict = "accepted" =>
    \A letter \in Letters :
      LET longer == ParseImport(body \o <<"\n", letter, "=", letter>>)
      IN  /\ longer.valid
          /\ Front(longer.secrets) = value
          /\ Last(longer.secrets).key = <<letter>> /\ Last(longer.secrets).value = <<letter>>

\* A package that is published has the files of the reviewed source, each once,
\* and no byte beside them that another program could unpack: no second file of a
\* name, nothing in the padding, nothing behind the trailer.
PackageHoldsOnlySource ==
  kind = "package" /\ verdict = "accepted" => IsPacked(body, value)
=============================================================================
