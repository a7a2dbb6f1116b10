------------------------------- MODULE Inputs -------------------------------
(***************************************************************************)
(* What comes into the SDK and its scripts from outside, from the first    *)
(* byte to the value: the files of module Files, signed documents that are *)
(* downloaded, and JSON that the CLI, the helper or a file holds.          *)
(***************************************************************************)
EXTENDS Files, StrictJSON

Readers == {"sdk", "verifier", "installer"}

ReadJSON ==
  LET read == CASE kind = "document" -> ReadEnvelope(Received)
                [] kind = "installer" -> InstallerReads(Received)
                [] kind = "sdk" -> SDKReads(Received)
                [] kind = "verifier" -> VerifierReads(Received)
  IN  /\ kind \in Readers \cup {"document"} /\ Unread
      /\ IF read = Failed THEN RefuseInput ELSE Accept(read.value)
      /\ UNCHANGED <<vars, kind, source>>

Next ==
  \/ Transfer /\ UNCHANGED inputVars
  \/ FileStep
  \/ ReadJSON

\* An input is taken in, from its first byte to what is read of it.
Taking(what, text, from) == Given(what, text, from) /\ [][Next]_allVars

(***************************************************************************)
(* Properties                                                              *)
(***************************************************************************)
\* A document whose connection ends early is no document: what is accepted of a
\* signed document is all of it, though a body that ends with its connection may
\* be cut anywhere (downloadBuffer has no length to compare in that case; it is
\* the reader that must refuse every proper prefix).
AcceptedDocumentIsWhole ==
  kind = "document" /\ verdict = "accepted" => Received = body /\ value \in source

Dialect ==
  CASE kind = "sdk" -> SDK
    [] kind = "verifier" -> Verifier
    [] kind = "installer" -> InstallerWrites

FollowsGrammar ==
  /\ verdict = "accepted" <=> IsText(Dialect, body)
  /\ verdict = "accepted" => Encode[value] = Said(body)

\* The value the bytes encode is read when the writer of the same side lets it be
\* written; what the installer reads, it may write again, and the SDK reads too.
AgreesWithWriters ==
  /\ kind = "sdk" =>
       \A written \in source : SDKAllows(written) <=> verdict = "accepted"
  /\ kind = "installer" /\ verdict = "accepted" =>
       /\ InstallerReads(CanonicalJSON(value)) # Failed
       /\ SDKReads(body).value = value

\* Each copy of the reader accepts exactly the texts of the grammar within its
\* limits and stops where the value stops: white space anywhere, no field twice
\* though it is spelled differently, no level too many, nothing behind.  What
\* assertJSONDepth lets the SDK write is what its reader takes, at the limit too,
\* and what the installer's reader takes validateJSONValue lets it write again.
ReadersFollowGrammar ==
  kind \in Readers /\ verdict # "unread" => FollowsGrammar /\ AgreesWithWriters
=============================================================================
