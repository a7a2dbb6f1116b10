--------------------------- MODULE PackageArchive ---------------------------
(***************************************************************************)
(* The check of the npm package by scripts/verify-release.mjs: parseTar    *)
(* takes the archive apart, verifyArtifact compares the files with the     *)
(* reviewed source.  npm and the users unpack the same bytes with another  *)
(* program.                                                                *)
(*                                                                         *)
(* The archive is a sequence of numbers.  A block has two of them; those   *)
(* of a header are the name of the file and its size.                      *)
(***************************************************************************)
EXTENDS Naturals, Sequences, SequencesExt, Functions

CONSTANTS
  Names,      \* the names of regular files under package/, in a header that is valid
  Lowercase   \* [Names -> Nat]: a name without its case

BlockSize == 2
ZeroFrom(bytes, first, last) == \A i \in first .. last : bytes[i] = 0
Blocks(size) == (size + BlockSize - 1) \div BlockSize

\* Mutant: the trailer may be followed by anything.
TrailerFound(bytes, offset) ==
  /\ offset + 2 * BlockSize <= Len(bytes)
  /\ ZeroFrom(bytes, offset + 1, offset + 2 * BlockSize)

\* At least two blocks of zeros, and nothing else to the end.
IsTrailer(bytes, offset) ==
  /\ offset + 2 * BlockSize <= Len(bytes)
  /\ ZeroFrom(bytes, offset + 1, Len(bytes))

\* Whether the header at an offset may stand after these entries, and its data,
\* padded to a block, is there.
IsEntry(bytes, offset, entries) ==
  LET name == bytes[offset + 1]
      size == bytes[offset + 2]
      data == offset + BlockSize
      padded == data + Blocks(size) * BlockSize
  IN  /\ name \in Names
      /\ \A file \in entries : file.name # name /\ Lowercase[file.name] # Lowercase[name]
      /\ padded <= Len(bytes)
      /\ ZeroFrom(bytes, data + size + 1, padded)

Start == [offset |-> 0, entries |-> {}, verdict |-> "open"]

\* One round of the loop: the trailer, one more entry, or an error.
Round(bytes, state) ==
  LET offset == state.offset
      name == bytes[offset + 1]
      size == bytes[offset + 2]
      data == offset + BlockSize
      entry == [name |-> name, data |-> SubSeq(bytes, data + 1, data + size)]
      Ends(how) == [state EXCEPT !.verdict = how]
  IN  CASE state.verdict # "open" -> state
        [] state.verdict = "open" /\ data > Len(bytes) -> Ends("invalid")
        [] state.verdict = "open" /\ data <= Len(bytes) /\ ZeroFrom(bytes, offset + 1, data) ->
             Ends(IF IsTrailer(bytes, offset) THEN "valid" ELSE "invalid")
        [] OTHER ->
             IF IsEntry(bytes, offset, state.entries)
             THEN [offset |-> data + Blocks(size) * BlockSize,
                   entries |-> state.entries \cup {entry}, verdict |-> "open"]
             ELSE Ends("invalid")

\* Each round but the last takes a block at least.
ParseTar(bytes) ==
  LET After[n \in Nat] == IF n = 0 THEN Start ELSE Round(bytes, After[n - 1])
  IN  After[Len(bytes) + 1]

\* The archive has the files of the source and no other, byte by byte.
VerifyArtifact(bytes, source) ==
  LET archive == ParseTar(bytes)
  IN  /\ archive.verdict = "valid"
      /\ {file.name : file \in archive.entries} = DOMAIN source
      /\ \A file \in archive.entries : file.data = source[file.name]

(***************************************************************************)
(* What another program unpacks, for comparison                            *)
(***************************************************************************)
Padding(size) == [i \in 1 .. Blocks(size) * BlockSize - size |-> 0]

\* These files one after another, with so many zeros behind.
Pack(files, zeros) ==
  FlattenSeq([i \in DOMAIN files |->
                <<files[i].name, Len(files[i].data)>> \o files[i].data
                \o Padding(Len(files[i].data))])
  \o [i \in 1 .. zeros |-> 0]

\* The bytes are an archive of the source and hide nothing: each file has its
\* place, every byte before the end belongs to one file, and from the end on
\* there are zeros.
IsPacked(bytes, source) ==
  \E at \in [DOMAIN source -> 0 .. Len(bytes)], end \in 0 .. Len(bytes) :
    LET Size(name) == Len(source[name])
        Data(name) == at[name] + BlockSize
        After(name) == Data(name) + Blocks(Size(name)) * BlockSize
    IN  /\ \A name \in DOMAIN source :
             /\ After(name) <= end
             /\ bytes[at[name] + 1] = name /\ bytes[at[name] + 2] = Size(name)
             /\ SubSeq(bytes, Data(name) + 1, Data(name) + Size(name)) = source[name]
             /\ ZeroFrom(bytes, Data(name) + Size(name) + 1, After(name))
        /\ \A i \in 1 .. end : \E name \in DOMAIN source :
             /\ i \in at[name] + 1 .. After(name)
             /\ \A other \in DOMAIN source \ {name} : i \notin at[other] + 1 .. After(other)
        /\ end + 2 * BlockSize <= Len(bytes)
        /\ ZeroFrom(bytes, end + 1, Len(bytes))
=============================================================================
