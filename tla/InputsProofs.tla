---------------------------- MODULE InputsProofs ----------------------------
(***************************************************************************)
(* What is read of an input, for inputs of any length: a download is       *)
(* whole, a package holds its source and nothing else, an import reads     *)
(* what an export wrote and keeps its lines apart; each copy of the JSON   *)
(* reader accepts the texts of its grammar and no other, reads the value   *)
(* that was written, and takes no part of a signed document for all of it. *)
(*                                                                         *)
(* The texts of the grammar, the texts that are read and the texts that    *)
(* are written meet in one relation: Spells says from where to where a     *)
(* text spells a value.                                                    *)
(***************************************************************************)
EXTENDS Inputs, DotEnvProofs

(***************************************************************************)
(* Downloads, for any limit, any expected size and any peer                *)
(***************************************************************************)
\* While the body comes, all of it is in memory and within the limits; nothing
\* is settled before the connection is over or ignored, and nothing happens to
\* what is settled.
IInv ==
  /\ TypeOK
  /\ Len(body) \in Nat
  /\ AcceptedBytesAreWhole
  /\ timer = "armed" <=> outcome = "open"
  /\ connection \in {"connecting", "body"} => outcome = "open"
  /\ connection \in {"over", "ignored"} => outcome # "open"
  /\ connection = "connecting" => total = 0 /\ kept = 0
  /\ connection = "body" =>
       /\ LengthIsValid
       /\ kept = total /\ total <= Maximum
       /\ expected # 0 => total <= expected
  /\ connection = "ignored" => kept = 0 /\ outcome # "bytes"

\* A request starts in the invariant.
LEMMA Initial ==
  ASSUME NEW S, NEW text \in Seq(S), Request(text)
  PROVE  IInv
BY DownloadAssumption DEF Request, IInv, TypeOK, AcceptedBytesAreWhole

\* Every step of the transfer keeps it, whatever the peer sends.
LEMMA Inductive ==
  ASSUME IInv, [Transfer]_vars
  PROVE  IInv'
<1> USE DownloadAssumption DEF IInv, TypeOK, requestVars
<1>1. CASE OnError
  BY <1>1 DEF OnError, Finish, AcceptedBytesAreWhole
<1>2. CASE OnStatus
  BY <1>2 DEF OnStatus, Finish, AcceptedBytesAreWhole
<1>3. CASE OnResponse
  BY <1>3 DEF OnResponse, Refuse, Finish, LengthIsValid, AcceptedBytesAreWhole
<1>4. CASE OnData
  BY <1>4 DEF OnData, Abort, Finish, LengthIsValid, AcceptedBytesAreWhole
<1>5. CASE OnAborted
  BY <1>5 DEF OnAborted, Abort, Finish, AcceptedBytesAreWhole
<1>6. CASE OnEnd
  BY <1>6 DEF OnEnd, Finish, Complete, LengthIsValid, AcceptedBytesAreWhole
<1>7. CASE OnDeadline
  BY <1>7 DEF OnDeadline, Abort, Finish, AcceptedBytesAreWhole
<1>8. CASE OnIdle
  BY <1>8 DEF OnIdle, Abort, Finish, AcceptedBytesAreWhole
<1>9. CASE IgnoredEnds
  BY <1>9 DEF IgnoredEnds, AcceptedBytesAreWhole
<1>10. CASE UNCHANGED vars
  BY <1>10 DEF vars, LengthIsValid, AcceptedBytesAreWhole
<1> QED
  BY <1>1, <1>2, <1>3, <1>4, <1>5, <1>6, <1>7, <1>8, <1>9, <1>10 DEF Transfer

\* Every accepted download is whole: however the peer frames the body and
\* wherever it stops, downloadBuffer resolves with all that was received, within
\* the limit and of the expected size, and with nothing otherwise.
THEOREM DownloadsAreWhole ==
  ASSUME NEW S, NEW text \in Seq(S)
  PROVE  Downloading(text) => []AcceptedBytesAreWhole
<1>1. Request(text) => IInv
  BY Initial
<1>2. IInv /\ [Transfer]_vars => IInv'
  BY Inductive
<1>3. IInv => AcceptedBytesAreWhole
  BY DEF IInv
<1> QED
  BY <1>1, <1>2, <1>3, PTL DEF Downloading

\* The variables of a download keep their types.
THEOREM TypeCorrect ==
  ASSUME NEW S, NEW text \in Seq(S)
  PROVE  Downloading(text) => []TypeOK
<1>1. Request(text) => IInv
  BY Initial
<1>2. IInv /\ [Transfer]_vars => IInv'
  BY Inductive
<1>3. IInv => TypeOK
  BY DEF IInv
<1> QED
  BY <1>1, <1>2, <1>3, PTL DEF Downloading

(***************************************************************************)
(* The archive: what parseTar knows after each round                       *)
(***************************************************************************)
States == [offset : Nat, entries : SUBSET [name : Names, data : Seq(Nat)],
           verdict : {"open", "valid", "invalid"}]

\* The states of parseTar, round after round.
After(bytes) == CHOOSE f : f = [n \in Nat |-> IF n = 0 THEN Start ELSE Round(bytes, f[n - 1])]

\* The entry of the header at an offset.
Entry(bytes, offset) ==
  [name |-> bytes[offset + 1],
   data |-> SubSeq(bytes, offset + BlockSize + 1, offset + BlockSize + bytes[offset + 2])]

\* The state after an entry.
Onward(bytes, state) ==
  [offset |-> state.offset + BlockSize + Blocks(bytes[state.offset + 2]) * BlockSize,
   entries |-> state.entries \cup {Entry(bytes, state.offset)}, verdict |-> "open"]

\* What a round of parseTar does: nothing more, a refusal, acceptance at a
\* trailer, or one entry.
LEMMA RoundCases ==
  ASSUME NEW bytes \in Seq(Nat), NEW state \in States
  PROVE  \/ state.verdict # "open" /\ Round(bytes, state) = state
         \/ /\ state.verdict = "open"
            /\ Round(bytes, state) = [state EXCEPT !.verdict = "invalid"]
         \/ /\ state.verdict = "open" /\ IsTrailer(bytes, state.offset)
            /\ Round(bytes, state) = [state EXCEPT !.verdict = "valid"]
         \/ /\ state.verdict = "open" /\ state.offset + BlockSize <= Len(bytes)
            /\ IsEntry(bytes, state.offset, state.entries)
            /\ Round(bytes, state) = Onward(bytes, state)
<1> DEFINE data == state.offset + BlockSize
           invalid == [state EXCEPT !.verdict = "invalid"]
<1>1. CASE state.verdict # "open"
  BY <1>1 DEF Round
<1>2. CASE state.verdict = "open" /\ data > Len(bytes)
  BY <1>2 DEF Round
<1>3. CASE /\ state.verdict = "open" /\ data <= Len(bytes) /\ ~(data > Len(bytes))
           /\ ZeroFrom(bytes, state.offset + 1, data)
  <2>1. Round(bytes, state) =
          [state EXCEPT !.verdict = IF IsTrailer(bytes, state.offset) THEN "valid" ELSE "invalid"]
    BY <1>3 DEF Round
  <2> QED BY <2>1, <1>3
<1>4. CASE /\ state.verdict = "open" /\ ~(data > Len(bytes)) /\ data <= Len(bytes)
           /\ ~ZeroFrom(bytes, state.offset + 1, data)
  <2>1. Round(bytes, state) = IF IsEntry(bytes, state.offset, state.entries)
                              THEN Onward(bytes, state) ELSE invalid
    BY <1>4 DEF Round, Onward, Entry
  <2> QED BY <2>1, <1>4
<1>5. data > Len(bytes) <=> ~(data <= Len(bytes))
  BY DEF States, BlockSize
<1> QED BY <1>1, <1>2, <1>3, <1>4, <1>5

\* The padded blocks of a file hold its bytes.
LEMMA BlocksHold ==
  ASSUME NEW size \in Nat
  PROVE  Blocks(size) \in Nat /\ size <= Blocks(size) * BlockSize
BY DEF Blocks, BlockSize

\* An entry lies in the archive, with its name and as many bytes as its header
\* says.
LEMMA EntryType ==
  ASSUME NEW bytes \in Seq(Nat), NEW state \in States,
         state.offset + BlockSize <= Len(bytes), IsEntry(bytes, state.offset, state.entries)
  PROVE  /\ bytes[state.offset + 1] \in Names /\ bytes[state.offset + 2] \in Nat
         /\ Entry(bytes, state.offset).name = bytes[state.offset + 1]
         /\ Entry(bytes, state.offset).data \in Seq(Nat)
         /\ Len(Entry(bytes, state.offset).data) = bytes[state.offset + 2]
         /\ Entry(bytes, state.offset) \in [name : Names, data : Seq(Nat)]
         /\ Onward(bytes, state).offset \in Nat
         /\ Onward(bytes, state).offset <= Len(bytes)
         /\ state.offset + BlockSize + bytes[state.offset + 2] <= Onward(bytes, state).offset
<1> DEFINE offset == state.offset
           size == bytes[offset + 2]
<1>0. offset \in Nat /\ Len(bytes) \in Nat
  BY DEF States
<1>1. bytes[offset + 1] \in Names
  BY DEF IsEntry
<1>2. size \in Nat
  BY <1>0 DEF BlockSize
<1>3. Blocks(size) \in Nat /\ size <= Blocks(size) * BlockSize
  BY <1>2, BlocksHold
<1>4. offset + BlockSize + Blocks(size) * BlockSize <= Len(bytes)
  BY DEF IsEntry
<1>5. offset + BlockSize + size <= Len(bytes)
  BY <1>0, <1>2, <1>3, <1>4 DEF BlockSize
<1>6. /\ SubSeq(bytes, offset + BlockSize + 1, offset + BlockSize + size) \in Seq(Nat)
      /\ Len(SubSeq(bytes, offset + BlockSize + 1, offset + BlockSize + size)) = size
  <2> DEFINE m == offset + BlockSize + 1
             n == offset + BlockSize + size
  <2>1. m \in Int /\ n \in Int /\ 1 <= m /\ n <= Len(bytes) /\ n = m - 1 + size
    <3> HIDE DEF size
    <3> QED BY <1>0, <1>2, <1>5 DEF BlockSize
  <2> HIDE DEF m, n
  <2>2. m \in 1 .. Len(bytes) + 1 /\ n \in m - 1 .. Len(bytes)
    BY <2>1, <1>2, <1>0
  <2>3. SubSeq(bytes, m, n) \in Seq(Nat) /\ Len(SubSeq(bytes, m, n)) = IF m <= n THEN n - m + 1 ELSE 0
    BY <2>2, SubSeqProperties
  <2>4. Len(SubSeq(bytes, m, n)) = size
    BY <2>3, <2>1, <1>2
  <2> QED BY <2>3, <2>4 DEF m, n
<1>7. /\ Entry(bytes, offset).name = bytes[offset + 1]
      /\ Entry(bytes, offset).data = SubSeq(bytes, offset + BlockSize + 1, offset + BlockSize + size)
      /\ Entry(bytes, offset) = [name |-> bytes[offset + 1],
              data |-> SubSeq(bytes, offset + BlockSize + 1, offset + BlockSize + size)]
  BY DEF Entry
<1>8. Entry(bytes, offset) \in [name : Names, data : Seq(Nat)]
  BY <1>1, <1>6, <1>7
<1>9. Onward(bytes, state).offset = offset + BlockSize + Blocks(size) * BlockSize
  BY DEF Onward
<1>10. /\ Onward(bytes, state).offset \in Nat
       /\ Onward(bytes, state).offset <= Len(bytes)
       /\ offset + BlockSize + size <= Onward(bytes, state).offset
  BY SMTT(40), <1>0, <1>2, <1>3, <1>4, <1>9 DEF BlockSize
<1> HIDE DEF offset, size
<1> QED BY <1>1, <1>2, <1>6, <1>7, <1>8, <1>10 DEF offset, size

\* A round keeps the shape of its state.
LEMMA RoundKeepsType ==
  ASSUME NEW bytes \in Seq(Nat), NEW state \in States
  PROVE  Round(bytes, state) \in States
<1>1. ASSUME NEW how \in {"valid", "invalid"}
      PROVE  [state EXCEPT !.verdict = how] \in States
  BY DEF States
<1>2. ASSUME state.offset + BlockSize <= Len(bytes), IsEntry(bytes, state.offset, state.entries)
      PROVE  Onward(bytes, state) \in States
  <2>1. Onward(bytes, state).offset \in Nat /\ Entry(bytes, state.offset) \in [name : Names, data : Seq(Nat)]
    BY <1>2, EntryType
  <2>2. state.entries \in SUBSET [name : Names, data : Seq(Nat)]
    BY DEF States
  <2> QED BY <2>1, <2>2 DEF Onward, States
<1> QED BY RoundCases, <1>1, <1>2

\* The states of parseTar, one after the other.
LEMMA AfterRounds ==
  ASSUME NEW bytes \in Seq(Nat)
  PROVE  /\ \A n \in Nat : After(bytes)[n] \in States
         /\ After(bytes)[0] = Start
         /\ \A n \in Nat : After(bytes)[n + 1] = Round(bytes, After(bytes)[n])
<1> DEFINE round == [state \in States |-> Round(bytes, state)]
<1>1. Start \in States
  BY DEF Start, States
<1>2. round \in [States -> States]
  BY RoundKeepsType
<1> HIDE DEF States
<1>3. PICK f \in [Nat -> States] : IsLoop(f, Start, round)
  <2> HIDE DEF round
  <2> QED BY <1>1, <1>2, LoopExists
<1>4. f[0] = Start /\ \A n \in Nat : f[n + 1] = Round(bytes, f[n])
  BY <1>3 DEF IsLoop
<1>5. f = [n \in Nat |-> IF n = 0 THEN Start ELSE Round(bytes, f[n - 1])]
  <2>1. \A n \in Nat : f[n] = IF n = 0 THEN Start ELSE Round(bytes, f[n - 1])
    <3> TAKE n \in Nat
    <3>1. CASE n = 0
      BY <3>1, <1>4
    <3>2. CASE n # 0
      <4>1. n - 1 \in Nat /\ (n - 1) + 1 = n
        BY <3>2
      <4> QED BY <4>1, <1>4, <3>2
    <3> QED BY <3>1, <3>2
  <2> QED BY <2>1, <1>3
<1>6. After(bytes) = [n \in Nat |-> IF n = 0 THEN Start ELSE Round(bytes, After(bytes)[n - 1])]
  BY <1>5 DEF After
<1>7. After(bytes)[0] = Start /\ \A n \in Nat : After(bytes)[n + 1] = Round(bytes, After(bytes)[n])
  <2>1. \A n \in Nat : n + 1 \in Nat /\ n + 1 # 0 /\ (n + 1) - 1 = n
    OBVIOUS
  <2> QED BY <1>6, <2>1
<1>8. \A n \in Nat : After(bytes)[n] \in States
  <2> DEFINE S == {n \in Nat : After(bytes)[n] \in States}
  <2>1. 0 \in S
    BY <1>1, <1>7
  <2>2. \A n \in Nat : n \in S => n + 1 \in S
    <3> TAKE n \in Nat
    <3>1. After(bytes)[n] \in States => After(bytes)[n + 1] \in States
      BY <1>7, RoundKeepsType
    <3> QED BY <3>1
  <2>3. \A n \in Nat : n \in S
    <3> HIDE DEF S
    <3> QED BY <2>1, <2>2, Induction
  <2> QED BY <2>3
<1> QED BY <1>7, <1>8

\* parseTar has more rounds than the archive has bytes.
LEMMA ParseTarIsLoop ==
  ASSUME NEW bytes
  PROVE  ParseTar(bytes) = After(bytes)[Len(bytes) + 1]
BY DEF ParseTar, After

(***************************************************************************)
(* Every byte before the offset belongs to one entry                       *)
(***************************************************************************)
\* Where the entry of a file ends that starts at a place.
Behind(place, file) == place + BlockSize + Blocks(Len(file.data)) * BlockSize

\* The entry of a file stands at a place.
StandsAt(bytes, file, place, end) ==
  /\ place \in Nat
  /\ Behind(place, file) <= end
  /\ bytes[place + 1] = file.name /\ bytes[place + 2] = Len(file.data)
  /\ SubSeq(bytes, place + BlockSize + 1, place + BlockSize + Len(file.data)) = file.data
  /\ ZeroFrom(bytes, place + BlockSize + Len(file.data) + 1, Behind(place, file))

\* The names that have been taken.
NamesOf(entries) == {file.name : file \in entries}

\* The entries stand side by side and leave no byte between them.
Tiled(bytes, state, at) ==
  /\ at \in [NamesOf(state.entries) -> Nat]
  /\ \A file \in state.entries : StandsAt(bytes, file, at[file.name], state.offset)
  /\ \A file, other \in state.entries :
       file # other =>
         /\ file.name # other.name
         /\ \/ Behind(at[file.name], file) <= at[other.name]
            \/ Behind(at[other.name], other) <= at[file.name]
  /\ \A i \in 1 .. state.offset :
       \E file \in state.entries : i \in at[file.name] + 1 .. Behind(at[file.name], file)

\* What parseTar knows after each round.
Sound(bytes, state) ==
  /\ state.offset <= Len(bytes)
  /\ \E at : Tiled(bytes, state, at)
  /\ state.verdict = "valid" => IsTrailer(bytes, state.offset)

\* The bytes of an entry lie before its end.
LEMMA BehindType ==
  ASSUME NEW place \in Nat, NEW file \in [name : Names, data : Seq(Nat)]
  PROVE  /\ Behind(place, file) \in Nat
         /\ Len(file.data) \in Nat
         /\ place + BlockSize + Len(file.data) <= Behind(place, file)
<1>1. Len(file.data) \in Nat
  OBVIOUS
<1>2. Blocks(Len(file.data)) \in Nat /\ Len(file.data) <= Blocks(Len(file.data)) * BlockSize
  BY <1>1, BlocksHold
<1> DEFINE size == Len(file.data)
           blocks == Blocks(size)
<1> HIDE DEF size, blocks
<1>3. size \in Nat /\ blocks \in Nat /\ size <= blocks * BlockSize
  BY <1>1, <1>2 DEF size, blocks
<1>4. place + BlockSize + blocks * BlockSize \in Nat /\ place + BlockSize + size <= place + BlockSize + blocks * BlockSize
  BY <1>3 DEF BlockSize
<1> QED BY <1>3, <1>4 DEF size, blocks, Behind

\* A round that takes an entry leaves every byte read in exactly one entry.
LEMMA OneMoreEntry ==
  ASSUME NEW bytes \in Seq(Nat), NEW state \in States, NEW at, Tiled(bytes, state, at),
         state.offset + BlockSize <= Len(bytes), IsEntry(bytes, state.offset, state.entries)
  PROVE  \E to : Tiled(bytes, Onward(bytes, state), to)
<1> DEFINE offset == state.offset
           entry == Entry(bytes, offset)
           after == Onward(bytes, state)
           to == [name \in NamesOf(after.entries) |-> IF name = entry.name THEN offset ELSE at[name]]
<1>1. /\ offset \in Nat
      /\ entry \in [name : Names, data : Seq(Nat)]
      /\ state.entries \subseteq [name : Names, data : Seq(Nat)]
      /\ entry.name = bytes[offset + 1] /\ Len(entry.data) = bytes[offset + 2]
  BY EntryType DEF States
<1>2. /\ after.entries = state.entries \cup {entry}
      /\ after.offset = Behind(offset, entry)
      /\ after.offset \in Nat /\ offset <= after.offset
  <2>1. after.entries = state.entries \cup {entry}
        /\ after.offset = offset + BlockSize + Blocks(bytes[offset + 2]) * BlockSize
    BY DEF Onward
  <2>2. after.offset = Behind(offset, entry)
    BY <2>1, <1>1 DEF Behind
  <2>3. Behind(offset, entry) \in Nat /\ Len(entry.data) \in Nat
        /\ offset + BlockSize + Len(entry.data) <= Behind(offset, entry)
    BY <1>1, BehindType
  <2> HIDE DEF offset, entry, after
  <2>4. offset <= Behind(offset, entry)
    BY <2>3, <1>1 DEF BlockSize
  <2> QED BY <2>1, <2>2, <2>3, <2>4
<1>3. \A file \in state.entries : file.name # entry.name
  <2>1. \A file \in state.entries : file.name # bytes[offset + 1]
    BY DEF IsEntry
  <2> QED BY <2>1, <1>1
<1>4. StandsAt(bytes, entry, offset, after.offset)
  <2>1. ZeroFrom(bytes, offset + BlockSize + bytes[offset + 2] + 1,
                 offset + BlockSize + Blocks(bytes[offset + 2]) * BlockSize)
    BY DEF IsEntry
  <2>2. entry.data = SubSeq(bytes, offset + BlockSize + 1, offset + BlockSize + bytes[offset + 2])
    BY DEF Entry
  <2> HIDE DEF offset, entry, after
  <2>3. ZeroFrom(bytes, offset + BlockSize + Len(entry.data) + 1, Behind(offset, entry))
    BY <2>1, <1>1 DEF Behind
  <2>4. SubSeq(bytes, offset + BlockSize + 1, offset + BlockSize + Len(entry.data)) = entry.data
    BY <2>2, <1>1
  <2>5. Behind(offset, entry) <= after.offset
    BY <1>2
  <2> QED BY <2>3, <2>4, <2>5, <1>1 DEF StandsAt
<1> HIDE DEF offset, entry, after
<1>5. /\ to[entry.name] = offset
      /\ \A file \in state.entries : to[file.name] = at[file.name]
      /\ \A file \in state.entries : at[file.name] \in Nat
      /\ to \in [NamesOf(after.entries) -> Nat]
  <2>1. entry.name \in NamesOf(after.entries) /\ \A file \in state.entries : file.name \in NamesOf(after.entries)
    BY <1>2 DEF NamesOf
  <2>2. \A file \in state.entries : at[file.name] \in Nat
    BY DEF Tiled, StandsAt
  <2>3. \A name \in NamesOf(after.entries) : name # entry.name => at[name] \in Nat
    BY <1>2, <2>2 DEF NamesOf
  <2> QED BY <2>1, <2>2, <2>3, <1>1, <1>3
<1> HIDE DEF to
<1>6. \A file \in after.entries : StandsAt(bytes, file, to[file.name], after.offset)
  <2> SUFFICES ASSUME NEW file \in state.entries
               PROVE  StandsAt(bytes, file, at[file.name], after.offset)
    BY <1>2, <1>4, <1>5
  <2>1. StandsAt(bytes, file, at[file.name], offset)
    BY DEF Tiled, offset
  <2>2. Behind(at[file.name], file) \in Nat
    BY <1>1, <1>5, BehindType
  <2>3. Behind(at[file.name], file) <= after.offset
    BY <2>1, <2>2, <1>1, <1>2 DEF StandsAt
  <2> QED BY <2>1, <2>3 DEF StandsAt
<1>7. ASSUME NEW file \in after.entries, NEW other \in after.entries, file # other
      PROVE  /\ file.name # other.name
             /\ \/ Behind(to[file.name], file) <= to[other.name]
                \/ Behind(to[other.name], other) <= to[file.name]
  <2>1. \A f \in state.entries : Behind(at[f.name], f) <= offset
    BY DEF Tiled, StandsAt, offset
  <2>2. CASE file \in state.entries /\ other \in state.entries
    BY <2>2, <1>5, <1>7 DEF Tiled
  <2>3. CASE file = entry \/ other = entry
    BY <2>1, <2>3, <1>2, <1>3, <1>5, <1>7
  <2> QED BY <2>2, <2>3, <1>2
<1>8. ASSUME NEW i \in 1 .. after.offset
      PROVE  \E file \in after.entries : i \in to[file.name] + 1 .. Behind(to[file.name], file)
  <2>1. CASE i <= offset
    <3>1. i \in 1 .. offset
      BY <2>1, <1>1
    <3>2. PICK file \in state.entries : i \in at[file.name] + 1 .. Behind(at[file.name], file)
      BY <3>1 DEF Tiled, offset
    <3> QED BY <3>2, <1>2, <1>5
  <2>2. CASE offset < i
    <3>1. i \in offset + 1 .. Behind(offset, entry)
      BY <2>2, <1>1, <1>2
    <3> QED BY <3>1, <1>2, <1>5
  <2> QED BY <2>1, <2>2, <1>1, <1>2
<1> QED BY <1>5, <1>6, <1>7, <1>8 DEF Tiled, after

\* A round keeps what is known of the bytes read and of the verdict.
LEMMA RoundIsSound ==
  ASSUME NEW bytes \in Seq(Nat), NEW state \in States, Sound(bytes, state)
  PROVE  Sound(bytes, Round(bytes, state))
<1>1. CASE state.verdict # "open" /\ Round(bytes, state) = state
  BY <1>1
<1>2. ASSUME NEW how \in {"valid", "invalid"}, how = "valid" => IsTrailer(bytes, state.offset),
             Round(bytes, state) = [state EXCEPT !.verdict = how]
      PROVE  Sound(bytes, Round(bytes, state))
  <2>1. /\ Round(bytes, state).offset = state.offset
        /\ Round(bytes, state).entries = state.entries
        /\ Round(bytes, state).verdict = how
    BY <1>2 DEF States
  <2> QED BY <2>1, <1>2 DEF Sound, Tiled
<1>3. CASE /\ state.offset + BlockSize <= Len(bytes)
           /\ IsEntry(bytes, state.offset, state.entries)
           /\ Round(bytes, state) = Onward(bytes, state)
  <2>1. Onward(bytes, state).offset <= Len(bytes)
    BY <1>3, EntryType
  <2>2. \E to : Tiled(bytes, Onward(bytes, state), to)
    BY <1>3, OneMoreEntry DEF Sound
  <2>3. Onward(bytes, state).verdict = "open"
    BY DEF Onward
  <2> QED BY <1>3, <2>1, <2>2, <2>3 DEF Sound
<1> QED BY <1>1, <1>2, <1>3, RoundCases

\* What parseTar returns, it has read byte by byte.
LEMMA ParseTarIsSound ==
  ASSUME NEW bytes \in Seq(Nat)
  PROVE  ParseTar(bytes) \in States /\ Sound(bytes, ParseTar(bytes))
<1> DEFINE S == {n \in Nat : Sound(bytes, After(bytes)[n])}
<1>1. 0 \in S
  <2>1. Tiled(bytes, Start, [name \in NamesOf(Start.entries) |-> 0])
    BY DEF Tiled, Start, NamesOf
  <2>2. Start.offset = 0 /\ Start.verdict = "open"
    BY DEF Start
  <2>3. Sound(bytes, Start)
    BY <2>1, <2>2 DEF Sound
  <2> QED BY <2>3, AfterRounds
<1>2. \A n \in Nat : n \in S => n + 1 \in S
  <2> TAKE n \in Nat
  <2>1. After(bytes)[n] \in States /\ After(bytes)[n + 1] = Round(bytes, After(bytes)[n])
    BY AfterRounds
  <2>2. Sound(bytes, After(bytes)[n]) => Sound(bytes, After(bytes)[n + 1])
    BY <2>1, RoundIsSound
  <2> QED BY <2>2
<1>3. \A n \in Nat : n \in S
  <2> HIDE DEF S
  <2> QED BY <1>1, <1>2, Induction
<1>4. Len(bytes) + 1 \in Nat
  OBVIOUS
<1> QED BY <1>3, <1>4, AfterRounds, ParseTarIsLoop

\* An artifact that verifyArtifact accepts is an archive of the source and hides
\* nothing.
THEOREM VerifiedIsPacked ==
  ASSUME NEW bytes \in Seq(Nat), NEW reviewed, VerifyArtifact(bytes, reviewed)
  PROVE  IsPacked(bytes, reviewed)
<1> DEFINE state == ParseTar(bytes)
           end == state.offset
<1>1. /\ state \in States /\ Sound(bytes, state) /\ state.verdict = "valid"
      /\ NamesOf(state.entries) = DOMAIN reviewed
      /\ \A file \in state.entries : file.data = reviewed[file.name]
  BY ParseTarIsSound DEF VerifyArtifact, NamesOf
<1> HIDE DEF state
<1>2. PICK at : Tiled(bytes, state, at)
  BY <1>1 DEF Sound
<1>3. end \in Nat /\ Len(bytes) \in Nat /\ end <= Len(bytes)
  BY <1>1 DEF Sound, States
<1>4. /\ end + 2 * BlockSize <= Len(bytes)
      /\ ZeroFrom(bytes, end + 1, Len(bytes))
  BY <1>1 DEF Sound, IsTrailer
<1> DEFINE Data(name) == at[name] + BlockSize
           Beyond(name) == Data(name) + Blocks(Len(reviewed[name])) * BlockSize
<1>5. ASSUME NEW file \in state.entries
      PROVE  /\ file.name \in DOMAIN reviewed /\ file.data = reviewed[file.name]
             /\ at[file.name] \in Nat
             /\ Behind(at[file.name], file) = Beyond(file.name)
             /\ Beyond(file.name) \in Nat /\ at[file.name] <= Beyond(file.name) /\ Beyond(file.name) <= end
             /\ bytes[at[file.name] + 1] = file.name
             /\ bytes[at[file.name] + 2] = Len(reviewed[file.name])
             /\ SubSeq(bytes, Data(file.name) + 1, Data(file.name) + Len(reviewed[file.name])) = reviewed[file.name]
             /\ ZeroFrom(bytes, Data(file.name) + Len(reviewed[file.name]) + 1, Beyond(file.name))
  <2>1. file.name \in DOMAIN reviewed /\ file.data = reviewed[file.name]
    BY <1>1 DEF NamesOf
  <2>2. StandsAt(bytes, file, at[file.name], end)
    BY <1>2 DEF Tiled
  <2>3. file \in [name : Names, data : Seq(Nat)]
    BY <1>1 DEF States
  <2>4. Behind(at[file.name], file) = Beyond(file.name)
    BY <2>1 DEF Behind
  <2>5. Behind(at[file.name], file) \in Nat /\ at[file.name] \in Nat /\ Len(file.data) \in Nat
        /\ at[file.name] + BlockSize + Len(file.data) <= Behind(at[file.name], file)
    BY <2>2, <2>3, BehindType DEF StandsAt
  <2>6. at[file.name] <= Behind(at[file.name], file)
    BY <2>5 DEF BlockSize
  <2> HIDE DEF Beyond, end
  <2> QED BY <2>1, <2>2, <2>4, <2>5, <2>6 DEF StandsAt
<1>6. at \in [DOMAIN reviewed -> 0 .. Len(bytes)]
  <2>1. at \in [DOMAIN reviewed -> Nat]
    BY <1>1, <1>2 DEF Tiled
  <2>2. \A name \in DOMAIN reviewed : \E file \in state.entries : file.name = name
    BY <1>1 DEF NamesOf
  <2> HIDE DEF Beyond, end, Data
  <2>3. ASSUME NEW name \in DOMAIN reviewed PROVE at[name] \in 0 .. Len(bytes)
    <3>1. PICK file \in state.entries : file.name = name
      BY <2>2
    <3>2. /\ at[file.name] \in Nat /\ Beyond(file.name) \in Nat
          /\ at[file.name] <= Beyond(file.name) /\ Beyond(file.name) <= end
      BY <1>5
    <3> QED BY <3>1, <3>2, <1>3
  <2> QED BY <2>1, <2>3
<1>7. \A name \in DOMAIN reviewed :
        /\ Beyond(name) <= end
        /\ bytes[at[name] + 1] = name /\ bytes[at[name] + 2] = Len(reviewed[name])
        /\ SubSeq(bytes, Data(name) + 1, Data(name) + Len(reviewed[name])) = reviewed[name]
        /\ ZeroFrom(bytes, Data(name) + Len(reviewed[name]) + 1, Beyond(name))
  <2> TAKE name \in DOMAIN reviewed
  <2>1. PICK file \in state.entries : file.name = name
    BY <1>1 DEF NamesOf
  <2>2. /\ Beyond(file.name) <= end
        /\ bytes[at[file.name] + 1] = file.name
        /\ bytes[at[file.name] + 2] = Len(reviewed[file.name])
        /\ SubSeq(bytes, Data(file.name) + 1, Data(file.name) + Len(reviewed[file.name])) = reviewed[file.name]
        /\ ZeroFrom(bytes, Data(file.name) + Len(reviewed[file.name]) + 1, Beyond(file.name))
    BY <1>5
  <2> HIDE DEF Beyond, end, Data
  <2> QED BY <2>1, <2>2
<1>8. \A i \in 1 .. end : \E name \in DOMAIN reviewed :
        /\ i \in at[name] + 1 .. Beyond(name)
        /\ \A other \in DOMAIN reviewed \ {name} : i \notin at[other] + 1 .. Beyond(other)
  <2> SUFFICES ASSUME NEW i \in 1 .. end
               PROVE  \E name \in DOMAIN reviewed :
                        /\ i \in at[name] + 1 .. Beyond(name)
                        /\ \A other \in DOMAIN reviewed \ {name} : i \notin at[other] + 1 .. Beyond(other)
    OBVIOUS
  <2>1. PICK file \in state.entries : i \in at[file.name] + 1 .. Behind(at[file.name], file)
    BY <1>2 DEF Tiled
  <2>2. ASSUME NEW other \in DOMAIN reviewed \ {file.name}
        PROVE  i \notin at[other] + 1 .. Beyond(other)
    <3>1. PICK g \in state.entries : g.name = other
      BY <1>1 DEF NamesOf
    <3>2. g # file
      BY <3>1
    <3>3. Behind(at[g.name], g) <= at[file.name] \/ Behind(at[file.name], file) <= at[g.name]
      BY <3>2, <1>2 DEF Tiled
    <3> HIDE DEF Beyond, end
    <3>4. /\ Behind(at[g.name], g) = Beyond(g.name) /\ Beyond(g.name) \in Nat /\ at[g.name] \in Nat
          /\ Behind(at[file.name], file) = Beyond(file.name) /\ Beyond(file.name) \in Nat /\ at[file.name] \in Nat
      BY <1>5
    <3> QED BY <2>1, <3>1, <3>3, <3>4
  <2> HIDE DEF Beyond, end
  <2>3. i \in at[file.name] + 1 .. Beyond(file.name) /\ file.name \in DOMAIN reviewed
    BY <2>1, <1>5
  <2> QED BY <2>2, <2>3
<1>9. end \in 0 .. Len(bytes)
  BY <1>3
<1> HIDE DEF end
<1> QED BY <1>4, <1>6, <1>7, <1>8, <1>9 DEF IsPacked

(***************************************************************************)
(* Files, from the first byte to the value                                 *)
(***************************************************************************)
\* What is known of a file at every step: nothing is read before all of it is
\* there, and the verdict is that of the reader on all of its bytes.
FileInv(what, text, from) ==
  /\ kind = what /\ source = from /\ body = text
  /\ outcome = "bytes" => total = Len(text) /\ kept = total
  /\ verdict # "unread" => outcome = "bytes"
  /\ what = "import" /\ verdict # "unread" =>
       IF ParseImport(text).valid
       THEN verdict = "accepted" /\ value = ParseImport(text).secrets ELSE verdict = "refused"
  /\ what = "package" /\ verdict = "accepted" => value \in from /\ VerifyArtifact(text, value)

\* The invariant holds of a file before it is read.
LEMMA FileGiven ==
  ASSUME NEW what, what # "document", NEW text, NEW from, Given(what, text, from)
  PROVE  FileInv(what, text, from)
BY DEF Given, FileInv

\* Reading a file, step by step, keeps it.
LEMMA FileKept ==
  ASSUME NEW what, what # "document", NEW S, NEW text \in Seq(S), NEW from,
         FileInv(what, text, from), [FileStep]_allVars
  PROVE  FileInv(what, text, from)'
<1> USE DEF FileInv
<1>1. CASE ReadFile
  BY <1>1 DEF ReadFile, requestVars, inputVars
<1>2. ASSUME outcome = "bytes" PROVE Received = text
  <2>1. Received = SubSeq(text, 1, Len(text))
    BY <1>2 DEF Received
  <2>2. SubSeq(text, 1, Len(text)) = text
    OBVIOUS
  <2> QED BY <2>1, <2>2
<1>3. CASE Import
  <2>1. Received = text /\ what = "import" /\ outcome = "bytes" /\ UNCHANGED <<vars, kind, source>>
    BY <1>2, <1>3 DEF Import, Unread
  <2>2. CASE ParseImport(text).valid
    <3>1. verdict' = "accepted" /\ value' = ParseImport(text).secrets
      BY <1>3, <2>1, <2>2 DEF Import, Accept
    <3> QED BY <2>1, <2>2, <3>1 DEF vars, requestVars
  <2>3. CASE ~ParseImport(text).valid
    <3>1. verdict' = "refused"
      BY <1>3, <2>1, <2>3 DEF Import, RefuseInput
    <3> QED BY <2>1, <2>3, <3>1 DEF vars, requestVars
  <2> QED BY <2>2, <2>3
<1>4. CASE VerifyPackage
  <2>1. Received = text /\ what = "package" /\ outcome = "bytes" /\ UNCHANGED <<vars, kind, source>>
    BY <1>2, <1>4 DEF VerifyPackage, Unread
  <2>2. PICK files \in source :
          IF VerifyArtifact(text, files) THEN Accept(files) ELSE RefuseInput
    BY <1>4, <2>1 DEF VerifyPackage
  <2>3. verdict' = "accepted" => value' \in from /\ VerifyArtifact(text, value')
    BY <2>2 DEF Accept, RefuseInput
  <2> QED BY <2>1, <2>3 DEF vars, requestVars
<1>5. CASE UNCHANGED allVars
  BY <1>5 DEF allVars, vars, requestVars, inputVars
<1> QED BY <1>1, <1>3, <1>4, <1>5 DEF FileStep

\* A file that export wrote is imported as the secrets that were exported: any
\* number of them, with values of any length over any characters.
THEOREM ExportsAreImported ==
  ASSUME NEW C, NEW secrets \in Seq(Exported(C))
  PROVE  Reading("import", FormatSecrets(secrets), {secrets}) => []ImportReadsExport
<1> DEFINE text == FormatSecrets(secrets)
           from == {secrets}
<1>1. text \in Seq(Lines(C))
  BY FormatType
<1>2. ParseImport(text).valid /\ ParseImport(text).secrets = secrets
  BY ImportOfExport
<1>3. FileInv("import", text, from) => ImportReadsExport
  <2> HIDE DEF text
  <2> QED BY <1>2 DEF FileInv, ImportReadsExport
<1> HIDE DEF text, from
<1>4. Given("import", text, from) => FileInv("import", text, from)
  BY FileGiven
<1>5. FileInv("import", text, from) /\ [FileStep]_allVars => FileInv("import", text, from)'
  BY <1>1, FileKept
<1>6. Reading("import", text, from) => []ImportReadsExport
  BY <1>3, <1>4, <1>5, PTL DEF Reading
<1> QED BY <1>6 DEF text, from

\* An import that accepts a file accepts it with one line more, and reads from it
\* what it read before and the secret of that line.
THEOREM AppendedLinesStaySeparate ==
  ASSUME NEW S, NEW text \in Seq(S), NEW from
  PROVE  Reading("import", text, from) => []LinesStaySeparate
<1> DEFINE T == S \cup Letters \cup {"\n", "="}
<1>1. text \in Seq(T) /\ "\n" \in T /\ "=" \in T /\ \A l \in Letters : l \in T
  OBVIOUS
<1> HIDE DEF T
<1>2. ASSUME NEW l \in Letters, ParseImport(text).valid
      PROVE  LET longer == ParseImport(text \o <<"\n", l, "=", l>>)
             IN  /\ longer.valid
                 /\ Front(longer.secrets) = ParseImport(text).secrets
                 /\ Last(longer.secrets).key = <<l>> /\ Last(longer.secrets).value = <<l>>
  <2> DEFINE longer == ParseImport(text \o <<"\n", l, "=", l>>)
             old == ParseImport(text).secrets
  <2>1. <<"\n", l, "=", l>> = <<"\n">> \o Plain(l)
    <3> DEFINE a == <<"\n", l, "=", l>>
               n == <<"\n">>
               p == Plain(l)
    <3>1. l \in T
      BY <1>1
    <3>2. a \in Seq(T) /\ Len(a) = 4 /\ a[1] = "\n" /\ a[2] = l /\ a[3] = "=" /\ a[4] = l
      BY <1>1, <3>1
    <3>3. n \in Seq(T) /\ Len(n) = 1 /\ n[1] = "\n"
      BY <1>1
    <3>4. p \in Seq(T) /\ Len(p) = 3 /\ p[1] = l /\ p[2] = "=" /\ p[3] = l
      BY <1>1, <3>1 DEF Plain
    <3> HIDE DEF a, n, p
    <3>5. /\ n \o p \in Seq(T) /\ Len(n \o p) = Len(n) + Len(p)
          /\ \A i \in 1 .. Len(n) : (n \o p)[i] = n[i]
          /\ \A i \in 1 .. Len(p) : (n \o p)[Len(n) + i] = p[i]
      <4>1. n \in Seq(T)
        BY <3>3
      <4>2. p \in Seq(T)
        BY <3>4
      <4> QED BY <4>1, <4>2, ConcatIs
    <3>6. Len(n \o p) = 4 /\ (n \o p)[1] = "\n" /\ (n \o p)[2] = l /\ (n \o p)[3] = "=" /\ (n \o p)[4] = l
      BY <3>3, <3>4, <3>5
    <3>7. \A i \in 1 .. 4 : a[i] = (n \o p)[i]
      BY <3>2, <3>6
    <3>8. a = n \o p
      BY <3>2, <3>5, <3>6, <3>7, SameSeq
    <3> QED BY <3>8 DEF a, n, p
  <2>2. PICK e \in Seq(T) :
          /\ longer.valid = TRUE
          /\ longer.secrets = Append(old, [key |-> <<l>>, value |-> <<l>>, environment |-> e])
    <3>1. l \in T \cap Letters
      BY <1>1
    <3> QED BY ZenonT(60), <2>1, <3>1, <1>1, <1>2, AppendedLine
  <2>3. old \in Seq(Secret(T))
    BY <1>1, ImportType
  <2> HIDE DEF longer, old
  <2> DEFINE x == [key |-> <<l>>, value |-> <<l>>, environment |-> e]
  <2>4. x.key = <<l>> /\ x.value = <<l>>
    OBVIOUS
  <2> DEFINE U == Secret(T) \cup {x}
  <2>5. old \in Seq(U) /\ x \in U
    BY <2>3
  <2>6. longer.secrets = Append(old, x)
    BY <2>2
  <2> HIDE DEF x, U
  <2>7. Front(Append(old, x)) = old /\ Last(Append(old, x)) = x
    BY <2>5, FrontOfAppend
  <2> QED BY <2>2, <2>4, <2>6, <2>7 DEF longer, old
<1>3. FileInv("import", text, from) => LinesStaySeparate
  BY <1>2 DEF FileInv, LinesStaySeparate
<1>4. Given("import", text, from) => FileInv("import", text, from)
  BY FileGiven
<1>5. FileInv("import", text, from) /\ [FileStep]_allVars => FileInv("import", text, from)'
  BY FileKept
<1> QED BY <1>3, <1>4, <1>5, PTL DEF Reading

\* A package that passes the check is an archive of the reviewed files and hides
\* nothing, whatever its bytes are.
THEOREM PackagesHoldOnlySource ==
  ASSUME NEW bytes \in Seq(Nat), NEW from
  PROVE  Reading("package", bytes, from) => []PackageHoldsOnlySource
<1>1. FileInv("package", bytes, from) => PackageHoldsOnlySource
  BY VerifiedIsPacked DEF FileInv, PackageHoldsOnlySource
<1>2. Given("package", bytes, from) => FileInv("package", bytes, from)
  BY FileGiven
<1>3. FileInv("package", bytes, from) /\ [FileStep]_allVars => FileInv("package", bytes, from)'
  BY FileKept
<1> QED BY <1>1, <1>2, <1>3, PTL DEF Reading
\* The limits are numbers.
LEMMA LevelsAre == Levels \in Nat
BY JSONAssumption

\* A step of each recursion over numbers of which the module makes use.
Turn(of, x) ==
  CASE of.what = "values" -> Nests(x)
    [] of.what = "items" -> ParseItem(of.dialect, of.text, of.kind, of.inner, x)
    [] of.what = "levels" -> [offset \in Nat |-> ParseNested(of.dialect, of.text, x, offset)]
    [] of.what = "grammar" -> [part \in Nat \X Nat |-> IsNested(of.dialect, of.text, x, part[1], part[2])]

\* A function takes those steps, one after the other.
Turns(of, start, f) == [n \in Nat |-> IF n = 0 THEN start ELSE Turn(of, f[n - 1])]

\* Each recursion exists, whatever its values are.
LEMMA TurnsExist ==
  ASSUME NEW of, NEW start
  PROVE  \E f : f = Turns(of, start, f)
<1> DEFINE IsRun(g, n) == g[0] = start /\ \A i \in 0 .. n - 1 : g[i + 1] = Turn(of, g[i])
           Reached == {n \in Nat : \E g : IsRun(g, n)}
           Same == {n \in Nat : \A g, h : IsRun(g, n) /\ IsRun(h, n) => g[n] = h[n]}
<1>1. \A n \in Nat : \E g : IsRun(g, n)
  <2>1. IsRun([i \in 0 .. 0 |-> start], 0)
    OBVIOUS
  <2>2. ASSUME NEW n \in Nat, n \in Reached PROVE n + 1 \in Reached
    <3>1. PICK g : IsRun(g, n)
      BY <2>2
    <3> DEFINE h == [i \in 0 .. n + 1 |-> IF i <= n THEN g[i] ELSE Turn(of, g[n])]
    <3>2. h[0] = start
      BY <3>1
    <3>3. ASSUME NEW i \in 0 .. n PROVE h[i + 1] = Turn(of, h[i])
      <4>1. CASE i = n
        BY <4>1
      <4>2. CASE i < n
        BY <4>2, <3>1
      <4> QED BY <4>1, <4>2
    <3>4. IsRun(h, n + 1)
      <4> HIDE DEF h
      <4> QED BY <3>2, <3>3
    <3> HIDE DEF IsRun, h
    <3> QED BY <3>4
  <2>3. 0 \in Reached
    BY <2>1
  <2> HIDE DEF Reached
  <2>4. \A n \in Nat : n \in Reached
    BY <2>3, <2>2, Induction
  <2> QED BY <2>4 DEF Reached
<1>2. \A n \in Nat : n \in Same
  <2>1. 0 \in Same
    OBVIOUS
  <2>2. ASSUME NEW n \in Nat, n \in Same PROVE n + 1 \in Same
    <3>1. ASSUME NEW g, NEW h, IsRun(g, n + 1), IsRun(h, n + 1) PROVE g[n + 1] = h[n + 1]
      <4>1. IsRun(g, n) /\ IsRun(h, n)
        BY <3>1
      <4>2. g[n] = h[n]
        <5> HIDE DEF IsRun
        <5> QED BY <4>1, <2>2
      <4>3. n \in 0 .. (n + 1) - 1
        OBVIOUS
      <4>4. g[n + 1] = Turn(of, g[n]) /\ h[n + 1] = Turn(of, h[n])
        BY <4>3, <3>1
      <4> QED BY <4>2, <4>4
    <3> HIDE DEF IsRun
    <3> QED BY <3>1
  <2> HIDE DEF Same
  <2> QED BY <2>1, <2>2, Induction
<1> DEFINE Run(n) == CHOOSE g : IsRun(g, n)
           f == [n \in Nat |-> Run(n)[n]]
<1>3. ASSUME NEW n \in Nat PROVE IsRun(Run(n), n)
  <2> HIDE DEF IsRun
  <2> QED BY <1>1
<1>4. f[0] = start
  <2>1. Run(0)[0] = start
    <3> HIDE DEF Run
    <3> QED BY <1>3
  <2> HIDE DEF Run
  <2> QED BY <2>1
<1>5. ASSUME NEW n \in Nat PROVE f[n + 1] = Turn(of, f[n])
  <2>0. IsRun(Run(n + 1), n + 1)
    <3>1. n + 1 \in Nat
      OBVIOUS
    <3> HIDE DEF Run, IsRun
    <3> QED BY <3>1, <1>3
  <2>1. IsRun(Run(n + 1), n)
    <3> HIDE DEF Run
    <3> QED BY <2>0
  <2>2. Run(n + 1)[n] = Run(n)[n]
    <3>1. IsRun(Run(n), n) /\ n \in Same
      BY <1>2, <1>3
    <3> HIDE DEF Run, IsRun
    <3> QED BY <2>1, <3>1
  <2>3. Run(n + 1)[n + 1] = Turn(of, Run(n + 1)[n])
    <3>2. n \in 0 .. (n + 1) - 1
      OBVIOUS
    <3> HIDE DEF Run
    <3> QED BY <2>0, <3>2
  <2> HIDE DEF Run
  <2> QED BY <2>2, <2>3
<1>6. ASSUME NEW n \in Nat PROVE f[n] = IF n = 0 THEN start ELSE Turn(of, f[n - 1])
  <2>1. CASE n = 0
    <3> HIDE DEF f
    <3> QED BY <2>1, <1>4
  <2>2. CASE n # 0
    <3>1. n - 1 \in Nat /\ (n - 1) + 1 = n
      BY <2>2
    <3>2. f[(n - 1) + 1] = Turn(of, f[n - 1])
      <4> HIDE DEF f
      <4> QED BY <3>1, <1>5
    <3> HIDE DEF f
    <3> QED BY <3>1, <3>2, <2>2
  <2> QED BY <2>1, <2>2
<1>7. f = [n \in Nat |-> f[n]]
  OBVIOUS
<1> HIDE DEF f
<1> QED BY <1>6, <1>7 DEF Turns

\* Such a recursion starts as it should and goes on as it should.
LEMMA TurnsAre ==
  ASSUME NEW of, NEW start, NEW f, f = Turns(of, start, f)
  PROVE  f[0] = start /\ \A n \in Nat : f[n + 1] = Turn(of, f[n])
<1>1. \A n \in Nat : f[n] = IF n = 0 THEN start ELSE Turn(of, f[n - 1])
  BY DEF Turns
<1>2. ASSUME NEW n \in Nat PROVE f[n + 1] = Turn(of, f[n])
  <2>1. n + 1 \in Nat /\ n + 1 # 0 /\ (n + 1) - 1 = n
    OBVIOUS
  <2> QED BY <2>1, <1>1
<1> QED BY <1>1, <1>2

(***************************************************************************)
(* Values: the recursion over levels, and induction and recursion over what *)
(* a value is made of                                                      *)
(***************************************************************************)
\* The values of so many levels exist for every number of levels.
LEMMA ValuesOfIs ==
  /\ ValuesOf[0] = {}
  /\ \A n \in Nat : ValuesOf[n + 1] = Nests(ValuesOf[n])
<1> DEFINE of == [what |-> "values"]
           F(g) == [levels \in Nat |-> IF levels = 0 THEN {} ELSE Nests(g[levels - 1])]
<1>1. \A x : Turn(of, x) = Nests(x)
  BY DEF Turn
<1>2. \A g : F(g) = Turns(of, {}, g)
  BY <1>1 DEF Turns
<1>3. PICK f : f = Turns(of, {}, f)
  BY TurnsExist
<1>4. ValuesOf = F(ValuesOf)
  <2>1. ValuesOf = CHOOSE g : g = F(g)
    BY DEF ValuesOf
  <2>2. f = F(f)
    <3> HIDE DEF F, of
    <3> QED BY <1>2, <1>3
  <2> HIDE DEF F
  <2> QED BY <2>1, <2>2
<1>5. ValuesOf = Turns(of, {}, ValuesOf)
  <2> HIDE DEF F, of
  <2> QED BY <1>2, <1>4
<1> HIDE DEF of
<1> QED BY <1>1, <1>5, TurnsAre

\* A value of values: what it is made of.
IsTree(v, S) ==
  /\ v = Tree(v.kind, v.names, v.items)
  /\ \/ /\ v.kind \in {PlainToken(token) : token \in Atoms}
        /\ v.names = <<>> /\ v.items = <<>>
     \/ v.kind = "[" /\ v.names = <<>> /\ v.items \in Seq(S)
     \/ /\ v.kind = "{" /\ v.names \in Seq(PlainStrings) /\ v.items \in Seq(S)
        /\ Len(v.names) = Len(v.items) /\ IsInjective(v.names)

\* Nests, told by the parts of a value.
LEMMA NestsAre ==
  ASSUME NEW S, NEW v
  PROVE  v \in Nests(S) <=> IsTree(v, S)
BY DEF Nests, IsTree, Tree

\* A value of few levels is one of more.
LEMMA ValuesGrow ==
  ASSUME NEW m \in Nat, NEW n \in Nat, m <= n
  PROVE  ValuesOf[m] \subseteq ValuesOf[n]
<1> DEFINE G == {k \in Nat : ValuesOf[k] \subseteq ValuesOf[k + 1]}
<1>1. 0 \in G
  BY ValuesOfIs
<1>2. ASSUME NEW k \in Nat, k \in G PROVE k + 1 \in G
  <2>1. ValuesOf[k] \subseteq ValuesOf[k + 1]
    BY <1>2
  <2>2. ASSUME NEW v, v \in Nests(ValuesOf[k]) PROVE v \in Nests(ValuesOf[k + 1])
    <3>1. IsTree(v, ValuesOf[k])
      BY <2>2, NestsAre
    <3>2. IsTree(v, ValuesOf[k + 1])
      <4>1. v.items \in Seq(ValuesOf[k]) => v.items \in Seq(ValuesOf[k + 1])
        BY <2>1
      <4> QED BY <3>1, <4>1 DEF IsTree
    <3> QED BY <3>2, NestsAre
  <2>3. ValuesOf[k + 1] = Nests(ValuesOf[k]) /\ ValuesOf[(k + 1) + 1] = Nests(ValuesOf[k + 1])
    BY ValuesOfIs
  <2> QED BY <2>2, <2>3
<1>3. \A k \in Nat : k \in G
  <2> HIDE DEF G
  <2> QED BY <1>1, <1>2, Induction
<1> DEFINE H == {k \in Nat : ValuesOf[m] \subseteq ValuesOf[m + k]}
<1>4. 0 \in H
  OBVIOUS
<1>5. ASSUME NEW k \in Nat, k \in H PROVE k + 1 \in H
  <2>1. m + k \in G /\ (m + k) + 1 = m + (k + 1)
    BY <1>3
  <2>2. ValuesOf[m + k] \subseteq ValuesOf[m + (k + 1)]
    BY <2>1
  <2> QED BY <2>2, <1>5
<1>6. \A k \in Nat : k \in H
  <2> HIDE DEF H
  <2> QED BY <1>4, <1>5, Induction
<1>7. n - m \in Nat /\ m + (n - m) = n
  OBVIOUS
<1>8. n - m \in H
  BY <1>6, <1>7
<1> QED BY <1>7, <1>8

\* The values that are told apart are made of such values.
LEMMA ValueIs ==
  ASSUME NEW v \in Values
  PROVE  IsTree(v, Values) /\ v.items \in Seq(Values) /\ DOMAIN v.items = 1 .. Len(v.items)
         /\ \A i \in DOMAIN v.items : v.items[i] \in Values
<1> USE LevelsAre
<1>1. Levels # 0
  BY ValuesOfIs DEF Values
<1>2. Levels - 1 \in Nat /\ (Levels - 1) + 1 = Levels
  BY <1>1
<1>3. v \in Nests(ValuesOf[Levels - 1])
  BY <1>2, ValuesOfIs DEF Values
<1>4. IsTree(v, ValuesOf[Levels - 1])
  BY <1>3, NestsAre
<1>5. ValuesOf[Levels - 1] \subseteq Values
  BY <1>2, ValuesGrow DEF Values
<1>6. v.items \in Seq(ValuesOf[Levels - 1])
  <2>1. <<>> \in Seq(ValuesOf[Levels - 1])
    OBVIOUS
  <2> QED BY <1>4, <2>1 DEF IsTree
<1>7. v.items \in Seq(Values)
  BY <1>5, <1>6
<1>8. IsTree(v, Values)
  BY <1>4, <1>7 DEF IsTree
<1> QED BY <1>7, <1>8

\* What holds of a value when it holds of what the value is made of, holds of
\* every value.
LEMMA ValueInduction ==
  ASSUME NEW S,
         \A v \in Values : (\A i \in DOMAIN v.items : v.items[i] \in S) => v \in S
  PROVE  Values \subseteq S
<1> USE LevelsAre
<1> DEFINE H == {n \in Nat : n <= Levels => ValuesOf[n] \subseteq S}
<1>1. 0 \in H
  BY ValuesOfIs
<1>2. ASSUME NEW n \in Nat, n \in H PROVE n + 1 \in H
  <2> SUFFICES ASSUME n + 1 <= Levels, NEW v \in ValuesOf[n + 1] PROVE v \in S
    OBVIOUS
  <2>1. ValuesOf[n] \subseteq S
    BY <1>2
  <2>2. v \in Values
    BY ValuesGrow DEF Values
  <2>3. IsTree(v, ValuesOf[n])
    BY ValuesOfIs, NestsAre
  <2>4. v.items \in Seq(ValuesOf[n])
    <3>1. <<>> \in Seq(ValuesOf[n])
      OBVIOUS
    <3> QED BY <2>3, <3>1 DEF IsTree
  <2>5. \A i \in DOMAIN v.items : v.items[i] \in S
    BY <2>1, <2>4
  <2> QED BY <2>2, <2>5
<1>3. \A n \in Nat : n \in H
  <2> HIDE DEF H
  <2> QED BY <1>1, <1>2, Induction
<1>4. Levels \in H
  BY <1>3
<1> QED BY <1>4 DEF Values

\* What a function says of a value depends on what it says of the parts.
IsLocal(step, T) ==
  \A f, g \in [Values -> T] : \A v \in Values :
    (\A i \in DOMAIN v.items : f[v.items[i]] = g[v.items[i]]) => step[f][v] = step[g][v]

\* Then it is a function by recursion over values: it exists.
LEMMA ValueRecursion ==
  ASSUME NEW T, T # {}, NEW step \in [[Values -> T] -> [Values -> T]], IsLocal(step, T)
  PROVE  \E f \in [Values -> T] : f = step[f]
<1> USE LevelsAre
<1> DEFINE F == [Values -> T]
<1>1. PICK any \in T : TRUE
  OBVIOUS
<1>2. PICK g \in [Nat -> F] : IsLoop(g, [v \in Values |-> any], step)
  <2>1. [v \in Values |-> any] \in F
    BY <1>1
  <2>2. step \in [F -> F]
    OBVIOUS
  <2> HIDE DEF F
  <2> QED BY <2>1, <2>2, LoopExists
<1> DEFINE Still(n) == \A v \in ValuesOf[n] : \A m \in Nat : n <= m => g[m][v] = g[m + 1][v]
           H == {n \in Nat : n <= Levels => Still(n)}
<1>3. 0 \in H
  BY ValuesOfIs
<1>4. ASSUME NEW n \in Nat, n \in H PROVE n + 1 \in H
  <2> SUFFICES ASSUME n + 1 <= Levels, NEW v \in ValuesOf[n + 1], NEW m \in Nat, n + 1 <= m
               PROVE  g[m][v] = g[m + 1][v]
    OBVIOUS
  <2>1. Still(n)
    BY <1>4
  <2>2. v \in Values
    <3>1. n + 1 \in Nat /\ Levels \in Nat /\ n + 1 <= Levels
      OBVIOUS
    <3> HIDE DEF F, Still, H
    <3> QED BY <3>1, ValuesGrow DEF Values
  <2>3. IsTree(v, ValuesOf[n])
    BY ValuesOfIs, NestsAre
  <2>4. v.items \in Seq(ValuesOf[n])
    <3>1. <<>> \in Seq(ValuesOf[n])
      OBVIOUS
    <3> QED BY <2>3, <3>1 DEF IsTree
  <2>5. m - 1 \in Nat /\ (m - 1) + 1 = m /\ n <= m - 1
    OBVIOUS
  <2>6. \A i \in DOMAIN v.items : g[m - 1][v.items[i]] = g[m][v.items[i]]
    <3>1. \A i \in DOMAIN v.items : v.items[i] \in ValuesOf[n]
      BY <2>4
    <3> DEFINE k == m - 1
    <3>2. k \in Nat /\ k + 1 = m /\ n <= k
      BY <2>5
    <3> HIDE DEF k
    <3>3. \A w \in ValuesOf[n] : g[k][w] = g[k + 1][w]
      BY <2>1, <3>2
    <3> QED BY <3>1, <3>2, <3>3 DEF k
  <2>7. g[m - 1] \in F /\ g[m] \in F
    BY <1>2, <2>5
  <2>8. step[g[m - 1]][v] = step[g[m]][v]
    BY <2>2, <2>6, <2>7 DEF IsLocal
  <2>9. g[m] = step[g[m - 1]] /\ g[m + 1] = step[g[m]]
    BY <1>2, <2>5 DEF IsLoop
  <2> QED BY <2>8, <2>9
<1>5. \A n \in Nat : n \in H
  <2> HIDE DEF H
  <2> QED BY <1>3, <1>4, Induction
<1>6. Still(Levels)
  <2>1. Levels \in H
    BY <1>5
  <2> QED BY <2>1
<1>7. g[Levels] \in F /\ g[Levels + 1] \in F /\ g[Levels + 1] = step[g[Levels]]
  BY <1>2 DEF IsLoop
<1>8. \A v \in Values : g[Levels][v] = g[Levels + 1][v]
  BY <1>6 DEF Values
<1>9. g[Levels] = g[Levels + 1]
  BY <1>7, <1>8
<1> QED BY <1>7, <1>9

(***************************************************************************)
(* The functions of values satisfy their equations                         *)
(***************************************************************************)
\* The tokens of a value that is written.
PlainAtoms == {PlainToken(token) : token \in Atoms}
PlainTokens == PlainAtoms \cup Opening \cup {"}", "]", ":", ","}

\* An object or a list is not a leaf.
LEMMA AtomsAreNoMarks ==
  /\ PlainAtoms \subseteq Atoms /\ Atoms \cap Opening = {}
  /\ \A token \in Atoms : PlainToken(token) \in PlainAtoms
  /\ PlainStrings \subseteq PlainAtoms /\ PlainStrings \subseteq Strings
  /\ Atoms \cap (Whitespace \cup {"}", "]", ":", ",", "end"}) = {}
BY ZenonT(60), JSONAssumption DEF PlainAtoms, PlainToken, PlainStrings, Atoms, Opening

\* What an item of an object or a list adds to what is written, given what is
\* written of values.
PartsOf(f, v) ==
  [i \in DOMAIN v.items |->
     <<IF i = 1 THEN v.kind ELSE ",">>
       \o (IF v.kind = "{" THEN <<v.names[i], ":">> ELSE <<>>) \o f[v.items[i]]]
EncodeOf(f, v) ==
  IF v.kind \notin Opening THEN <<v.kind>>
  ELSE IF v.items = <<>> THEN <<v.kind, Closing(v.kind)>>
  ELSE FlattenSeq(PartsOf(f, v)) \o <<Closing(v.kind)>>

\* Short sequences.
LEMMA ShortSeqs ==
  ASSUME NEW S
  PROVE  /\ <<>> \in Seq(S)
         /\ \A a \in S : <<a>> \in Seq(S) /\ Len(<<a>>) = 1
         /\ \A a, b \in S : <<a, b>> \in Seq(S) /\ Len(<<a, b>>) = 2
OBVIOUS

\* A sequence as a function.
LEMMA SeqIs ==
  ASSUME NEW S, NEW s \in Seq(S)
  PROVE  Len(s) \in Nat /\ DOMAIN s = 1 .. Len(s) /\ \A i \in 1 .. Len(s) : s[i] \in S
OBVIOUS

\* The parts of a value.
LEMMA TreeIs ==
  ASSUME NEW v \in Values
  PROVE  /\ v = Tree(v.kind, v.names, v.items)
         /\ v.items \in Seq(Values) /\ v.names \in Seq(PlainStrings)
         /\ v.kind \in PlainAtoms \/ v.kind \in Opening
         /\ v.kind \notin Opening => v.names = <<>> /\ v.items = <<>> /\ v.kind \in PlainAtoms
         /\ v.kind = "[" => v.names = <<>>
         /\ v.kind = "{" => Len(v.names) = Len(v.items) /\ IsInjective(v.names)
<1>1. IsTree(v, Values) /\ v.items \in Seq(Values)
  BY ValueIs
<1>2. v.names \in Seq(PlainStrings)
  BY <1>1, ShortSeqs DEF IsTree
<1>3. "{" # "[" /\ "{" \notin PlainAtoms /\ "[" \notin PlainAtoms
  BY AtomsAreNoMarks DEF Opening
<1>4. \/ v.kind \in PlainAtoms /\ v.names = <<>> /\ v.items = <<>>
      \/ v.kind = "[" /\ v.names = <<>>
      \/ v.kind = "{" /\ Len(v.names) = Len(v.items) /\ IsInjective(v.names)
  BY <1>1 DEF IsTree, PlainAtoms
<1>5. v = Tree(v.kind, v.names, v.items)
  BY <1>1 DEF IsTree
<1> HIDE DEF PlainAtoms
<1> QED BY <1>1, <1>2, <1>3, <1>4, <1>5 DEF Opening

\* What is written of an item.
LEMMA PartsAre ==
  ASSUME NEW v \in Values, v.kind \in Opening, NEW f,
         \A i \in DOMAIN v.items : f[v.items[i]] \in Seq(PlainTokens)
  PROVE  /\ PartsOf(f, v) \in Seq(Seq(PlainTokens)) /\ Len(PartsOf(f, v)) = Len(v.items)
         /\ \A i \in 1 .. Len(v.items) :
              /\ PartsOf(f, v)[i] = <<IF i = 1 THEN v.kind ELSE ",">>
                   \o (IF v.kind = "{" THEN <<v.names[i], ":">> ELSE <<>>) \o f[v.items[i]]
              /\ PartsOf(f, v)[i] \in Seq(PlainTokens)
<1> DEFINE p == PartsOf(f, v)
<1>1. v.items \in Seq(Values) /\ v.names \in Seq(PlainStrings)
      /\ (v.kind = "{" => Len(v.names) = Len(v.items))
  BY TreeIs
<1>2. DOMAIN v.items = 1 .. Len(v.items) /\ Len(v.items) \in Nat
  BY <1>1, SeqIs
<1>3. ASSUME NEW i \in 1 .. Len(v.items)
      PROVE  p[i] = <<IF i = 1 THEN v.kind ELSE ",">>
               \o (IF v.kind = "{" THEN <<v.names[i], ":">> ELSE <<>>) \o f[v.items[i]]
  BY <1>2 DEF PartsOf
<1>4. ASSUME NEW i \in 1 .. Len(v.items) PROVE p[i] \in Seq(PlainTokens)
  <2>1. f[v.items[i]] \in Seq(PlainTokens)
    BY <1>2
  <2>2. <<IF i = 1 THEN v.kind ELSE ",">> \in Seq(PlainTokens)
    <3>1. v.kind \in PlainTokens /\ "," \in PlainTokens
      BY DEF PlainTokens
    <3> QED BY <3>1, ShortSeqs
  <2>3. (IF v.kind = "{" THEN <<v.names[i], ":">> ELSE <<>>) \in Seq(PlainTokens)
    <3>1. CASE v.kind = "{"
      <4>1. v.names[i] \in PlainTokens /\ ":" \in PlainTokens
        <5>1. v.names[i] \in PlainStrings
          BY <3>1, <1>1, SeqIs
        <5> QED BY <5>1, AtomsAreNoMarks DEF PlainTokens
      <4> QED BY <4>1, <3>1, ShortSeqs
    <3>2. CASE v.kind # "{"
      BY <3>2, ShortSeqs
    <3> QED BY <3>1, <3>2
  <2> DEFINE mark == <<IF i = 1 THEN v.kind ELSE ",">>
             name == IF v.kind = "{" THEN <<v.names[i], ":">> ELSE <<>>
  <2>4. p[i] = mark \o name \o f[v.items[i]]
    BY <1>3
  <2> HIDE DEF mark, name, p
  <2>5. mark \o name \in Seq(PlainTokens)
    BY <2>2, <2>3, ConcatProperties DEF mark, name
  <2> QED BY <2>1, <2>4, <2>5, ConcatProperties
<1>5. p \in Seq(Seq(PlainTokens)) /\ Len(p) = Len(v.items)
  <2>1. p = [i \in 1 .. Len(v.items) |-> p[i]]
    BY <1>2 DEF PartsOf
  <2> HIDE DEF p
  <2>2. p \in [1 .. Len(v.items) -> Seq(PlainTokens)]
    BY <2>1, <1>4
  <2> QED BY <2>2, <1>2
<1> QED BY <1>3, <1>4, <1>5

\* What is written of a value is made of such tokens.
LEMMA EncodeOfType ==
  ASSUME NEW v \in Values, NEW f, \A i \in DOMAIN v.items : f[v.items[i]] \in Seq(PlainTokens)
  PROVE  EncodeOf(f, v) \in Seq(PlainTokens)
<1>0. Closing(v.kind) \in PlainTokens
  BY DEF PlainTokens, Closing
<1>1. CASE v.kind \notin Opening
  <2>1. v.kind \in PlainTokens
    BY <1>1, TreeIs DEF PlainTokens
  <2> QED BY <1>1, <2>1, ShortSeqs DEF EncodeOf
<1>2. CASE v.kind \in Opening /\ v.items = <<>>
  <2>1. v.kind \in PlainTokens
    BY <1>2 DEF PlainTokens
  <2> QED BY <1>0, <1>2, <2>1, ShortSeqs DEF EncodeOf
<1>3. CASE v.kind \in Opening /\ v.items # <<>>
  <2>1. PartsOf(f, v) \in Seq(Seq(PlainTokens))
    BY <1>3, PartsAre
  <2>2. FlattenSeq(PartsOf(f, v)) \in Seq(PlainTokens)
    <3>1. Len(PartsOf(f, v)) \in Nat /\ Len(PartsOf(f, v)) \in 0 .. Len(PartsOf(f, v))
      BY <2>1
    <3>2. Flat(PartsOf(f, v), Len(PartsOf(f, v))) \in Seq(PlainTokens)
      BY <2>1, <3>1, FlatType
    <3> QED BY <2>1, <3>2, FlatIs
  <2>3. <<Closing(v.kind)>> \in Seq(PlainTokens)
    BY <1>0, ShortSeqs
  <2>4. FlattenSeq(PartsOf(f, v)) \o <<Closing(v.kind)>> \in Seq(PlainTokens)
    BY <2>2, <2>3, ConcatProperties
  <2> QED BY <1>3, <2>4 DEF EncodeOf
<1> QED BY <1>1, <1>2, <1>3

\* Encode satisfies its equation.
LEMMA EncodeIs ==
  ASSUME NEW v \in Values
  PROVE  Encode[v] \in Seq(PlainTokens) /\ Encode[v] = EncodeOf(Encode, v)
<1> DEFINE T == Seq(PlainTokens)
           E(g) == [w \in Values |-> EncodeOf(g, w)]
           step == [g \in [Values -> T] |-> E(g)]
<1>1. T # {}
  <2>1. <<>> \in T
    OBVIOUS
  <2> QED BY <2>1
<1>2. ASSUME NEW g \in [Values -> T] PROVE E(g) \in [Values -> T]
  <2>1. ASSUME NEW w \in Values PROVE EncodeOf(g, w) \in T
    <3>1. \A i \in DOMAIN w.items : g[w.items[i]] \in T
      BY ValueIs
    <3> QED BY <3>1, EncodeOfType
  <2> HIDE DEF T
  <2> QED BY <2>1
<1>3. step \in [[Values -> T] -> [Values -> T]]
  <2> HIDE DEF E, T
  <2> QED BY <1>2
<1>4. IsLocal(step, T)
  <2> SUFFICES ASSUME NEW g \in [Values -> T], NEW h \in [Values -> T], NEW w \in Values,
                      \A i \in DOMAIN w.items : g[w.items[i]] = h[w.items[i]]
               PROVE  step[g][w] = step[h][w]
    BY DEF IsLocal
  <2>1. PartsOf(g, w) = PartsOf(h, w)
    BY DEF PartsOf
  <2>2. EncodeOf(g, w) = EncodeOf(h, w)
    BY <2>1 DEF EncodeOf
  <2>3. step[g] = E(g) /\ step[h] = E(h)
    <3> HIDE DEF E, T
    <3> QED OBVIOUS
  <2>4. step[g][w] = EncodeOf(g, w) /\ step[h][w] = EncodeOf(h, w)
    <3> HIDE DEF step
    <3> QED BY <2>3
  <2> QED BY <2>2, <2>4
<1>5. PICK g \in [Values -> T] : g = step[g]
  <2> HIDE DEF T, step
  <2> QED BY <1>1, <1>3, <1>4, ValueRecursion
<1>6. g = E(g)
  <2> HIDE DEF E, T
  <2> QED BY <1>5
<1>7. Encode = E(Encode)
  <2>1. Encode = CHOOSE h : h = E(h)
    BY DEF Encode, EncodeOf, PartsOf
  <2> HIDE DEF E
  <2> QED BY <2>1, <1>6
<1>8. ASSUME NEW w \in Values PROVE Encode[w] = EncodeOf(Encode, w)
  <2>1. E(Encode)[w] = EncodeOf(Encode, w)
    OBVIOUS
  <2> HIDE DEF E
  <2> QED BY <2>1, <1>7
<1> DEFINE S == {w \in Values : Encode[w] \in T}
<1>9. ASSUME NEW w \in Values, \A i \in DOMAIN w.items : w.items[i] \in S PROVE w \in S
  <2>1. EncodeOf(Encode, w) \in T
    BY <1>9, EncodeOfType
  <2> QED BY <2>1, <1>8
<1>10. Values \subseteq S
  <2> HIDE DEF S
  <2> QED BY <1>9, ValueInduction
<1> QED BY <1>8, <1>10

\* What may stand at a depth, given what may stand below.
AllowedOf(dialect, f, v) ==
  [level \in Nat |->
     /\ level <= dialect.limit
     /\ v.kind \in Opening \cup AtomsOf(dialect)
     /\ ToSet(v.names) \subseteq dialect.strings
     /\ \A i \in DOMAIN v.items : f[v.items[i]][level + 1]]
AllowedBy(dialect) == CHOOSE g : g = [v \in Values |-> AllowedOf(dialect, g, v)]

\* Allowed satisfies its equation.
LEMMA AllowedIs ==
  ASSUME NEW dialect, NEW v \in Values, NEW depth \in Nat
  PROVE  Allowed(dialect, v, depth) <=>
           /\ depth <= dialect.limit
           /\ v.kind \in Opening \cup AtomsOf(dialect)
           /\ ToSet(v.names) \subseteq dialect.strings
           /\ \A i \in DOMAIN v.items : Allowed(dialect, v.items[i], depth + 1)
<1> DEFINE T == [Nat -> BOOLEAN]
           E(g) == [w \in Values |-> AllowedOf(dialect, g, w)]
           step == [g \in [Values -> T] |-> E(g)]
<1>1. T # {}
  <2>1. [level \in Nat |-> TRUE] \in T
    OBVIOUS
  <2> QED BY <2>1
<1>2. ASSUME NEW g \in [Values -> T] PROVE E(g) \in [Values -> T]
  <2>1. ASSUME NEW w \in Values PROVE AllowedOf(dialect, g, w) \in T
    BY DEF AllowedOf
  <2> HIDE DEF T
  <2> QED BY <2>1
<1>3. step \in [[Values -> T] -> [Values -> T]]
  <2> HIDE DEF E, T
  <2> QED BY <1>2
<1>4. IsLocal(step, T)
  <2> SUFFICES ASSUME NEW g \in [Values -> T], NEW h \in [Values -> T], NEW w \in Values,
                      \A i \in DOMAIN w.items : g[w.items[i]] = h[w.items[i]]
               PROVE  step[g][w] = step[h][w]
    BY DEF IsLocal
  <2>2. AllowedOf(dialect, g, w) = AllowedOf(dialect, h, w)
    BY DEF AllowedOf
  <2>3. step[g] = E(g) /\ step[h] = E(h)
    <3> HIDE DEF E, T
    <3> QED OBVIOUS
  <2>4. step[g][w] = AllowedOf(dialect, g, w) /\ step[h][w] = AllowedOf(dialect, h, w)
    <3> HIDE DEF step
    <3> QED BY <2>3
  <2> QED BY <2>2, <2>4
<1>5. PICK g \in [Values -> T] : g = step[g]
  <2> HIDE DEF T, step
  <2> QED BY <1>1, <1>3, <1>4, ValueRecursion
<1>6. g = E(g)
  <2> HIDE DEF E, T
  <2> QED BY <1>5
<1>7. AllowedBy(dialect) = E(AllowedBy(dialect))
  <2>1. AllowedBy(dialect) = CHOOSE h : h = E(h)
    BY DEF AllowedBy
  <2> HIDE DEF E
  <2> QED BY <2>1, <1>6
<1>8. AllowedBy(dialect)[v] = AllowedOf(dialect, AllowedBy(dialect), v)
  <2>1. E(AllowedBy(dialect))[v] = AllowedOf(dialect, AllowedBy(dialect), v)
    OBVIOUS
  <2> HIDE DEF E
  <2> QED BY <2>1, <1>7
<1>9. \A w, level : Allowed(dialect, w, level) = AllowedBy(dialect)[w][level]
  BY DEF Allowed, AllowedBy, AllowedOf
<1>10. AllowedBy(dialect)[v][depth] =
         (/\ depth <= dialect.limit
          /\ v.kind \in Opening \cup AtomsOf(dialect)
          /\ ToSet(v.names) \subseteq dialect.strings
          /\ \A i \in DOMAIN v.items : AllowedBy(dialect)[v.items[i]][depth + 1])
  BY <1>8 DEF AllowedOf
<1> QED BY <1>9, <1>10

(***************************************************************************)
(* Which parts of a text spell a value: the relation between the reader,   *)
(* the writer and the grammar.  It knows no limits.                        *)
(***************************************************************************)
\* The items of an object or a list stand between marks: its opening bracket and
\* commas; the last mark is behind them.  `f` says which parts spell an item.
Rowed(text, f, k, names, items, marks) ==
  /\ marks \in Seq(1 .. Len(text)) /\ Len(marks) = Len(items) + 1
  /\ \A i \in 1 .. Len(items) :
       /\ marks[i] < marks[i + 1]
       /\ i # 1 => text[marks[i]] = ","
       /\ k = "{" => names[i] = NameOf(text, marks[i] + 1)
       /\ \E start \in ValueStarts(Strings, text, k, marks[i] + 1, marks[i + 1]) :
            <<start, marks[i + 1]>> \in f[items[i]]

\* There is a pair of brackets and white space around it.
IsBracketed(text, from, to, k, first, last) ==
  /\ from <= first /\ first < last /\ last < to
  /\ Ink(text, from, first) = {} /\ Ink(text, last + 1, to) = {}
  /\ text[first] = k /\ text[last] = Closing(k)

\* Where something in a text may start or end.
Places(text) == 1 .. Len(text) + 1

\* The parts that spell a value, given those that spell what it is made of.
SpelledOf(text, f, v) ==
  {part \in Places(text) \X Places(text) :
     \/ /\ v.kind \notin Opening
        /\ \E i \in 1 .. Len(text) :
             Ink(text, part[1], part[2]) = {i} /\ text[i] \in Atoms /\ v.kind = PlainToken(text[i])
     \/ /\ v.kind \in Opening
        /\ \E first, last \in 1 .. Len(text) :
             /\ IsBracketed(text, part[1], part[2], v.kind, first, last)
             /\ IF v.items = <<>> THEN Ink(text, first + 1, last) = {}
                ELSE \E marks : /\ Rowed(text, f, v.kind, v.names, v.items, marks)
                                /\ marks[1] = first /\ marks[Len(marks)] = last}

Spelled(text) == CHOOSE g : g = [v \in Values |-> SpelledOf(text, g, v)]
Spells(text, from, to, v) == <<from, to>> \in Spelled(text)[v]

\* Spelled satisfies its equation.
LEMMA SpelledIs ==
  ASSUME NEW text, NEW v \in Values
  PROVE  /\ Spelled(text)[v] = SpelledOf(text, Spelled(text), v)
         /\ Spelled(text)[v] \subseteq Places(text) \X Places(text)
<1> DEFINE T == SUBSET (Places(text) \X Places(text))
           E(g) == [w \in Values |-> SpelledOf(text, g, w)]
           step == [g \in [Values -> T] |-> E(g)]
<1>1. T # {}
  OBVIOUS
<1>2. ASSUME NEW g \in [Values -> T] PROVE E(g) \in [Values -> T]
  <2>1. ASSUME NEW w \in Values PROVE SpelledOf(text, g, w) \in T
    BY DEF SpelledOf
  <2> HIDE DEF T
  <2> QED BY <2>1
<1>3. step \in [[Values -> T] -> [Values -> T]]
  <2> HIDE DEF E, T
  <2> QED BY <1>2
<1>4. IsLocal(step, T)
  <2> SUFFICES ASSUME NEW g \in [Values -> T], NEW h \in [Values -> T], NEW w \in Values,
                      \A i \in DOMAIN w.items : g[w.items[i]] = h[w.items[i]]
               PROVE  step[g][w] = step[h][w]
    BY DEF IsLocal
  <2>1. DOMAIN w.items = 1 .. Len(w.items)
    BY ValueIs
  <2>2. \A marks : Rowed(text, g, w.kind, w.names, w.items, marks)
                     <=> Rowed(text, h, w.kind, w.names, w.items, marks)
    BY <2>1 DEF Rowed
  <2>3. SpelledOf(text, g, w) = SpelledOf(text, h, w)
    BY <2>2 DEF SpelledOf
  <2>4. step[g] = E(g) /\ step[h] = E(h)
    <3> HIDE DEF E, T
    <3> QED OBVIOUS
  <2>5. step[g][w] = SpelledOf(text, g, w) /\ step[h][w] = SpelledOf(text, h, w)
    <3> HIDE DEF step
    <3> QED BY <2>4
  <2> QED BY <2>3, <2>5
<1>5. PICK g \in [Values -> T] : g = step[g]
  <2> HIDE DEF T, step
  <2> QED BY <1>1, <1>3, <1>4, ValueRecursion
<1>6. g = E(g)
  <2> HIDE DEF E, T
  <2> QED BY <1>5
<1>7. Spelled(text) = E(Spelled(text))
  <2>1. Spelled(text) = CHOOSE h : h = E(h)
    BY DEF Spelled
  <2> HIDE DEF E
  <2> QED BY <2>1, <1>6
<1>8. Spelled(text)[v] = SpelledOf(text, Spelled(text), v)
  <2>1. E(Spelled(text))[v] = SpelledOf(text, Spelled(text), v)
    OBVIOUS
  <2> HIDE DEF E
  <2> QED BY <2>1, <1>7
<1> QED BY <1>8 DEF SpelledOf

\* A part that spells a value.
LEMMA SpellsIs ==
  ASSUME NEW text, NEW v \in Values, NEW from \in Places(text), NEW to \in Places(text)
  PROVE  Spells(text, from, to, v) <=>
           \/ /\ v.kind \notin Opening
              /\ \E i \in 1 .. Len(text) :
                   Ink(text, from, to) = {i} /\ text[i] \in Atoms /\ v.kind = PlainToken(text[i])
           \/ /\ v.kind \in Opening
              /\ \E first, last \in 1 .. Len(text) :
                   /\ IsBracketed(text, from, to, v.kind, first, last)
                   /\ IF v.items = <<>> THEN Ink(text, first + 1, last) = {}
                      ELSE \E marks : /\ Rowed(text, Spelled(text), v.kind, v.names, v.items, marks)
                                      /\ marks[1] = first /\ marks[Len(marks)] = last
<1> DEFINE part == <<from, to>>
           Of(a, b) ==
             \/ /\ v.kind \notin Opening
                /\ \E i \in 1 .. Len(text) :
                     Ink(text, a, b) = {i} /\ text[i] \in Atoms /\ v.kind = PlainToken(text[i])
             \/ /\ v.kind \in Opening
                /\ \E first, last \in 1 .. Len(text) :
                     /\ IsBracketed(text, a, b, v.kind, first, last)
                     /\ IF v.items = <<>> THEN Ink(text, first + 1, last) = {}
                        ELSE \E marks : /\ Rowed(text, Spelled(text), v.kind, v.names, v.items, marks)
                                        /\ marks[1] = first /\ marks[Len(marks)] = last
<1>1. SpelledOf(text, Spelled(text), v) = {p \in Places(text) \X Places(text) : Of(p[1], p[2])}
  BY DEF SpelledOf
<1>2. part \in Places(text) \X Places(text) /\ part[1] = from /\ part[2] = to
  OBVIOUS
<1>3. Spells(text, from, to, v) <=> part \in SpelledOf(text, Spelled(text), v)
  BY SpelledIs DEF Spells
<1>4. part \in SpelledOf(text, Spelled(text), v) <=> Of(from, to)
  <2> HIDE DEF Of, part
  <2> QED BY <1>1, <1>2
<1> QED BY <1>3, <1>4

\* A leaf is spelled by its token alone.
LEMMA SpellsLeaf ==
  ASSUME NEW text, NEW v \in Values, v.kind \notin Opening, NEW from \in Places(text), NEW to \in Places(text)
  PROVE  Spells(text, from, to, v) <=>
           \E i \in 1 .. Len(text) :
             Ink(text, from, to) = {i} /\ text[i] \in Atoms /\ v = Leaf(PlainToken(text[i]))
<1>1. v = Tree(v.kind, v.names, v.items) /\ v.names = <<>> /\ v.items = <<>>
  BY TreeIs
<1>2. \A token : v.kind = token <=> v = Leaf(token)
  BY <1>1 DEF Leaf, Tree
<1>3. Spells(text, from, to, v) <=>
           \E i \in 1 .. Len(text) :
             Ink(text, from, to) = {i} /\ text[i] \in Atoms /\ v.kind = PlainToken(text[i])
  BY SpellsIs
<1> QED BY <1>2, <1>3

\* An object or a list is spelled by its items between brackets.
LEMMA SpellsNest ==
  ASSUME NEW text, NEW v \in Values, v.kind \in Opening, NEW from \in Places(text), NEW to \in Places(text)
  PROVE  Spells(text, from, to, v) <=>
           \E first, last \in 1 .. Len(text) :
             /\ IsBracketed(text, from, to, v.kind, first, last)
             /\ IF v.items = <<>> THEN Ink(text, first + 1, last) = {}
                ELSE \E marks : /\ Rowed(text, Spelled(text), v.kind, v.names, v.items, marks)
                                /\ marks[1] = first /\ marks[Len(marks)] = last
BY ZenonT(60), SpellsIs

(***************************************************************************)
(* The parser's loops                                                      *)
(***************************************************************************)
\* The rounds of ParseItems.
LEMMA ParseItemsIs ==
  ASSUME NEW dialect, NEW text, NEW k, NEW inner, NEW offset
  PROVE  \E f : /\ f[0] = Begun(offset)
                /\ \A n \in Nat : f[n + 1] = ParseItem(dialect, text, k, inner, f[n])
                /\ ParseItems(dialect, text, k, inner, offset) = f[Len(text) + 1]
<1> DEFINE of == [what |-> "items", dialect |-> dialect, text |-> text, kind |-> k, inner |-> inner]
           F(g) == [rounds \in Nat |-> IF rounds = 0 THEN Begun(offset)
                                       ELSE ParseItem(dialect, text, k, inner, g[rounds - 1])]
           f == CHOOSE g : g = F(g)
<1>1. \A x : Turn(of, x) = ParseItem(dialect, text, k, inner, x)
  BY DEF Turn
<1>2. \A g : F(g) = Turns(of, Begun(offset), g)
  BY <1>1 DEF Turns
<1>3. PICK h : h = Turns(of, Begun(offset), h)
  BY TurnsExist
<1>4. f = Turns(of, Begun(offset), f)
  <2>1. h = F(h)
    <3> HIDE DEF F, of
    <3> QED BY <1>2, <1>3
  <2>2. f = F(f)
    <3> HIDE DEF F
    <3> QED BY <2>1
  <2> HIDE DEF F, of, f
  <2> QED BY <1>2, <2>2
<1>5. ParseItems(dialect, text, k, inner, offset) = f[Len(text) + 1]
  BY DEF ParseItems
<1> HIDE DEF of, f
<1>6. f[0] = Begun(offset) /\ \A n \in Nat : f[n + 1] = Turn(of, f[n])
  BY <1>4, TurnsAre
<1> QED BY <1>1, <1>5, <1>6

\* Each level of the parser reads with the one below.
LEMMA ParseLevelsIs ==
  ASSUME NEW dialect, NEW text, NEW offset \in Nat
  PROVE  /\ ParseLevels(dialect, text, 0)[offset] = Failed
         /\ \A n \in Nat : ParseLevels(dialect, text, n + 1)[offset]
                             = ParseNested(dialect, text, ParseLevels(dialect, text, n), offset)
<1> DEFINE of == [what |-> "levels", dialect |-> dialect, text |-> text]
           none == [i \in Nat |-> Failed]
           F(g) == [left \in Nat |->
                      [i \in Nat |-> IF left = 0 THEN Failed
                                     ELSE ParseNested(dialect, text, g[left - 1], i)]]
           f == CHOOSE g : g = F(g)
<1>1. \A x : Turn(of, x) = [i \in Nat |-> ParseNested(dialect, text, x, i)]
  BY DEF Turn
<1>2. \A g : F(g) = Turns(of, none, g)
  <2> SUFFICES ASSUME NEW g, NEW n \in Nat
               PROVE  [i \in Nat |-> IF n = 0 THEN Failed ELSE ParseNested(dialect, text, g[n - 1], i)]
                        = IF n = 0 THEN none ELSE Turn(of, g[n - 1])
    BY DEF Turns
  <2> HIDE DEF of
  <2>1. CASE n = 0
    BY <2>1
  <2>2. CASE n # 0
    BY <2>2, <1>1
  <2> QED BY <2>1, <2>2
<1>3. PICK h : h = Turns(of, none, h)
  BY TurnsExist
<1>4. f = Turns(of, none, f)
  <2>1. h = F(h)
    <3> HIDE DEF F, of, none
    <3> QED BY <1>2, <1>3
  <2>2. f = F(f)
    <3> HIDE DEF F
    <3> QED BY <2>1
  <2> HIDE DEF F, of, f, none
  <2> QED BY <1>2, <2>2
<1>5. \A n : ParseLevels(dialect, text, n) = f[n]
  BY DEF ParseLevels
<1> HIDE DEF of, f
<1>6. f[0] = none /\ \A n \in Nat : f[n + 1] = Turn(of, f[n])
  <2> HIDE DEF none
  <2> QED BY <1>4, TurnsAre
<1>7. f[0][offset] = Failed
  BY <1>6
<1> HIDE DEF none
<1>8. ASSUME NEW n \in Nat
      PROVE  f[n + 1][offset] = ParseNested(dialect, text, f[n], offset)
  BY <1>1, <1>6
<1> QED BY ONLY <1>5, <1>7, <1>8

\* What the grammar says of parts, so many levels deep.
Grammar(dialect, text) ==
  CHOOSE g : g = [levels \in Nat |->
    [part \in Nat \X Nat |-> levels # 0 /\ IsNested(dialect, text, g[levels - 1], part[1], part[2])]]

\* A text of the grammar is one within the levels that are left, each of which
\* is made of the one below.
LEMMA GrammarIs ==
  ASSUME NEW dialect, NEW text
  PROVE  /\ IsText(dialect, text) <=> Grammar(dialect, text)[dialect.limit + 1 - dialect.start][<<1, Len(text) + 1>>]
         /\ \A from, to \in Nat : ~Grammar(dialect, text)[0][<<from, to>>]
         /\ \A n \in Nat : \A from, to \in Nat :
              Grammar(dialect, text)[n + 1][<<from, to>>]
                <=> IsNested(dialect, text, Grammar(dialect, text)[n], from, to)
<1> DEFINE of == [what |-> "grammar", dialect |-> dialect, text |-> text]
           Is(x, part) == IsNested(dialect, text, x, part[1], part[2])
           none == [part \in Nat \X Nat |-> FALSE]
           F(g) == [levels \in Nat |->
                      [part \in Nat \X Nat |-> levels # 0 /\ Is(g[levels - 1], part)]]
           f == CHOOSE g : g = F(g)
<1>1. \A x : Turn(of, x) = [part \in Nat \X Nat |-> Is(x, part)]
  BY DEF Turn
<1>a. \A x, part : Is(x, part) \in BOOLEAN
  BY DEF IsNested
<1>2. \A g : F(g) = Turns(of, none, g)
  <2> TAKE g
  <2> DEFINE Ours(n) == [part \in Nat \X Nat |-> n # 0 /\ Is(g[n - 1], part)]
             Theirs(n) == IF n = 0 THEN none ELSE Turn(of, g[n - 1])
  <2> HIDE DEF of, Is
  <2>1. ASSUME NEW n \in Nat PROVE Ours(n) = Theirs(n)
    <3>1. CASE n = 0
      BY <3>1
    <3>2. CASE n # 0
      <4>1. \A part \in Nat \X Nat : (n # 0 /\ Is(g[n - 1], part)) = Is(g[n - 1], part)
        BY <3>2, <1>a
      <4> QED BY <3>2, <1>1, <4>1
    <3> QED BY <3>1, <3>2
  <2>2. F(g) = [n \in Nat |-> Ours(n)]
    OBVIOUS
  <2>3. Turns(of, none, g) = [n \in Nat |-> Theirs(n)]
    BY DEF Turns
  <2> HIDE DEF F, Ours, Theirs
  <2> QED BY ONLY <2>1, <2>2, <2>3
<1>3. PICK h : h = Turns(of, none, h)
  BY TurnsExist
<1>4. f = Turns(of, none, f)
  <2>1. h = F(h)
    <3> HIDE DEF F, of, none
    <3> QED BY <1>2, <1>3
  <2>2. f = F(f)
    <3> HIDE DEF F
    <3> QED BY <2>1
  <2> HIDE DEF F, of, f, none
  <2> QED BY <1>2, <2>2
<1>5. f = Grammar(dialect, text)
  BY DEF Grammar
<1>51. IsText(dialect, text) <=> f[dialect.limit + 1 - dialect.start][<<1, Len(text) + 1>>]
  BY DEF IsText
<1> HIDE DEF of, f
<1>6. f[0] = none /\ \A n \in Nat : f[n + 1] = Turn(of, f[n])
  <2> HIDE DEF none
  <2> QED BY <1>4, TurnsAre
<1>7. \A from, to \in Nat : ~f[0][<<from, to>>]
  BY <1>6
<1> HIDE DEF none
<1>8. ASSUME NEW n \in Nat, NEW from \in Nat, NEW to \in Nat
      PROVE  f[n + 1][<<from, to>>] <=> IsNested(dialect, text, f[n], from, to)
  <2> DEFINE part == <<from, to>>
  <2>1. part \in Nat \X Nat /\ part[1] = from /\ part[2] = to
    OBVIOUS
  <2> HIDE DEF part
  <2>2. f[n + 1][part] = Is(f[n], part)
    <3> HIDE DEF Is
    <3> QED BY <2>1, <1>1, <1>6
  <2>3. Is(f[n], part) = IsNested(dialect, text, f[n], from, to)
    BY <2>1
  <2> QED BY <2>2, <2>3 DEF part
<1> QED BY ONLY <1>5, <1>51, <1>7, <1>8

(***************************************************************************)
(* White space                                                             *)
(***************************************************************************)
LEMMA TextIs ==
  ASSUME NEW text \in Seq(Tokens)
  PROVE  /\ Len(text) \in Nat /\ DOMAIN text = 1 .. Len(text)
         /\ \A i \in 1 .. Len(text) : text[i] \in Tokens /\ At(text, i) = text[i]
         /\ At(text, Len(text) + 1) = "end"
         /\ \A i \in Places(text) : At(text, i) # "end" => i \in 1 .. Len(text)
<1>1. Len(text) \in Nat /\ DOMAIN text = 1 .. Len(text) /\ \A i \in 1 .. Len(text) : text[i] \in Tokens
  BY SeqIs
<1>2. \A i \in 1 .. Len(text) : At(text, i) = text[i]
  BY <1>1 DEF At
<1>3. At(text, Len(text) + 1) = "end"
  BY <1>1 DEF At
<1>4. ASSUME NEW i \in Places(text), At(text, i) # "end" PROVE i \in 1 .. Len(text)
  BY <1>1, <1>3, <1>4 DEF Places
<1> QED BY <1>1, <1>2, <1>3, <1>4

\* The tokens of each kind are told apart.
LEMMA TokensAre ==
  /\ "end" \notin Tokens /\ Atoms \cap Whitespace = {}
  /\ \A k \in Opening : k \in Tokens /\ k \notin Atoms /\ k \notin Whitespace
  /\ \A mark \in {"}", "]", ":", ","} :
       mark \in Tokens /\ mark \notin Atoms /\ mark \notin Whitespace /\ mark \notin Opening
  /\ Strings \subseteq Atoms
  /\ \A k : Closing(k) \in {"}", "]"}
BY AtomsAreNoMarks DEF Tokens, Whitespace, Opening, Closing, Atoms

\* White space is skipped up to the next token.
LEMMA SkipIs ==
  ASSUME NEW text \in Seq(Tokens), NEW from \in Places(text)
  PROVE  /\ SkipWhitespace(text, from) \in from .. Len(text) + 1
         /\ SkipWhitespace(text, from) \in Places(text)
         /\ Ink(text, from, SkipWhitespace(text, from)) = {}
         /\ SkipWhitespace(text, from) \in 1 .. Len(text) => text[SkipWhitespace(text, from)] \notin Whitespace
<1> DEFINE end == Len(text) + 1
           S == {i \in from .. Len(text) : text[i] \notin Whitespace}
           m == Min(S \cup {end})
<1>1. SkipWhitespace(text, from) = m
  BY DEF SkipWhitespace
<1>2. from \in Nat /\ end \in Nat /\ from <= end /\ 1 <= from /\ Len(text) \in Nat
  BY TextIs DEF Places
<1>3. S \in SUBSET (from .. end - 1)
  BY <1>2
<1>4. m \in from .. end /\ (\A i \in S : m <= i) /\ (m < end => m \in S)
  <2> HIDE DEF S, end
  <2> QED BY <1>2, <1>3, FirstPlace
<1> HIDE DEF m
<1>5. Ink(text, from, m) = {}
  BY <1>2, <1>4 DEF Ink
<1>6. m \in 1 .. Len(text) => text[m] \notin Whitespace
  BY <1>2, <1>4
<1>7. m \in Places(text)
  BY <1>2, <1>4 DEF Places
<1> QED BY <1>1, <1>4, <1>5, <1>6, <1>7

\* There is one such place.
LEMMA SkipOnly ==
  ASSUME NEW text \in Seq(Tokens), NEW from \in Places(text), NEW at \in from .. Len(text) + 1,
         Ink(text, from, at) = {}, at \in 1 .. Len(text) => text[at] \notin Whitespace
  PROVE  SkipWhitespace(text, from) = at
<1> DEFINE m == SkipWhitespace(text, from)
<1>1. m \in from .. Len(text) + 1 /\ Ink(text, from, m) = {} /\ (m \in 1 .. Len(text) => text[m] \notin Whitespace)
  BY SkipIs
<1>2. Len(text) \in Nat /\ from \in Nat /\ 1 <= from
  BY TextIs DEF Places
<1> HIDE DEF m
<1>3. ~(m < at)
  BY <1>1, <1>2 DEF Ink
<1>4. ~(at < m)
  BY <1>1, <1>2 DEF Ink
<1>5. m = at
  BY <1>1, <1>2, <1>3, <1>4
<1> QED BY <1>5 DEF m

\* Parts without a token.
LEMMA NoInk ==
  ASSUME NEW text, NEW a \in Nat, NEW b \in Nat, NEW c \in Nat, a <= b, b <= c
  PROVE  /\ Ink(text, a, c) = Ink(text, a, b) \cup Ink(text, b, c)
         /\ Ink(text, a, a) = {}
BY DEF Ink

\* A token and what is around it.
LEMMA OneInk ==
  ASSUME NEW text, NEW a \in Nat, NEW i \in Nat, NEW c \in Nat, a <= i, i < c
  PROVE  Ink(text, a, c) = {i} <=>
           Ink(text, a, i) = {} /\ Ink(text, i + 1, c) = {} /\ text[i] \notin Whitespace
BY DEF Ink

(***************************************************************************)
(* Copies of the reader                                                    *)
(***************************************************************************)
\* What the copies have in common.
IsDialect(dialect) ==
  /\ dialect.limit \in Nat /\ dialect.limit < Levels
  /\ dialect.start \in Nat /\ dialect.start <= dialect.limit + 1
  /\ dialect.strings \subseteq Strings /\ dialect.numbers \subseteq Numbers
  /\ \A string \in Strings : string \in dialect.strings <=> DecodedString[string] \in dialect.strings

\* The copies, and what the installer writes, are such dialects.
LEMMA Dialects ==
  IsDialect(SDK) /\ IsDialect(Verifier) /\ IsDialect(Installer) /\ IsDialect(InstallerWrites)
<1>1. /\ SDKDepth \in Nat /\ VerifierDepth \in Nat /\ InstallerDepth \in Nat /\ Levels \in Nat
      /\ InstallerDepth <= SDKDepth /\ SDKDepth < Levels /\ VerifierDepth < Levels
  BY JSONAssumption
<1>0. 0 \in Nat /\ 1 \in Nat /\ \A n \in Nat : 0 <= n + 1 /\ 1 <= n + 1
  OBVIOUS
<1>2. InstallerDepth < Levels
  BY <1>1
<1>3. \A string \in Strings : DecodedString[string] \in Strings
      /\ (string \in Unpaired <=> DecodedString[string] \in Unpaired)
      /\ (string \in NonASCII <=> DecodedString[string] \in NonASCII)
  BY JSONAssumption
<1>4. WholeNumbers \subseteq Numbers
  BY DEF Numbers
<1>5. IsDialect(SDK)
  BY <1>0, <1>1, <1>3 DEF IsDialect, SDK
<1>6. IsDialect(Verifier)
  BY <1>0, <1>1, <1>3 DEF IsDialect, Verifier
<1>7. IsDialect(Installer)
  BY <1>0, <1>1, <1>2, <1>3, <1>4 DEF IsDialect, Installer
<1>8. InstallerWrites.limit = Installer.limit /\ InstallerWrites.start = Installer.start
      /\ InstallerWrites.strings = Strings \ NonASCII /\ InstallerWrites.numbers = Installer.numbers
  BY DEF InstallerWrites, Installer
<1>9. IsDialect(InstallerWrites)
  BY <1>3, <1>7, <1>8 DEF IsDialect
<1> QED BY <1>5, <1>6, <1>7, <1>9

\* A copy reads a token when it reads its plain spelling.
LEMMA DialectAtoms ==
  ASSUME NEW dialect, IsDialect(dialect)
  PROVE  /\ AtomsOf(dialect) \subseteq Atoms
         /\ \A token \in Atoms : token \in AtomsOf(dialect) <=> PlainToken(token) \in AtomsOf(dialect)
         /\ \A string \in dialect.strings : string \in Strings /\ string \in Atoms
              /\ DecodedString[string] \in PlainStrings /\ DecodedString[string] \in dialect.strings
              /\ PlainToken(string) = DecodedString[string]
<1>1. DecodedString \in [Strings -> Strings] /\ Strings \cap (Literals \cup Numbers) = {}
  BY JSONAssumption
<1>2. dialect.strings \subseteq Strings /\ dialect.numbers \subseteq Numbers
      /\ \A string \in Strings : string \in dialect.strings <=> DecodedString[string] \in dialect.strings
  BY DEF IsDialect
<1>3. AtomsOf(dialect) \subseteq Atoms
  BY <1>2 DEF AtomsOf, Atoms
<1>4. \A token \in Atoms : token \in AtomsOf(dialect) <=> PlainToken(token) \in AtomsOf(dialect)
  BY <1>1, <1>2 DEF AtomsOf, Atoms, PlainToken
<1>5. \A string \in dialect.strings : string \in Strings /\ string \in Atoms
              /\ DecodedString[string] \in PlainStrings /\ DecodedString[string] \in dialect.strings
              /\ PlainToken(string) = DecodedString[string]
  BY <1>1, <1>2 DEF Atoms, PlainStrings, PlainToken
<1> QED BY <1>3, <1>4, <1>5

(***************************************************************************)
(* Parts that spell a value                                                *)
(***************************************************************************)
\* A part and white space around it.
LEMMA SpellsPad ==
  ASSUME NEW text \in Seq(Tokens), NEW v \in Values,
         NEW a \in Places(text), NEW b \in Places(text), NEW c \in Places(text), NEW d \in Places(text),
         a <= b, b <= c, c <= d, Ink(text, a, b) = {}, Ink(text, c, d) = {}
  PROVE  Spells(text, a, d, v) <=> Spells(text, b, c, v)
<1>0. Len(text) \in Nat
  BY TextIs
<1>1. CASE v.kind \notin Opening
  <2>1. Ink(text, a, d) = Ink(text, b, c)
    BY <1>0 DEF Ink, Places
  <2>2. Spells(text, a, d, v) <=>
           \E i \in 1 .. Len(text) :
             Ink(text, a, d) = {i} /\ text[i] \in Atoms /\ v = Leaf(PlainToken(text[i]))
    BY <1>1, SpellsLeaf
  <2>3. Spells(text, b, c, v) <=>
           \E i \in 1 .. Len(text) :
             Ink(text, b, c) = {i} /\ text[i] \in Atoms /\ v = Leaf(PlainToken(text[i]))
    BY <1>1, SpellsLeaf
  <2> QED BY <2>1, <2>2, <2>3
<1>2. CASE v.kind \in Opening
  <2>1. ASSUME NEW first \in 1 .. Len(text), NEW last \in 1 .. Len(text)
        PROVE  IsBracketed(text, a, d, v.kind, first, last) <=> IsBracketed(text, b, c, v.kind, first, last)
    <3>1. v.kind \notin Whitespace /\ Closing(v.kind) \notin Whitespace
      BY <1>2 DEF Opening, Closing, Whitespace
    <3>2. ASSUME IsBracketed(text, a, d, v.kind, first, last) PROVE IsBracketed(text, b, c, v.kind, first, last)
      <4>1. a <= first /\ first < last /\ last < d /\ text[first] \notin Whitespace /\ text[last] \notin Whitespace
        BY <3>1, <3>2 DEF IsBracketed
      <4>2. b <= first /\ last < c
        <5>1. ~(first < b)
          BY <4>1, <1>0 DEF Ink, Places
        <5>2. ~(c <= last)
          BY <4>1, <1>0 DEF Ink, Places
        <5> QED BY <5>1, <5>2, <1>0 DEF Places
      <4>3. Ink(text, b, first) \subseteq Ink(text, a, first) /\ Ink(text, last + 1, c) \subseteq Ink(text, last + 1, d)
        BY <1>0 DEF Ink, Places
      <4> QED BY <3>2, <4>1, <4>2, <4>3 DEF IsBracketed
    <3>3. ASSUME IsBracketed(text, b, c, v.kind, first, last) PROVE IsBracketed(text, a, d, v.kind, first, last)
      <4>1. b <= first /\ first < last /\ last < c
        BY <3>3 DEF IsBracketed
      <4>2. a <= first /\ last < d
        BY <4>1, <1>0 DEF Places
      <4>3. Ink(text, a, first) = Ink(text, a, b) \cup Ink(text, b, first)
            /\ Ink(text, last + 1, d) = Ink(text, last + 1, c) \cup Ink(text, c, d)
        BY <4>1, <1>0 DEF Ink, Places
      <4> QED BY <3>3, <4>1, <4>2, <4>3 DEF IsBracketed
    <3> QED BY <3>2, <3>3
  <2> DEFINE Inside(first, last) ==
               IF v.items = <<>> THEN Ink(text, first + 1, last) = {}
               ELSE \E marks : /\ Rowed(text, Spelled(text), v.kind, v.names, v.items, marks)
                               /\ marks[1] = first /\ marks[Len(marks)] = last
  <2>2. Spells(text, a, d, v) <=> \E first, last \in 1 .. Len(text) :
                                    IsBracketed(text, a, d, v.kind, first, last) /\ Inside(first, last)
    BY ZenonT(60), <1>2, SpellsNest
  <2>3. Spells(text, b, c, v) <=> \E first, last \in 1 .. Len(text) :
                                    IsBracketed(text, b, c, v.kind, first, last) /\ Inside(first, last)
    BY ZenonT(60), <1>2, SpellsNest
  <2> HIDE DEF Inside
  <2> QED BY <2>1, <2>2, <2>3
<1> QED BY <1>1, <1>2

\* A part that spells a value begins with an atom or a bracket, after white space.
LEMMA SpellsStart ==
  ASSUME NEW text \in Seq(Tokens), NEW v \in Values,
         NEW from \in Places(text), NEW to \in Places(text), Spells(text, from, to, v)
  PROVE  \E i \in 1 .. Len(text) :
           from <= i /\ i < to /\ Ink(text, from, i) = {} /\ text[i] \in Atoms \cup Opening
<1>0. Len(text) \in Nat
  BY TextIs
<1>1. CASE v.kind \notin Opening
  <2>1. PICK i \in 1 .. Len(text) : Ink(text, from, to) = {i} /\ text[i] \in Atoms
    BY <1>1, SpellsLeaf
  <2>2. from <= i /\ i < to
    BY <2>1, <1>0 DEF Ink, Places
  <2>3. Ink(text, from, i) = {}
    BY <2>1, <2>2, <1>0, OneInk DEF Places
  <2> QED BY <2>1, <2>2, <2>3
<1>2. CASE v.kind \in Opening
  <2>1. PICK first \in 1 .. Len(text), last \in 1 .. Len(text) : IsBracketed(text, from, to, v.kind, first, last)
    BY <1>2, SpellsNest
  <2>2. from <= first /\ first < to /\ Ink(text, from, first) = {} /\ text[first] \in Opening
    BY <2>1, <1>0, <1>2 DEF IsBracketed, Places
  <2> QED BY <2>2
<1> QED BY <1>1, <1>2

\* The name of a part of an object is its first token.
LEMMA NameIs ==
  ASSUME NEW text \in Seq(Tokens), NEW from \in Places(text), NEW name \in from .. Len(text),
         Ink(text, from, name) = {}, text[name] \notin Whitespace
  PROVE  NameOf(text, from) = DecodedString[text[name]]
<1> DEFINE S == Ink(text, from, Len(text) + 1)
           m == Min(S)
<1>0. Len(text) \in Nat /\ from \in Nat /\ 1 <= from
  BY TextIs DEF Places
<1>1. name \in S /\ S \in SUBSET Nat
  BY <1>0 DEF Ink
<1>2. m \in S /\ \A i \in S : m <= i
  <2> HIDE DEF S
  <2> QED BY <1>1, MinIsLeast
<1> HIDE DEF m
<1>3. ~(m < name)
  BY <1>2, <1>0 DEF Ink
<1>4. m = name
  BY <1>1, <1>2, <1>3, <1>0 DEF Ink
<1> QED BY <1>4 DEF NameOf, m

\* A sequence and one more element.
LEMMA AppendIs ==
  ASSUME NEW S, NEW s \in Seq(S), NEW x \in S, NEW n, n = Len(s)
  PROVE  /\ Append(s, x) \in Seq(S) /\ n \in Nat /\ Len(Append(s, x)) = n + 1
         /\ Append(s, x)[n + 1] = x /\ \A i \in 1 .. n : Append(s, x)[i] = s[i]
<1>1. Append(s, x) \in Seq(S) /\ Len(Append(s, x)) = Len(s) + 1
      /\ (\A i \in 1 .. Len(s) : Append(s, x)[i] = s[i]) /\ Append(s, x)[Len(s) + 1] = x
  BY AppendProperties
<1>2. Len(s) \in Nat
  OBVIOUS
<1> QED BY <1>1, <1>2

\* What comes behind the mark of an item, up to the next mark.
ItemFollows(text, f, k, n, mark, next, name, v) ==
  /\ mark < next
  /\ n # 0 => text[mark] = ","
  /\ k = "{" => name = NameOf(text, mark + 1)
  /\ \E start \in ValueStarts(Strings, text, k, mark + 1, next) : <<start, next>> \in f[v]

\* The items of an object have names.
AreNamed(k, names, n) == k = "{" => Len(names) = n

\* The names of one more item.
NewNames(k, names, name) == IF k = "{" THEN Append(names, name) ELSE names

\* An item and its name may be added.
Grows(text, f, k, names, items, marks, S, R, v, name, n, next) ==
  /\ v \in S /\ items \in Seq(S) /\ name \in R /\ names \in Seq(R)
  /\ n \in Nat /\ n = Len(items) /\ AreNamed(k, names, n)
  /\ Rowed(text, f, k, names, items, marks) /\ next \in 1 .. Len(text)
  /\ ItemFollows(text, f, k, n, marks[n + 1], next, name, v)

Grown(text, f, k, names, items, marks, v, name, n, next) ==
  /\ Rowed(text, f, k, NewNames(k, names, name), Append(items, v), Append(marks, next))
  /\ Append(marks, next)[1] = marks[1] /\ Append(marks, next)[n + 2] = next

\* One more item, up to the next mark.
LEMMA RowedMore ==
  ASSUME NEW text, NEW f, NEW k, NEW names, NEW items, NEW marks, NEW S, NEW R, NEW v, NEW name, NEW n, NEW next,
         Grows(text, f, k, names, items, marks, S, R, v, name, n, next)
  PROVE  Grown(text, f, k, names, items, marks, v, name, n, next)
<1>g. /\ v \in S /\ items \in Seq(S) /\ name \in R /\ names \in Seq(R)
      /\ n \in Nat /\ n = Len(items) /\ AreNamed(k, names, n)
      /\ Rowed(text, f, k, names, items, marks) /\ next \in 1 .. Len(text)
      /\ ItemFollows(text, f, k, n, marks[n + 1], next, name, v)
  BY DEF Grows
<1> DEFINE names1 == NewNames(k, names, name)
           items1 == Append(items, v)
           marks1 == Append(marks, next)
           m == n + 1
<1>0. m \in Nat /\ m = n + 1 /\ m + 1 = n + 2 /\ 1 \in 1 .. m
      /\ \A i \in 1 .. m : i = m \/ (i \in 1 .. n /\ i \in 1 .. m /\ i + 1 \in 1 .. m)
  BY <1>g
<1> HIDE DEF m
<1>1. marks \in Seq(1 .. Len(text)) /\ m = Len(marks)
  BY <1>0, <1>g DEF Rowed
<1>2. marks1 \in Seq(1 .. Len(text)) /\ Len(marks1) = m + 1 /\ marks1[m + 1] = next
      /\ \A i \in 1 .. m : marks1[i] = marks[i]
  BY <1>1, <1>g, AppendIs
<1>3. items1 \in Seq(S) /\ Len(items1) = m /\ items1[m] = v /\ \A i \in 1 .. n : items1[i] = items[i]
  <2> HIDE DEF items1
  <2>1. items1 \in Seq(S) /\ Len(items1) = n + 1 /\ items1[n + 1] = v /\ \A i \in 1 .. n : items1[i] = items[i]
    BY <1>g, AppendIs DEF items1
  <2> QED BY <2>1, <1>0
<1>b. name \in R /\ names \in Seq(R)
  BY <1>g
<1>a. ASSUME n = Len(names)
      PROVE  Append(names, name)[m] = name /\ \A i \in 1 .. n : Append(names, name)[i] = names[i]
  <2>1. Append(names, name)[n + 1] = name /\ \A i \in 1 .. n : Append(names, name)[i] = names[i]
    BY <1>a, <1>b, AppendIs
  <2> QED BY <2>1, <1>0
<1>4. k = "{" => names1[m] = name /\ \A i \in 1 .. n : names1[i] = names[i]
  <2>1. k = "{" => n = Len(names)
    BY <1>g DEF AreNamed
  <2>2. k = "{" => names1 = Append(names, name)
    BY DEF NewNames
  <2> HIDE DEF names1
  <2> QED BY <2>1, <2>2, <1>a
<1> HIDE DEF names1, items1, marks1
<1>5. ASSUME NEW i \in 1 .. m
      PROVE  /\ marks1[i] < marks1[i + 1]
             /\ i # 1 => text[marks1[i]] = ","
             /\ k = "{" => names1[i] = NameOf(text, marks1[i] + 1)
             /\ \E start \in ValueStarts(Strings, text, k, marks1[i] + 1, marks1[i + 1]) :
                  <<start, marks1[i + 1]>> \in f[items1[i]]
  <2>1. CASE i = m
    <3>1. marks1[i] = marks[n + 1] /\ marks1[i + 1] = next /\ items1[i] = v
      BY <2>1, <1>0, <1>2, <1>3
    <3>3. i # 1 => n # 0
      BY <2>1, <1>0
    <3>2. k = "{" => names1[i] = name
      BY <2>1, <1>4
    <3> QED BY <3>1, <3>2, <3>3, <1>g DEF ItemFollows
  <2>2. CASE i # m
    <3>1. i \in 1 .. n /\ i + 1 \in 1 .. m
      BY <2>2, <1>0
    <3>2. marks1[i] = marks[i] /\ marks1[i + 1] = marks[i + 1] /\ items1[i] = items[i]
      BY <3>1, <1>2, <1>3
    <3>3. k = "{" => names1[i] = names[i]
      BY <3>1, <1>4
    <3> QED BY <3>1, <3>2, <3>3, <1>g DEF Rowed
  <2> QED BY <2>1, <2>2
<1>6. marks1[1] = marks[1] /\ marks1[n + 2] = next
  BY <1>0, <1>2
<1>7. Len(marks1) = Len(items1) + 1
  BY <1>2, <1>3
<1>8. Rowed(text, f, k, names1, items1, marks1)
  BY <1>2, <1>3, <1>5, <1>7 DEF Rowed
<1> QED BY <1>6, <1>8 DEF names1, items1, marks1, Grown

(***************************************************************************)
(* What the parser reads is spelled where it reads it                      *)
(***************************************************************************)
\* What is read of a part, so many levels deep.
IsRead(dialect, text, n, from, to, v) ==
  /\ to \in Places(text) /\ v \in ValuesOf[n] /\ Spells(text, from, to, v)
  /\ Allowed(dialect, v, dialect.limit + 1 - n)

\* A reader of values that are nested so deep is sound.
IsSound(dialect, text, n, inner) ==
  \A from \in Places(text) :
    inner[from].offset # 0 => IsRead(dialect, text, n, from, inner[from].offset, inner[from].value)

\* An object has a name for every item, a list has none.
NamesFit(k, names, n) ==
  /\ AreNamed(k, names, n)
  /\ k = "{" => IsInjective(names)
  /\ k = "[" => names = <<>>

KnownNames(dialect) == PlainStrings \cap dialect.strings
ItemStates(dialect, n) ==
  [offset : Nat, names : Seq(KnownNames(dialect)), items : Seq(ValuesOf[n]), status : {"open", "closed", "failed"}]

\* The last mark of an object or a list that is read, or of what has been read of it.
EndsWith(text, k, state, mark) ==
  IF state.status = "open"
  THEN /\ state.offset \in Places(text) /\ mark < state.offset
       /\ Ink(text, mark + 1, state.offset) = {}
       /\ state.items # <<>> => text[mark] = ","
  ELSE state.items # <<>> /\ text[mark] = Closing(k) /\ state.offset = mark + 1

\* What has been read of an object or a list behind its opening bracket.
ReadSoFar(dialect, text, n, k, first, state) ==
  /\ state \in ItemStates(dialect, n) /\ state.status # "failed"
  /\ NamesFit(k, state.names, Len(state.items))
  /\ \A i \in 1 .. Len(state.items) : Allowed(dialect, state.items[i], dialect.limit + 1 - n)
  /\ \E marks : /\ Rowed(text, Spelled(text), k, state.names, state.items, marks)
                /\ marks[1] = first /\ EndsWith(text, k, state, marks[Len(state.items) + 1])

\* Where a round of the parser looks for the name of an item and for the colon.
NameAt(text, state) == SkipWhitespace(text, state.offset)
ColonAt(text, state) == SkipWhitespace(text, NameAt(text, state) + 1)

\* In an object the parser finds names and values where the grammar does.
LEMMA NamedPart ==
  ASSUME NEW dialect, IsDialect(dialect), NEW text \in Seq(Tokens), NEW state, NEW mark \in 1 .. Len(text),
         state.offset \in Places(text), mark < state.offset, Ink(text, mark + 1, state.offset) = {},
         IsNamed(dialect, text, state)
  PROVE  /\ NameAt(text, state) \in 1 .. Len(text) /\ ColonAt(text, state) \in 1 .. Len(text)
         /\ mark < NameAt(text, state) /\ NameAt(text, state) < ColonAt(text, state)
         /\ At(text, NameAt(text, state)) = text[NameAt(text, state)]
         /\ text[NameAt(text, state)] \in dialect.strings
         /\ ~Contains(state.names, DecodedString[text[NameAt(text, state)]])
         /\ NameOf(text, mark + 1) = DecodedString[text[NameAt(text, state)]]
         /\ \A to \in Places(text) : ColonAt(text, state) < to =>
              ColonAt(text, state) + 1 \in ValueStarts(Strings, text, "{", mark + 1, to)
<1> DEFINE name == NameAt(text, state)
           colon == ColonAt(text, state)
<1>a. name = SkipWhitespace(text, state.offset) /\ colon = SkipWhitespace(text, name + 1)
  BY DEF NameAt, ColonAt
<1> HIDE DEF name, colon
<1>0. Len(text) \in Nat
  BY TextIs
<1>1. At(text, name) \in dialect.strings /\ At(text, colon) = ":"
      /\ ~Contains(state.names, DecodedString[At(text, name)])
  BY <1>a DEF IsNamed
<1>2. name \in state.offset .. Len(text) + 1 /\ name \in Places(text) /\ Ink(text, state.offset, name) = {}
  BY <1>a, SkipIs
<1>3. At(text, name) \in Atoms /\ At(text, name) \in Strings
  BY <1>1, DialectAtoms
<1>4. name \in 1 .. Len(text) /\ text[name] = At(text, name) /\ text[name] \notin Whitespace
  <2>1. At(text, name) # "end" /\ At(text, name) \notin Whitespace
    BY <1>3, TokensAre DEF Tokens
  <2> QED BY <2>1, <1>2, TextIs
<1>5. name + 1 \in Places(text)
  BY <1>0, <1>4 DEF Places
<1>6. colon \in name + 1 .. Len(text) + 1 /\ colon \in Places(text) /\ Ink(text, name + 1, colon) = {}
  BY <1>a, <1>5, SkipIs
<1>7. colon \in 1 .. Len(text) /\ text[colon] = ":"
  BY <1>1, <1>6, TextIs
<1>8. mark < name /\ name < colon /\ mark + 1 \in Places(text) /\ mark + 1 <= state.offset /\ state.offset <= name
  BY <1>0, <1>2, <1>6 DEF Places
<1>9. Ink(text, mark + 1, name) = {}
  <2>1. mark + 1 \in Nat /\ state.offset \in Nat /\ name \in Nat
    BY <1>0, <1>8, <1>2 DEF Places
  <2> DEFINE a == mark + 1
             b == state.offset
  <2>3. a \in Nat /\ b \in Nat /\ a <= b /\ b <= name
    BY <1>8, <2>1
  <2> HIDE DEF a, b
  <2>4. Ink(text, a, name) = Ink(text, a, b) \cup Ink(text, b, name)
    BY <2>1, <2>3 DEF Ink
  <2>2. Ink(text, mark + 1, name) = Ink(text, mark + 1, state.offset) \cup Ink(text, state.offset, name)
    BY <2>4 DEF a, b
  <2> QED BY <2>2, <1>2
<1>10. Ink(text, mark + 1, colon) = {name}
  <2>1. mark + 1 \in Nat /\ name \in Nat /\ colon \in Nat /\ mark + 1 <= name
    BY <1>8, <1>0, <1>4, <1>7
  <2> DEFINE a == mark + 1
  <2>2. a \in Nat /\ a <= name /\ Ink(text, a, name) = {}
    BY <2>1, <1>9
  <2> HIDE DEF a
  <2>3. Ink(text, a, colon) = {name}
    BY <2>1, <2>2, <1>4, <1>6, <1>8, OneInk
  <2> QED BY <2>3 DEF a
<1>11. NameOf(text, mark + 1) = DecodedString[text[name]]
  <2>1. name \in mark + 1 .. Len(text)
    BY <1>0, <1>4, <1>8
  <2> QED BY <2>1, <1>4, <1>8, <1>9, NameIs
<1>12. ASSUME NEW to \in Places(text), colon < to PROVE colon + 1 \in ValueStarts(Strings, text, "{", mark + 1, to)
  <2>1. colon \in mark + 1 .. to - 1 /\ name \in mark + 1 .. colon - 1
    BY <1>0, <1>4, <1>7, <1>8, <1>12 DEF Places
  <2>2. text[name] \in Strings
    BY <1>3, <1>4
  <2>3. colon \in {c \in mark + 1 .. to - 1 :
          text[c] = ":" /\ \E i \in mark + 1 .. c - 1 : Ink(text, mark + 1, c) = {i} /\ text[i] \in Strings}
    BY <2>1, <2>2, <1>7, <1>10
  <2> QED BY <2>3 DEF ValueStarts
<1> QED BY <1>1, <1>4, <1>7, <1>8, <1>11, <1>12 DEF name, colon

\* A new name keeps names apart.
LEMMA NewName ==
  ASSUME NEW R, NEW names \in Seq(R), NEW name \in R, IsInjective(names), ~Contains(names, name)
  PROVE  IsInjective(Append(names, name))
<1> DEFINE n == Len(names)
           more == Append(names, name)
<1>1. more \in Seq(R) /\ n \in Nat /\ Len(more) = n + 1 /\ more[n + 1] = name /\ \A i \in 1 .. n : more[i] = names[i]
  BY AppendIs
<1>2. DOMAIN more = 1 .. n + 1 /\ DOMAIN names = 1 .. n
  BY <1>1, SeqIs
<1> HIDE DEF more
<1>3. \A i \in 1 .. n : names[i] # name
  BY DEF Contains
<1> HIDE DEF n
<1>4. \A i \in 1 .. n + 1 : i \in 1 .. n \/ i = n + 1
  BY <1>1
<1>5. \A i, j \in 1 .. n : names[i] = names[j] => i = j
  BY <1>2 DEF IsInjective
<1>6. \A i, j \in 1 .. n + 1 : more[i] = more[j] => i = j
  BY <1>1, <1>3, <1>4, <1>5
<1> QED BY <1>2, <1>6 DEF IsInjective, more

\* The places a round of the parser looks at, and the name it finds.
StartAt(text, k, state) ==
  IF k = "{" THEN ColonAt(text, state) + 1 ELSE state.offset
NextAt(text, k, inner, state) == SkipWhitespace(text, inner[StartAt(text, k, state)].offset)
Continues(dialect, text, k, inner, state) ==
  /\ k = "{" => IsNamed(dialect, text, state)
  /\ inner[StartAt(text, k, state)].offset # 0
  /\ At(text, NextAt(text, k, inner, state)) \in {Closing(k), ","}
StateWith(offset, names, items, status) ==
  [offset |-> offset, names |-> names, items |-> items, status |-> status]

\* A round of the parser that does not fail: it finds one more item.
LEMMA ParseItemIs ==
  ASSUME NEW dialect, NEW text, NEW k, NEW inner, NEW N, NEW I, NEW state,
         state \in [offset : Nat, names : N, items : I, status : {"open", "closed", "failed"}],
         state.status = "open"
  PROVE  /\ Continues(dialect, text, k, inner, state) =>
              ParseItem(dialect, text, k, inner, state) =
                StateWith(NextAt(text, k, inner, state) + 1,
                          NewNames(k, state.names, DecodedString[At(text, NameAt(text, state))]),
                          Append(state.items, inner[StartAt(text, k, state)].value),
                          IF At(text, NextAt(text, k, inner, state)) = Closing(k) THEN "closed" ELSE "open")
         /\ ~Continues(dialect, text, k, inner, state) =>
              ParseItem(dialect, text, k, inner, state).status = "failed"
<1> DEFINE name == NameAt(text, state)
           item == inner[StartAt(text, k, state)]
           next == SkipWhitespace(text, item.offset)
           names1 == NewNames(k, state.names, DecodedString[At(text, name)])
           items1 == Append(state.items, item.value)
           read == [state EXCEPT !.offset = next + 1, !.items = Append(@, item.value),
                      !.names = IF k = "{" THEN Append(@, DecodedString[At(text, name)]) ELSE @]
           closed == [read EXCEPT !.status = "closed"]
<1>1. names1 = IF k = "{" THEN Append(state.names, DecodedString[At(text, name)]) ELSE state.names
  BY DEF NewNames
<1>2. read = [state EXCEPT !.offset = next + 1, !.items = items1, !.names = names1]
  <2> HIDE DEF name, item, next, names1
  <2> QED BY <1>1
<1> HIDE DEF name, item, next, names1, items1, read
<1>3. read = StateWith(next + 1, names1, items1, "open")
  BY <1>2 DEF StateWith
<1>4. closed = StateWith(next + 1, names1, items1, "closed")
  BY <1>3 DEF StateWith
<1> HIDE DEF closed
<1>5. Fail(state).status = "failed"
  BY DEF Fail
<1>6. ParseItem(dialect, text, k, inner, state) =
        IF (k = "{" /\ ~IsNamed(dialect, text, state)) \/ item.offset = 0 THEN Fail(state)
        ELSE CASE At(text, next) = Closing(k) -> closed
               [] At(text, next) = "," -> read
               [] OTHER -> Fail(state)
  BY DEF ParseItem, closed, read, item, next, name, items1, names1, NewNames, StartAt, NameAt, ColonAt
<1>7. NextAt(text, k, inner, state) = next
  BY DEF NextAt, next, item
<1>8. Closing(k) # ","
  BY DEF Closing
<1> DEFINE Goes == Continues(dialect, text, k, inner, state)
<1>9. Goes <=> /\ k = "{" => IsNamed(dialect, text, state)
               /\ item.offset # 0
               /\ At(text, next) = Closing(k) \/ At(text, next) = ","
  BY <1>7 DEF Continues, item
<1> HIDE DEF Goes
<1>10. Goes => ParseItem(dialect, text, k, inner, state)
                 = IF At(text, next) = Closing(k) THEN closed ELSE read
  BY <1>6, <1>8, <1>9
<1>11. ~Goes => ParseItem(dialect, text, k, inner, state).status = "failed"
  BY <1>5, <1>6, <1>9
<1>12. ParseItem(dialect, text, k, inner, state) = (IF At(text, next) = Closing(k) THEN closed ELSE read) =>
         ParseItem(dialect, text, k, inner, state)
           = StateWith(next + 1, names1, items1, IF At(text, next) = Closing(k) THEN "closed" ELSE "open")
  BY <1>3, <1>4
<1> QED BY <1>7, <1>10, <1>11, <1>12 DEF Goes, names1, items1, item, name

\* What the parser has found in front of the next item, by the name of which a part
\* of the text begins.
Finds(dialect, text, k, state, mark) ==
  k = "{" => /\ DecodedString[At(text, NameAt(text, state))] = NameOf(text, mark + 1)
             /\ ~Contains(state.names, DecodedString[At(text, NameAt(text, state))])
             /\ DecodedString[At(text, NameAt(text, state))] \in KnownNames(dialect)

\* The item of a round stands behind its mark: at once in a list, behind the name
\* and the colon in an object.
LEMMA ItemStart ==
  ASSUME NEW dialect, IsDialect(dialect), NEW text \in Seq(Tokens), NEW k \in Opening, NEW state,
         NEW mark \in 1 .. Len(text),
         state.offset \in Places(text), mark < state.offset, Ink(text, mark + 1, state.offset) = {},
         NEW inner, Continues(dialect, text, k, inner, state)
  PROVE  /\ StartAt(text, k, state) \in Places(text) /\ mark < StartAt(text, k, state)
         /\ Finds(dialect, text, k, state, mark)
         /\ \A v \in Values : \A to \in Places(text) :
              StartAt(text, k, state) < to /\ Spells(text, StartAt(text, k, state), to, v) =>
                \E st \in ValueStarts(Strings, text, k, mark + 1, to) : <<st, to>> \in Spelled(text)[v]
<1>0. Len(text) \in Nat
  BY TextIs
<1>1. CASE k = "{"
  <2> DEFINE name == NameAt(text, state)
             colon == ColonAt(text, state)
  <2>1. IsNamed(dialect, text, state)
    BY <1>1 DEF Continues
  <2>3. /\ name \in 1 .. Len(text) /\ colon \in 1 .. Len(text) /\ mark < name /\ name < colon
        /\ At(text, name) = text[name] /\ text[name] \in dialect.strings
        /\ ~Contains(state.names, DecodedString[text[name]])
        /\ NameOf(text, mark + 1) = DecodedString[text[name]]
        /\ \A to \in Places(text) : colon < to => colon + 1 \in ValueStarts(Strings, text, "{", mark + 1, to)
    BY ZenonT(60), <2>1, NamedPart
  <2>4. StartAt(text, k, state) = colon + 1
    BY <1>1 DEF StartAt
  <2>5. Finds(dialect, text, k, state, mark)
    <3>1. DecodedString[text[name]] \in KnownNames(dialect)
      BY <2>3, DialectAtoms DEF KnownNames
    <3> HIDE DEF name, colon
    <3> QED BY <3>1, <2>3 DEF Finds, name
  <2> HIDE DEF name, colon
  <2>a. colon \in 1 .. Len(text) /\ mark < colon
    <3>1. name \in 1 .. Len(text) /\ colon \in 1 .. Len(text) /\ mark < name /\ name < colon
      BY <2>3
    <3> QED BY <3>1, <1>0
  <2>6. colon + 1 \in Places(text) /\ mark < colon + 1
    BY <1>0, <2>a DEF Places
  <2>7. ASSUME NEW v \in Values, NEW to \in Places(text), colon + 1 < to, Spells(text, colon + 1, to, v)
        PROVE  \E st \in ValueStarts(Strings, text, k, mark + 1, to) : <<st, to>> \in Spelled(text)[v]
    <3>1. colon < to
      BY <1>0, <2>a, <2>7 DEF Places
    <3>2. colon + 1 \in ValueStarts(Strings, text, k, mark + 1, to)
      BY <1>1, <2>3, <3>1
    <3> QED BY <2>7, <3>2 DEF Spells
  <2> QED BY <2>4, <2>5, <2>6, <2>7
<1>2. CASE k = "["
  <2> DEFINE start == StartAt(text, k, state)
             st == mark + 1
  <2>1. start = state.offset
    BY <1>2 DEF StartAt
  <2>2. Finds(dialect, text, k, state, mark)
    BY <1>2 DEF Finds
  <2>3. st \in Places(text) /\ st <= start
    BY <1>0, <2>1 DEF Places
  <2>4. ASSUME NEW v \in Values, NEW to \in Places(text), start < to, Spells(text, start, to, v)
        PROVE  \E s \in ValueStarts(Strings, text, k, mark + 1, to) : <<s, to>> \in Spelled(text)[v]
    <3>1. st \in ValueStarts(Strings, text, k, mark + 1, to)
      BY <1>2 DEF ValueStarts
    <3>2. Ink(text, to, to) = {} /\ start <= to /\ to <= to
      BY <1>0, <2>1, <2>4 DEF Ink, Places
    <3>3. Ink(text, st, start) = {}
      BY <2>1
    <3> HIDE DEF st, start
    <3>4. Spells(text, st, to, v)
      BY <2>1, <2>3, <2>4, <3>2, <3>3, SpellsPad
    <3> QED BY <3>1, <3>4 DEF Spells
  <2> QED BY <2>1, <2>2, <2>4
<1> QED BY <1>1, <1>2 DEF Opening

\* What holds of what has been read holds behind one more item.
LEMMA ReadsItem ==
  ASSUME NEW dialect, IsDialect(dialect), NEW text \in Seq(Tokens), NEW n \in Nat, ValuesOf[n] \subseteq Values,
         NEW k \in Opening, NEW inner, IsSound(dialect, text, n, inner), NEW first,
         NEW state, ReadSoFar(dialect, text, n, k, first, state),
         NEW t, t = ParseItem(dialect, text, k, inner, state), t.status # "failed"
  PROVE  ReadSoFar(dialect, text, n, k, first, t)
<1>1. CASE state.status # "open"
  BY <1>1 DEF ParseItem
<1>2. CASE state.status = "open"
  <2> DEFINE start == StartAt(text, k, state)
             item == inner[start]
             next == NextAt(text, k, inner, state)
             nm == DecodedString[At(text, NameAt(text, state))]
             v == item.value
             count == Len(state.items)
             names1 == NewNames(k, state.names, nm)
             items1 == Append(state.items, v)
             status1 == IF At(text, next) = Closing(k) THEN "closed" ELSE "open"
  <2>0. Len(text) \in Nat
    BY TextIs
  <2>1. state \in ItemStates(dialect, n)
    BY DEF ReadSoFar
  <2>2. /\ state \in [offset : Nat, names : Seq(KnownNames(dialect)), items : Seq(ValuesOf[n]),
                       status : {"open", "closed", "failed"}]
        /\ state.items \in Seq(ValuesOf[n]) /\ state.names \in Seq(KnownNames(dialect)) /\ count \in Nat
    BY <2>1 DEF ItemStates
  <2>3. Continues(dialect, text, k, inner, state) /\ t = StateWith(next + 1, names1, items1, status1)
    BY <1>2, <2>2, ParseItemIs
  <2>4. item.offset # 0 /\ At(text, next) \in {Closing(k), ","} /\ next = SkipWhitespace(text, item.offset)
    BY <2>3 DEF Continues, NextAt
  <2>5. t.offset = next + 1 /\ t.names = names1 /\ t.items = items1 /\ t.status = status1
    BY <2>3 DEF StateWith
  <2> HIDE DEF names1, items1, nm, next, status1
  <2>6. PICK marks : /\ Rowed(text, Spelled(text), k, state.names, state.items, marks)
                     /\ marks[1] = first /\ EndsWith(text, k, state, marks[count + 1])
    BY DEF ReadSoFar
  <2> DEFINE mark == marks[count + 1]
  <2>7. mark \in 1 .. Len(text)
    <3>1. marks \in Seq(1 .. Len(text)) /\ Len(marks) = count + 1
      BY <2>6 DEF Rowed
    <3> QED BY <3>1, <2>2
  <2>8. /\ state.offset \in Places(text) /\ mark < state.offset
        /\ Ink(text, mark + 1, state.offset) = {}
        /\ state.items # <<>> => text[mark] = ","
    BY <1>2, <2>6 DEF EndsWith
  <2> HIDE DEF mark
  <2>9. /\ start \in Places(text) /\ mark < start
        /\ Finds(dialect, text, k, state, mark)
        /\ \A w \in Values : \A to \in Places(text) :
              start < to /\ Spells(text, start, to, w) =>
                \E st \in ValueStarts(Strings, text, k, mark + 1, to) : <<st, to>> \in Spelled(text)[w]
    BY <2>3, <2>7, <2>8, ItemStart
  <2> HIDE DEF start
  <2>11. IsRead(dialect, text, n, start, item.offset, v)
    BY <2>4, <2>9 DEF IsSound
  <2>12. item.offset \in Places(text) /\ v \in ValuesOf[n] /\ v \in Values /\ Spells(text, start, item.offset, v)
         /\ Allowed(dialect, v, dialect.limit + 1 - n)
    BY <2>11 DEF IsRead
  <2> HIDE DEF v
  <2>13. start < item.offset
    <3>1. PICK i \in 1 .. Len(text) : start <= i /\ i < item.offset
      BY <2>9, <2>12, SpellsStart
    <3> QED BY <3>1, <2>0, <2>9, <2>12 DEF Places
  <2>14. next \in item.offset .. Len(text) + 1 /\ next \in Places(text) /\ Ink(text, item.offset, next) = {}
    BY <2>4, <2>12, SkipIs
  <2> HIDE DEF item
  <2>15. next \in 1 .. Len(text) /\ text[next] = At(text, next)
    <3>1. At(text, next) # "end"
      BY <2>4 DEF Closing
    <3> QED BY <3>1, <2>14, TextIs
  <2>16. start < next /\ mark < next /\ start <= item.offset /\ item.offset <= next /\ start <= start
         /\ Ink(text, start, start) = {} /\ next + 1 \in Places(text) /\ next + 1 \in Nat
    <3>1. start \in Nat /\ item.offset \in Nat /\ mark \in Nat
      BY <2>0, <2>7, <2>9, <2>12 DEF Places
    <3>2. Ink(text, start, start) = {}
      BY <3>1 DEF Ink
    <3> QED BY <3>1, <3>2, <2>0, <2>9, <2>13, <2>14, <2>15 DEF Places
  <2>17. Spells(text, start, next, v)
    BY <2>9, <2>12, <2>14, <2>16, SpellsPad
  <2>18. \E st \in ValueStarts(Strings, text, k, mark + 1, next) : <<st, next>> \in Spelled(text)[v]
    BY <2>9, <2>12, <2>14, <2>16, <2>17
  <2>20. ItemFollows(text, Spelled(text), k, count, mark, next, nm, v)
    <3>1. count # 0 => text[mark] = ","
      BY <2>2, <2>8, EmptySeq
    <3>2. k = "{" => nm = NameOf(text, mark + 1)
      BY <2>9 DEF Finds, nm
    <3> QED BY <3>1, <3>2, <2>16, <2>18 DEF ItemFollows
  <2> DEFINE R == KnownNames(dialect) \cup {nm}
  <2>21. nm \in R /\ state.names \in Seq(R)
    BY <2>2
  <2>22. NamesFit(k, state.names, count)
    BY DEF ReadSoFar
  <2>23. /\ Rowed(text, Spelled(text), k, names1, items1, Append(marks, next))
         /\ Append(marks, next)[1] = marks[1] /\ Append(marks, next)[count + 2] = next
    <3> HIDE DEF R
    <3>1. AreNamed(k, state.names, count)
      BY <2>22 DEF NamesFit
    <3>2. Rowed(text, Spelled(text), k, state.names, state.items, marks)
      BY <2>6
    <3>3. count = Len(state.items) /\ ItemFollows(text, Spelled(text), k, count, marks[count + 1], next, nm, v)
      BY <2>20 DEF mark
    <3> HIDE DEF count
    <3>4. v \in ValuesOf[n] /\ state.items \in Seq(ValuesOf[n]) /\ count \in Nat
      BY <2>2, <2>12
    <3>5. /\ Rowed(text, Spelled(text), k, NewNames(k, state.names, nm), Append(state.items, v), Append(marks, next))
          /\ Append(marks, next)[1] = marks[1] /\ Append(marks, next)[count + 2] = next
      <4>1. Grows(text, Spelled(text), k, state.names, state.items, marks, ValuesOf[n], R, v, nm, count, next)
        BY <2>15, <2>21, <3>1, <3>2, <3>3, <3>4 DEF Grows
      <4>2. Grown(text, Spelled(text), k, state.names, state.items, marks, v, nm, count, next)
        BY <4>1, RowedMore
      <4> QED BY <4>2 DEF Grown
    <3> QED BY <3>5 DEF names1, items1
  <2>24. items1 \in Seq(ValuesOf[n]) /\ Len(items1) = count + 1 /\ items1[count + 1] = v
         /\ (\A i \in 1 .. count : items1[i] = state.items[i]) /\ items1 # <<>>
    <3>1. items1 \in Seq(ValuesOf[n]) /\ Len(items1) = count + 1 /\ items1[count + 1] = v
          /\ (\A i \in 1 .. count : items1[i] = state.items[i])
      BY <2>2, <2>12, AppendIs DEF items1
    <3> HIDE DEF count
    <3> QED BY <3>1, <2>2
  <2>25. \A i \in 1 .. Len(items1) : Allowed(dialect, items1[i], dialect.limit + 1 - n)
    <3>1. \A i \in 1 .. count : Allowed(dialect, state.items[i], dialect.limit + 1 - n)
      BY DEF ReadSoFar
    <3> HIDE DEF count
    <3>2. \A i \in 1 .. count + 1 : i \in 1 .. count \/ i = count + 1
      BY <2>2
    <3> QED BY <3>1, <3>2, <2>12, <2>24
  <2>26. names1 \in Seq(KnownNames(dialect)) /\ NamesFit(k, names1, Len(items1))
    <3>1. CASE k = "{"
      <4>1. names1 = Append(state.names, nm)
        BY <3>1 DEF names1, NewNames
      <4>2. nm \in KnownNames(dialect) /\ ~Contains(state.names, nm)
        BY <3>1, <2>9 DEF Finds, nm
      <4>3. count = Len(state.names) /\ IsInjective(state.names)
        BY <3>1, <2>22 DEF NamesFit, AreNamed
      <4>4. names1 \in Seq(KnownNames(dialect)) /\ Len(names1) = Len(state.names) + 1
        BY <4>1, <4>2, <2>2, AppendProperties
      <4>5. IsInjective(names1)
        BY <4>1, <4>2, <4>3, <2>2, NewName
      <4>6. Len(names1) = Len(items1)
        BY <4>3, <4>4, <2>24
      <4> QED BY <3>1, <4>4, <4>5, <4>6 DEF NamesFit, AreNamed
    <3>2. CASE k = "["
      <4>1. names1 = state.names /\ state.names = <<>>
        BY <3>2, <2>22 DEF NamesFit, names1, NewNames
      <4> QED BY <3>2, <4>1, <2>2 DEF NamesFit, AreNamed
    <3> QED BY <3>1, <3>2 DEF Opening
  <2>27. EndsWith(text, k, t, next)
    <3>1. CASE At(text, next) = Closing(k)
      <4>1. t.status = "closed" /\ t.items # <<>> /\ text[next] = Closing(k) /\ t.offset = next + 1
        BY <3>1, <2>5, <2>15, <2>24 DEF status1
      <4> QED BY <4>1 DEF EndsWith
    <3>2. CASE At(text, next) # Closing(k)
      <4>1. t.status = "open" /\ text[next] = "," /\ t.offset = next + 1
        BY <3>2, <2>4, <2>5, <2>15 DEF status1
      <4>2. next < next + 1 /\ Ink(text, next + 1, next + 1) = {}
        BY <2>0, <2>15 DEF Ink
      <4> QED BY <4>1, <4>2, <2>16 DEF EndsWith
    <3> QED BY <3>1, <3>2
  <2>28. t \in ItemStates(dialect, n) /\ t.status # "failed"
    <3>1. status1 \in {"open", "closed", "failed"} /\ next + 1 \in Nat
      BY <2>16 DEF status1
    <3> QED BY <3>1, <2>3, <2>24, <2>26 DEF ItemStates, StateWith
  <2>29. Len(t.items) + 1 = count + 2
    <3> HIDE DEF count
    <3> QED BY <2>2, <2>5, <2>24
  <2> HIDE DEF count
  <2>30. \E ms : /\ Rowed(text, Spelled(text), k, t.names, t.items, ms)
                 /\ ms[1] = first /\ EndsWith(text, k, t, ms[Len(t.items) + 1])
    BY <2>5, <2>6, <2>23, <2>27, <2>29
  <2> QED BY <2>5, <2>25, <2>26, <2>28, <2>30 DEF ReadSoFar
<1> QED BY <1>1, <1>2

\* Numbers that grow from one to the next.
LEMMA Increasing ==
  ASSUME NEW s, NEW n \in Nat, \A i \in 1 .. n + 1 : s[i] \in Nat, \A i \in 1 .. n : s[i] < s[i + 1]
  PROVE  /\ \A i, j \in 1 .. n + 1 : i < j => s[i] < s[j]
         /\ \A i \in 1 .. n + 1 : s[1] + i - 1 <= s[i]
<1> DEFINE S == {j \in Nat : j + 1 <= n + 1 => /\ \A i \in 1 .. j : s[i] < s[j + 1]
                                               /\ s[1] + j <= s[j + 1]}
<1>1. 0 \in S
  OBVIOUS
<1>2. ASSUME NEW j \in Nat, j \in S PROVE j + 1 \in S
  <2> SUFFICES ASSUME (j + 1) + 1 <= n + 1
               PROVE  /\ \A i \in 1 .. j + 1 : s[i] < s[(j + 1) + 1]
                      /\ s[1] + (j + 1) <= s[(j + 1) + 1]
    OBVIOUS
  <2> DEFINE k == j + 1
  <2>1. k \in 1 .. n /\ k \in 1 .. n + 1 /\ k + 1 \in 1 .. n + 1 /\ 1 \in 1 .. n + 1 /\ k = j + 1
        /\ \A i \in 1 .. k : i = k \/ (i \in 1 .. j /\ i \in 1 .. n + 1)
    OBVIOUS
  <2> HIDE DEF k
  <2>2. s[k] < s[k + 1] /\ s[k] \in Nat /\ s[k + 1] \in Nat /\ s[1] \in Nat
    BY <2>1
  <2>3. (\A i \in 1 .. j : s[i] < s[k]) /\ s[1] + j <= s[k]
    BY <1>2, <2>1
  <2>4. \A i \in 1 .. k : s[i] < s[k + 1]
    BY <2>1, <2>2, <2>3
  <2>5. s[1] + k <= s[k + 1]
    BY <2>1, <2>2, <2>3
  <2> QED BY <2>4, <2>5 DEF k
<1>3. \A j \in Nat : j \in S
  <2> HIDE DEF S
  <2> QED BY <1>1, <1>2, Induction
<1>4. ASSUME NEW i \in 1 .. n + 1, NEW j \in 1 .. n + 1, i < j PROVE s[i] < s[j]
  <2>1. j - 1 \in Nat /\ (j - 1) + 1 = j /\ i \in 1 .. j - 1 /\ j <= n + 1
    BY <1>4
  <2>2. j - 1 \in S
    BY <1>3, <2>1
  <2> QED BY <2>1, <2>2
<1>5. ASSUME NEW j \in 1 .. n + 1 PROVE s[1] + j - 1 <= s[j]
  <2>1. j - 1 \in Nat /\ (j - 1) + 1 = j /\ j <= n + 1 /\ 1 \in 1 .. n + 1
    OBVIOUS
  <2>2. j - 1 \in S
    BY <1>3, <2>1
  <2>3. s[1] + (j - 1) <= s[j]
    BY <2>1, <2>2
  <2>4. s[1] \in Nat /\ s[j] \in Nat
    BY <2>1
  <2> QED BY <2>3, <2>4
<1> QED BY <1>4, <1>5

\* The marks of an object or a list stand in their order.
LEMMA MarksAre ==
  ASSUME NEW text \in Seq(Tokens), NEW f, NEW k, NEW names, NEW items, NEW marks, NEW n \in Nat, n = Len(items),
         Rowed(text, f, k, names, items, marks)
  PROVE  /\ \A i \in 1 .. n + 1 : marks[i] \in 1 .. Len(text)
         /\ \A i, j \in 1 .. n + 1 : i < j => marks[i] < marks[j]
         /\ n < Len(text) /\ Len(marks) = n + 1
         /\ 1 \in 1 .. n + 1 /\ n + 1 \in 1 .. n + 1 /\ (n # 0 => marks[1] < marks[n + 1])
<1>0. Len(text) \in Nat
  BY TextIs
<1>1. marks \in Seq(1 .. Len(text)) /\ Len(marks) = n + 1 /\ \A i \in 1 .. n : marks[i] < marks[i + 1]
  BY DEF Rowed
<1>2. \A i \in 1 .. n + 1 : marks[i] \in 1 .. Len(text)
  BY <1>1
<1>3. \A i \in 1 .. n + 1 : marks[i] \in Nat
  BY <1>0, <1>2
<1>4. /\ \A i, j \in 1 .. n + 1 : i < j => marks[i] < marks[j]
      /\ \A i \in 1 .. n + 1 : marks[1] + i - 1 <= marks[i]
  BY <1>1, <1>3, Increasing
<1>5. 1 \in 1 .. n + 1 /\ n + 1 \in 1 .. n + 1 /\ (n # 0 => 1 < n + 1)
  <2> QED OBVIOUS
<1>6. marks[1] \in 1 .. Len(text) /\ marks[n + 1] \in 1 .. Len(text) /\ marks[1] + (n + 1) - 1 <= marks[n + 1]
  BY <1>2, <1>4, <1>5
<1>7. n < Len(text)
  BY <1>0, <1>6
<1> QED BY <1>1, <1>2, <1>4, <1>5, <1>7

\* A part without items between the brackets.
LEMMA BeginsSoFar ==
  ASSUME NEW dialect, NEW text \in Seq(Tokens), NEW n \in Nat, NEW k \in Opening, NEW first \in 1 .. Len(text),
         NEW inside \in Places(text), first < inside, Ink(text, first + 1, inside) = {}
  PROVE  ReadSoFar(dialect, text, n, k, first, Begun(inside))
<1> DEFINE state == Begun(inside)
           marks == <<first>>
<1>1. state.offset = inside /\ state.names = <<>> /\ state.items = <<>> /\ state.status = "open"
      /\ state = [offset |-> inside, names |-> <<>>, items |-> <<>>, status |-> "open"]
  BY DEF Begun
<1>0. Len(text) \in Nat
  BY TextIs
<1>2. inside \in Nat
  BY <1>0 DEF Places
<1> HIDE DEF state
<1>3. state \in ItemStates(dialect, n)
  <2>1. <<>> \in Seq(KnownNames(dialect)) /\ <<>> \in Seq(ValuesOf[n])
    BY ShortSeqs
  <2> QED BY <1>1, <1>2, <2>1 DEF ItemStates
<1>4. NamesFit(k, state.names, Len(state.items))
  <2>1. Len(<<>>) = 0 /\ IsInjective(<<>>)
    BY DEF IsInjective
  <2> QED BY <1>1, <2>1 DEF NamesFit, AreNamed
<1>5. marks \in Seq(1 .. Len(text)) /\ Len(marks) = 1 /\ marks[1] = first
  BY ShortSeqs
<1> HIDE DEF marks
<1>6. Len(state.items) = 0 /\ Len(marks) = Len(state.items) + 1 /\ marks[Len(state.items) + 1] = first
  BY <1>1, <1>5
<1>7. Rowed(text, Spelled(text), k, state.names, state.items, marks)
  BY <1>5, <1>6 DEF Rowed
<1>8. EndsWith(text, k, state, first)
  BY <1>1 DEF EndsWith
<1>9. \A i \in 1 .. Len(state.items) : Allowed(dialect, state.items[i], dialect.limit + 1 - n)
  BY <1>6
<1>10. state.status # "failed"
  BY <1>1
<1> QED BY <1>3, <1>4, <1>5, <1>6, <1>7, <1>8, <1>9, <1>10 DEF ReadSoFar, state

\* What the loop has read when it ends.
LEMMA ReadsItems ==
  ASSUME NEW dialect, IsDialect(dialect), NEW text \in Seq(Tokens), NEW n \in Nat, ValuesOf[n] \subseteq Values,
         NEW k \in Opening, NEW inner, IsSound(dialect, text, n, inner), NEW first \in 1 .. Len(text),
         NEW inside \in Places(text), first < inside, Ink(text, first + 1, inside) = {},
         ParseItems(dialect, text, k, inner, inside).status # "failed"
  PROVE  ReadSoFar(dialect, text, n, k, first, ParseItems(dialect, text, k, inner, inside))
<1>1. PICK f : /\ f[0] = Begun(inside)
               /\ \A i \in Nat : f[i + 1] = ParseItem(dialect, text, k, inner, f[i])
               /\ ParseItems(dialect, text, k, inner, inside) = f[Len(text) + 1]
  BY ParseItemsIs
<1> DEFINE S == {i \in Nat : f[i].status # "failed" => ReadSoFar(dialect, text, n, k, first, f[i])}
<1>2. 0 \in S
  <2>1. ReadSoFar(dialect, text, n, k, first, f[0])
    BY <1>1, BeginsSoFar
  <2> QED BY <2>1
<1>3. ASSUME NEW i \in Nat, i \in S PROVE i + 1 \in S
  <2> SUFFICES ASSUME f[i + 1].status # "failed" PROVE ReadSoFar(dialect, text, n, k, first, f[i + 1])
    OBVIOUS
  <2>1. f[i + 1] = ParseItem(dialect, text, k, inner, f[i])
    BY <1>1
  <2>2. f[i].status # "failed"
    BY <2>1 DEF ParseItem
  <2>3. ReadSoFar(dialect, text, n, k, first, f[i])
    BY <1>3, <2>2
  <2> QED BY <2>1, <2>3, ReadsItem
<1>4. \A i \in Nat : i \in S
  <2> HIDE DEF S
  <2> QED BY <1>2, <1>3, Induction
<1>5. Len(text) + 1 \in S
  <2>1. Len(text) + 1 \in Nat
    BY TextIs
  <2> QED BY <1>4, <2>1
<1> QED BY <1>1, <1>5

\* An object or a list of values is a value of one more level.
LEMMA NestIs ==
  ASSUME NEW n \in Nat, NEW k \in Opening, NEW names \in Seq(PlainStrings), NEW items \in Seq(ValuesOf[n]),
         NamesFit(k, names, Len(items))
  PROVE  Tree(k, names, items) \in ValuesOf[n + 1]
<1> DEFINE v == Tree(k, names, items)
<1>1. v.kind = k /\ v.names = names /\ v.items = items /\ v = Tree(v.kind, v.names, v.items)
  BY DEF Tree
<1> HIDE DEF v
<1>2. IsTree(v, ValuesOf[n])
  BY <1>1 DEF IsTree, NamesFit, AreNamed, Opening
<1> QED BY <1>2, NestsAre, ValuesOfIs DEF v

\* A leaf is a value of one level or more.
LEMMA LeafIs ==
  ASSUME NEW n \in Nat, NEW token \in Atoms
  PROVE  Leaf(PlainToken(token)) \in ValuesOf[n + 1]
<1> DEFINE v == Leaf(PlainToken(token))
<1>1. v.kind = PlainToken(token) /\ v.names = <<>> /\ v.items = <<>> /\ v = Tree(v.kind, v.names, v.items)
  BY DEF Tree, Leaf
<1> HIDE DEF v
<1>2. IsTree(v, ValuesOf[n])
  BY <1>1 DEF IsTree
<1> QED BY <1>2, NestsAre, ValuesOfIs DEF v

\* An object or a list may stand where its items may stand one level deeper.
LEMMA NestAllowed ==
  ASSUME NEW dialect, NEW k \in Opening, NEW names, NEW items, NEW depth \in Nat,
         Tree(k, names, items) \in Values, items \in Seq(Values), depth <= dialect.limit
  PROVE  Allowed(dialect, Tree(k, names, items), depth) <=>
           /\ ToSet(names) \subseteq dialect.strings
           /\ \A i \in 1 .. Len(items) : Allowed(dialect, items[i], depth + 1)
<1> DEFINE v == Tree(k, names, items)
<1>1. v.kind = k /\ v.names = names /\ v.items = items
  BY DEF Tree
<1>2. DOMAIN items = 1 .. Len(items)
  BY SeqIs
<1>3. v \in Values
  OBVIOUS
<1> HIDE DEF v
<1>4. Allowed(dialect, v, depth) <=>
           /\ depth <= dialect.limit
           /\ v.kind \in Opening \cup AtomsOf(dialect)
           /\ ToSet(v.names) \subseteq dialect.strings
           /\ \A i \in DOMAIN v.items : Allowed(dialect, v.items[i], depth + 1)
  BY <1>3, AllowedIs
<1> QED BY <1>1, <1>2, <1>4 DEF v

\* A leaf may stand wherever there is room for a value and the copy reads its token.
LEMMA LeafAllowed ==
  ASSUME NEW dialect, NEW token, NEW depth \in Nat, Leaf(token) \in Values, token \notin Opening
  PROVE  Allowed(dialect, Leaf(token), depth) <=> depth <= dialect.limit /\ token \in AtomsOf(dialect)
<1> DEFINE v == Leaf(token)
<1>1. v.kind = token /\ v.names = <<>> /\ v.items = <<>>
  BY DEF Tree, Leaf
<1>2. v \in Values
  OBVIOUS
<1> HIDE DEF v
<1>3. Allowed(dialect, v, depth) <=>
           /\ depth <= dialect.limit
           /\ v.kind \in Opening \cup AtomsOf(dialect)
           /\ ToSet(v.names) \subseteq dialect.strings
           /\ \A i \in DOMAIN v.items : Allowed(dialect, v.items[i], depth + 1)
  BY <1>2, AllowedIs
<1>4. ToSet(v.names) = {} /\ DOMAIN v.items = {}
  BY <1>1 DEF ToSet
<1> QED BY <1>1, <1>3, <1>4 DEF v

\* What stands behind what has been read of an object or a list when it is closed:
\* it spells the value.
LEMMA ReadsClosed ==
  ASSUME NEW dialect, NEW text \in Seq(Tokens), NEW n \in Nat, n <= dialect.limit, dialect.limit \in Nat,
         ValuesOf[n + 1] \subseteq Values, ValuesOf[n] \subseteq Values,
         NEW from \in Places(text), NEW k \in Opening, NEW first \in 1 .. Len(text), text[first] = k,
         from <= first, Ink(text, from, first) = {},
         NEW state, ReadSoFar(dialect, text, n, k, first, state), state.status = "closed"
  PROVE  IsRead(dialect, text, n + 1, from, state.offset, Tree(k, state.names, state.items))
<1> DEFINE v == Tree(k, state.names, state.items)
           count == Len(state.items)
<1>0. Len(text) \in Nat
  BY TextIs
<1>1. state.names \in Seq(KnownNames(dialect)) /\ state.items \in Seq(ValuesOf[n]) /\ count \in Nat
  BY DEF ReadSoFar, ItemStates
<1>2. state.names \in Seq(PlainStrings) /\ NamesFit(k, state.names, count) /\ state.items \in Seq(Values)
  BY <1>1 DEF ReadSoFar, KnownNames
<1>3. v \in ValuesOf[n + 1] /\ v \in Values
  BY <1>1, <1>2, NestIs
<1>4. PICK marks : /\ Rowed(text, Spelled(text), k, state.names, state.items, marks)
                   /\ marks[1] = first /\ EndsWith(text, k, state, marks[count + 1])
  BY DEF ReadSoFar
<1> DEFINE last == marks[count + 1]
<1>5. state.items # <<>> /\ text[last] = Closing(k) /\ state.offset = last + 1
  BY <1>4 DEF EndsWith
<1>6. last \in 1 .. Len(text) /\ first < last /\ Len(marks) = count + 1
  <2>1. count # 0
    BY <1>1, <1>5, EmptySeq
  <2> HIDE DEF count
  <2>2. count = Len(state.items)
    BY DEF count
  <2> QED BY <1>1, <1>4, <2>1, <2>2, MarksAre
<1>7. state.offset \in Places(text) /\ last < state.offset
  BY <1>0, <1>5, <1>6 DEF Places
<1>8. IsBracketed(text, from, state.offset, k, first, last)
  <2>1. Ink(text, last + 1, state.offset) = {}
    BY <1>0, <1>5, <1>6 DEF Ink
  <2> QED BY <1>5, <1>6, <1>7, <2>1 DEF IsBracketed
<1>9. v.kind = k /\ v.names = state.names /\ v.items = state.items
  BY DEF Tree
<1>10. Allowed(dialect, v, dialect.limit + 1 - (n + 1))
  <2> DEFINE depth == dialect.limit - n
  <2>1. depth \in Nat /\ depth <= dialect.limit /\ depth + 1 = dialect.limit + 1 - n
        /\ depth = dialect.limit + 1 - (n + 1)
    OBVIOUS
  <2> HIDE DEF depth
  <2>2. ToSet(state.names) \subseteq dialect.strings
    BY <1>1 DEF ToSet, KnownNames
  <2>3. \A i \in 1 .. count : Allowed(dialect, state.items[i], depth + 1)
    BY <2>1 DEF ReadSoFar
  <2>4. Allowed(dialect, v, depth)
    BY <1>2, <1>3, <2>1, <2>2, <2>3, NestAllowed
  <2> QED BY <2>1, <2>4
<1> HIDE DEF v
<1>11. Spells(text, from, state.offset, v)
  <2>1. /\ first \in 1 .. Len(text) /\ last \in 1 .. Len(text)
        /\ IsBracketed(text, from, state.offset, v.kind, first, last)
        /\ v.items # <<>>
        /\ Rowed(text, Spelled(text), v.kind, v.names, v.items, marks)
        /\ marks[1] = first /\ marks[Len(marks)] = last
    BY <1>4, <1>5, <1>6, <1>8, <1>9
  <2> HIDE DEF last
  <2>2. v.kind \in Opening
    BY <1>9
  <2> QED BY <2>1, <2>2, <1>3, <1>7, SpellsNest
<1> QED BY <1>3, <1>7, <1>10, <1>11 DEF IsRead, v

\* An object or a list without items.
LEMMA ReadsEmpty ==
  ASSUME NEW dialect, NEW text \in Seq(Tokens), NEW n \in Nat, n <= dialect.limit, dialect.limit \in Nat,
         ValuesOf[n + 1] \subseteq Values,
         NEW from \in Places(text), NEW k \in Opening, NEW first \in 1 .. Len(text), text[first] = k,
         from <= first, Ink(text, from, first) = {},
         NEW last \in 1 .. Len(text), first < last, text[last] = Closing(k), Ink(text, first + 1, last) = {}
  PROVE  IsRead(dialect, text, n + 1, from, last + 1, Tree(k, <<>>, <<>>))
<1> DEFINE v == Tree(k, <<>>, <<>>)
<1>0. Len(text) \in Nat
  BY TextIs
<1>1. <<>> \in Seq(PlainStrings) /\ <<>> \in Seq(ValuesOf[n]) /\ <<>> \in Seq(Values) /\ Len(<<>>) = 0
      /\ ToSet(<<>>) = {} /\ IsInjective(<<>>)
  BY ShortSeqs DEF ToSet, IsInjective
<1>2. v \in ValuesOf[n + 1] /\ v \in Values
  <2>1. NamesFit(k, <<>>, Len(<<>>))
    BY <1>1 DEF NamesFit, AreNamed
  <2> QED BY <1>1, <2>1, NestIs
<1>3. last + 1 \in Places(text) /\ last < last + 1 /\ Ink(text, last + 1, last + 1) = {}
  BY <1>0 DEF Places, Ink
<1>4. IsBracketed(text, from, last + 1, k, first, last)
  BY <1>3 DEF IsBracketed
<1>5. v.kind = k /\ v.items = <<>>
  BY DEF Tree
<1>6. Allowed(dialect, v, dialect.limit + 1 - (n + 1))
  <2> DEFINE depth == dialect.limit - n
  <2>1. depth \in Nat /\ depth <= dialect.limit /\ depth = dialect.limit + 1 - (n + 1)
    OBVIOUS
  <2> HIDE DEF depth
  <2>2. \A i \in 1 .. Len(<<>>) : Allowed(dialect, <<>>[i], depth + 1)
    BY <1>1
  <2>4. Allowed(dialect, v, depth)
    BY <1>1, <1>2, <2>1, <2>2, NestAllowed
  <2> QED BY <2>1, <2>4
<1> HIDE DEF v
<1>7. Spells(text, from, last + 1, v)
  <2> DEFINE to == last + 1
  <2>1. to \in Places(text) /\ IsBracketed(text, from, to, v.kind, first, last)
    BY <1>3, <1>4, <1>5
  <2> HIDE DEF to
  <2>2. Spells(text, from, to, v)
    BY <1>2, <1>5, <2>1, SpellsNest
  <2> QED BY <2>2 DEF to
<1> QED BY <1>2, <1>3, <1>6, <1>7 DEF IsRead, v

\* An atom.
LEMMA ReadsAtom ==
  ASSUME NEW dialect, IsDialect(dialect), NEW text \in Seq(Tokens), NEW n \in Nat, n <= dialect.limit,
         ValuesOf[n + 1] \subseteq Values,
         NEW from \in Places(text), NEW i \in 1 .. Len(text), text[i] \in AtomsOf(dialect),
         from <= i, Ink(text, from, i) = {}
  PROVE  IsRead(dialect, text, n + 1, from, i + 1, Leaf(PlainToken(text[i])))
<1> DEFINE token == PlainToken(text[i])
           v == Leaf(token)
           to == i + 1
<1>0. Len(text) \in Nat /\ dialect.limit \in Nat
  BY TextIs DEF IsDialect
<1>1. text[i] \in Atoms /\ token \in AtomsOf(dialect) /\ token \in PlainAtoms /\ token \notin Opening
      /\ text[i] \notin Whitespace
  BY DialectAtoms, AtomsAreNoMarks
<1>2. v \in ValuesOf[n + 1] /\ v \in Values
  BY <1>1, LeafIs
<1>3. to \in Places(text) /\ i < to /\ Ink(text, i + 1, to) = {}
  BY <1>0 DEF Places, Ink
<1>4. v.kind = token
  BY DEF Leaf, Tree
<1>5. Allowed(dialect, v, dialect.limit + 1 - (n + 1))
  <2> DEFINE depth == dialect.limit - n
  <2>1. depth \in Nat /\ depth <= dialect.limit /\ depth = dialect.limit + 1 - (n + 1)
    BY <1>0
  <2> HIDE DEF depth, token
  <2>2. Allowed(dialect, v, depth)
    BY <1>1, <1>2, <2>1, LeafAllowed
  <2> QED BY <2>1, <2>2
<1> HIDE DEF to
<1>6. Ink(text, from, to) = {i}
  BY <1>0, <1>1, <1>3, OneInk DEF Places
<1>7. Spells(text, from, to, v)
  <2>1. v.kind \notin Opening
    BY <1>1, <1>4
  <2>2. Ink(text, from, to) = {i} /\ text[i] \in Atoms /\ v = Leaf(PlainToken(text[i]))
    BY <1>1, <1>6
  <2> HIDE DEF v, token
  <2> QED BY <2>1, <2>2, <1>2, <1>3, SpellsLeaf
<1>8. IsRead(dialect, text, n + 1, from, to, v)
  <2> HIDE DEF v
  <2> QED BY <1>2, <1>3, <1>5, <1>7 DEF IsRead
<1> QED BY <1>8 DEF to

\* A value.
LEMMA ReadsNested ==
  ASSUME NEW dialect, IsDialect(dialect), NEW text \in Seq(Tokens), NEW n \in Nat, n <= dialect.limit,
         ValuesOf[n + 1] \subseteq Values, ValuesOf[n] \subseteq Values,
         NEW inner, IsSound(dialect, text, n, inner), NEW from \in Places(text),
         ParseNested(dialect, text, inner, from).offset # 0
  PROVE  IsRead(dialect, text, n + 1, from, ParseNested(dialect, text, inner, from).offset,
                ParseNested(dialect, text, inner, from).value)
<1> DEFINE first == SkipWhitespace(text, from)
           token == At(text, first)
           inside == SkipWhitespace(text, first + 1)
           read == ParseItems(dialect, text, token, inner, inside)
           r == ParseNested(dialect, text, inner, from)
<1>0. Len(text) \in Nat /\ dialect.limit \in Nat
  BY TextIs DEF IsDialect
<1>1. r = CASE token \in Opening ->
                 IF At(text, inside) = Closing(token)
                 THEN Parsed(inside + 1, Tree(token, <<>>, <<>>))
                 ELSE IF read.status = "closed"
                 THEN Parsed(read.offset, Tree(token, read.names, read.items))
                 ELSE Failed
            [] token \in AtomsOf(dialect) -> Parsed(first + 1, Leaf(PlainToken(token)))
            [] OTHER -> Failed
  BY DEF ParseNested
<1>2. \A a, b : Parsed(a, b).offset = a /\ Parsed(a, b).value = b
  BY DEF Parsed
<1>3. Failed.offset = 0
  BY DEF Failed
<1>4. first \in from .. Len(text) + 1 /\ first \in Places(text) /\ Ink(text, from, first) = {}
  BY SkipIs
<1>5. from <= first
  BY <1>0, <1>4 DEF Places
<1>6. \A a \in AtomsOf(dialect) : a \notin Opening /\ a \in Tokens
  BY DialectAtoms, AtomsAreNoMarks DEF Tokens
<1>7. r.offset # 0
  OBVIOUS
<1> HIDE DEF r, read
<1>8. CASE token \in Opening
  <2> HIDE DEF first
  <2>1. first \in 1 .. Len(text) /\ text[first] = token
    <3>1. token # "end"
      BY <1>8 DEF Opening
    <3> HIDE DEF token
    <3>2. first \in 1 .. Len(text)
      BY <3>1, <1>4, TextIs DEF token
    <3> QED BY <3>2, TextIs DEF token
  <2> HIDE DEF token
  <2>2. first + 1 \in Places(text)
    BY <2>1, <1>0 DEF Places
  <2>3. inside \in first + 1 .. Len(text) + 1 /\ inside \in Places(text) /\ Ink(text, first + 1, inside) = {}
    BY <2>2, SkipIs
  <2> HIDE DEF inside
  <2>4. first < inside
    BY <1>0, <2>1, <2>3 DEF Places
  <2>5. CASE At(text, inside) = Closing(token)
    <3>1. r.offset = inside + 1 /\ r.value = Tree(token, <<>>, <<>>)
      BY <1>1, <1>2, <1>6, <1>8, <2>5
    <3>2. inside \in 1 .. Len(text) /\ text[inside] = Closing(token)
      <4>1. Closing(token) # "end"
        BY DEF Closing
      <4> QED BY <4>1, <2>3, <2>5, TextIs
    <3>3. IsRead(dialect, text, n + 1, from, inside + 1, Tree(token, <<>>, <<>>))
      BY <1>0, <1>4, <1>5, <1>8, <2>1, <2>3, <2>4, <3>2, ReadsEmpty
    <3> QED BY <3>1, <3>3 DEF r
  <2>6. CASE At(text, inside) # Closing(token)
    <3>1. read.status = "closed" /\ r.offset = read.offset /\ r.value = Tree(token, read.names, read.items)
      BY <1>1, <1>2, <1>3, <1>6, <1>7, <1>8, <2>6
    <3>2. ReadSoFar(dialect, text, n, token, first, read)
      <4>1. read.status # "failed"
        BY <3>1
      <4> QED BY <4>1, <1>8, <2>1, <2>3, <2>4, ReadsItems DEF read
    <3>3. IsRead(dialect, text, n + 1, from, read.offset, Tree(token, read.names, read.items))
      BY <1>0, <1>4, <1>5, <1>8, <2>1, <3>1, <3>2, ReadsClosed
    <3> QED BY <3>1, <3>3 DEF r
  <2> QED BY <2>5, <2>6
<1>9. CASE token \in AtomsOf(dialect)
  <2>1. r.offset = first + 1 /\ r.value = Leaf(PlainToken(token))
    <3> HIDE DEF token, first, inside
    <3> QED BY <1>1, <1>2, <1>6, <1>9
  <2> HIDE DEF first
  <2>2. first \in 1 .. Len(text) /\ text[first] = token
    <3>1. token # "end"
      <4> HIDE DEF token
      <4> QED BY <1>6, <1>9, TokensAre
    <3> HIDE DEF token
    <3>2. first \in 1 .. Len(text)
      BY <3>1, <1>4, TextIs DEF token
    <3> QED BY <3>2, TextIs DEF token
  <2> HIDE DEF token
  <2>3. IsRead(dialect, text, n + 1, from, first + 1, Leaf(PlainToken(token)))
    BY <1>0, <1>4, <1>5, <1>9, <2>2, ReadsAtom
  <2> QED BY <2>1, <2>3 DEF r
<1>10. token \in Opening \/ token \in AtomsOf(dialect)
  <2> HIDE DEF token, first, inside
  <2> QED BY <1>1, <1>3, <1>7
<1> QED BY <1>8, <1>9, <1>10

\* The values the parser may meet are among those that are told apart.
LEMMA ValuesOfLevels ==
  ASSUME NEW dialect, IsDialect(dialect), NEW n \in Nat, n <= dialect.limit + 1
  PROVE  ValuesOf[n] \subseteq Values
<1>1. dialect.limit \in Nat /\ dialect.limit < Levels /\ Levels \in Nat
  BY LevelsAre DEF IsDialect
<1>2. n <= Levels
  BY <1>1
<1> QED BY <1>1, <1>2, ValuesGrow DEF Values

\* The parser is sound.
THEOREM ReadsLevels ==
  ASSUME NEW dialect, IsDialect(dialect), NEW text \in Seq(Tokens)
  PROVE  \A n \in 0 .. dialect.limit + 1 : IsSound(dialect, text, n, ParseLevels(dialect, text, n))
<1> DEFINE P(n) == ParseLevels(dialect, text, n)
           S == {n \in Nat : n <= dialect.limit + 1 => IsSound(dialect, text, n, P(n))}
<1>0. dialect.limit \in Nat
  BY DEF IsDialect
<1>p. Places(text) \subseteq Nat
  BY TextIs DEF Places
<1>1. 0 \in S
  <2>1. \A from \in Places(text) : P(0)[from] = Failed
    BY <1>p, ParseLevelsIs
  <2>2. Failed.offset = 0
    BY DEF Failed
  <2> HIDE DEF P
  <2> QED BY <2>1, <2>2 DEF IsSound
<1>2. ASSUME NEW n \in Nat, n \in S PROVE n + 1 \in S
  <2> SUFFICES ASSUME n + 1 <= dialect.limit + 1 PROVE IsSound(dialect, text, n + 1, P(n + 1))
    OBVIOUS
  <2>1. n <= dialect.limit /\ n <= dialect.limit + 1
    BY <1>0
  <2>2. ValuesOf[n + 1] \subseteq Values /\ ValuesOf[n] \subseteq Values
    BY <2>1, ValuesOfLevels
  <2>3. IsSound(dialect, text, n, P(n))
    BY <1>2, <2>1
  <2>4. ASSUME NEW from \in Places(text), P(n + 1)[from].offset # 0
        PROVE  IsRead(dialect, text, n + 1, from, P(n + 1)[from].offset, P(n + 1)[from].value)
    <3>1. P(n + 1)[from] = ParseNested(dialect, text, P(n), from)
      BY <1>p, ParseLevelsIs
    <3> HIDE DEF P
    <3> QED BY <2>1, <2>2, <2>3, <2>4, <3>1, ReadsNested
  <2> HIDE DEF P
  <2> QED BY <2>4 DEF IsSound
<1>3. \A n \in Nat : n \in S
  <2> HIDE DEF S
  <2> QED BY <1>1, <1>2, Induction
<1>4. ASSUME NEW n \in 0 .. dialect.limit + 1 PROVE IsSound(dialect, text, n, P(n))
  <2>1. n \in Nat /\ n <= dialect.limit + 1
    BY <1>0
  <2>2. n \in S
    BY <1>3, <2>1
  <2> QED BY <2>1, <2>2
<1> QED BY <1>4

(***************************************************************************)
(* The parser reads every value that is spelled                            *)
(***************************************************************************)
\* What a round of the parser meets in front of an item that ends at a mark.
Meets(text, k, state, mark, next, v) ==
  /\ StartAt(text, k, state) \in Places(text) /\ Spells(text, StartAt(text, k, state), next, v)
  /\ At(text, SkipWhitespace(text, state.offset)) \in Atoms \cup Opening
  /\ k = "{" => /\ At(text, NameAt(text, state)) \in Strings
                /\ DecodedString[At(text, NameAt(text, state))] = NameOf(text, mark + 1)
                /\ At(text, ColonAt(text, state)) = ":"

\* Whether the items have names.
IsObject(k) == k = "{"

\* In an object the round meets the part behind its name and colon.
LEMMA MeetsObject ==
  ASSUME NEW text \in Seq(Tokens), NEW k, IsObject(k), NEW state, NEW mark \in 1 .. Len(text), NEW next \in 1 .. Len(text),
         state.offset \in Places(text), mark < state.offset, Ink(text, mark + 1, state.offset) = {},
         NEW v \in Values, NEW start \in ValueStarts(Strings, text, k, mark + 1, next), Spells(text, start, next, v)
  PROVE  Meets(text, k, state, mark, next, v)
<1> DEFINE a == mark + 1
           offset == state.offset
<1>0. Len(text) \in Nat /\ offset \in Nat /\ a \in Nat /\ a <= offset /\ 1 <= a /\ offset <= Len(text) + 1
      /\ Ink(text, a, offset) = {} /\ next \in Nat /\ next <= Len(text)
  BY TextIs DEF Places
<1>1. PICK colon \in a .. next - 1 :
        /\ start = colon + 1 /\ text[colon] = ":"
        /\ \E i \in a .. colon - 1 : Ink(text, a, colon) = {i} /\ text[i] \in Strings
  BY DEF ValueStarts, IsObject
<1>2. PICK name \in a .. colon - 1 : Ink(text, a, colon) = {name} /\ text[name] \in Strings
  BY <1>1
<1> HIDE DEF a, offset
<1>3. name \in Nat /\ colon \in Nat /\ a <= name /\ name < colon /\ colon < next /\ name \in 1 .. Len(text) /\ colon \in 1 .. Len(text)
      /\ name + 1 \in Places(text) /\ start \in Places(text)
  BY <1>0, <1>1, <1>2 DEF Places
<1>4. Ink(text, a, name) = {} /\ Ink(text, name + 1, colon) = {} /\ text[name] \notin Whitespace
  <2>1. a \in Nat /\ name \in Nat /\ colon \in Nat /\ a <= name /\ name < colon /\ Ink(text, a, colon) = {name}
    BY <1>0, <1>2, <1>3
  <2> QED BY <2>1 DEF Ink
<1>5. offset <= name
  BY <1>0, <1>3, <1>4 DEF Ink
<1>6. Ink(text, offset, name) = {}
  BY <1>0, <1>3, <1>4, <1>5 DEF Ink
<1>7. SkipWhitespace(text, offset) = name
  <2>1. name \in offset .. Len(text) + 1 /\ offset \in Places(text)
    BY <1>0, <1>3, <1>5 DEF Places
  <2> QED BY <2>1, <1>4, <1>6, SkipOnly
<1>8. SkipWhitespace(text, name + 1) = colon
  <2>1. colon \in name + 1 .. Len(text) + 1
    BY <1>0, <1>3
  <2>2. text[colon] \notin Whitespace
    BY <1>1 DEF Whitespace
  <2> QED BY <2>1, <2>2, <1>3, <1>4, SkipOnly
<1>9. NameAt(text, state) = name /\ ColonAt(text, state) = colon /\ StartAt(text, k, state) = start
  BY <1>1, <1>7, <1>8 DEF NameAt, ColonAt, StartAt, offset, IsObject
<1>10. At(text, name) = text[name] /\ At(text, colon) = ":"
  BY <1>1, <1>3, TextIs
<1>11. NameOf(text, a) = DecodedString[text[name]]
  <2>1. a \in Places(text) /\ name \in a .. Len(text)
    BY <1>0, <1>3 DEF Places
  <2> QED BY <2>1, <1>4, NameIs
<1>12. text[name] \in Atoms
  BY <1>2, TokensAre
<1>13. At(text, SkipWhitespace(text, state.offset)) \in Atoms \cup Opening
  BY <1>7, <1>10, <1>12 DEF offset
<1> QED BY <1>2, <1>3, <1>9, <1>10, <1>11, <1>13 DEF Meets, a

\* In a list the round meets the part where it stands.
LEMMA MeetsList ==
  ASSUME NEW text \in Seq(Tokens), NEW state, NEW mark \in 1 .. Len(text), NEW next \in 1 .. Len(text),
         state.offset \in Places(text), mark < state.offset, Ink(text, mark + 1, state.offset) = {},
         NEW v \in Values, NEW start \in ValueStarts(Strings, text, "[", mark + 1, next), Spells(text, start, next, v)
  PROVE  Meets(text, "[", state, mark, next, v)
<1> DEFINE a == mark + 1
           offset == state.offset
<1>0. Len(text) \in Nat /\ offset \in Nat /\ a \in Nat /\ a <= offset /\ 1 <= a /\ offset <= Len(text) + 1
      /\ Ink(text, a, offset) = {} /\ next \in Nat /\ next <= Len(text)
      /\ a \in Places(text) /\ next \in Places(text) /\ offset \in Places(text)
  BY TextIs DEF Places
<1>1. start = a
  BY DEF ValueStarts
<1> HIDE DEF a, offset
<1>2. PICK i \in 1 .. Len(text) : a <= i /\ i < next /\ Ink(text, a, i) = {} /\ text[i] \in Atoms \cup Opening
  BY <1>0, <1>1, SpellsStart
<1>3. text[i] \notin Whitespace /\ At(text, i) = text[i]
  BY <1>2, TokensAre, TextIs
<1>4. offset <= i
  BY <1>0, <1>2, <1>3 DEF Ink
<1>5. Ink(text, offset, i) = {} /\ i \in offset .. Len(text) + 1 /\ offset <= next
  BY <1>0, <1>2, <1>4 DEF Ink
<1>6. SkipWhitespace(text, offset) = i
  BY <1>0, <1>3, <1>5, SkipOnly
<1>7. Spells(text, offset, next, v)
  <2>1. Ink(text, next, next) = {} /\ next <= next
    BY <1>0 DEF Ink
  <2>2. Spells(text, a, next, v)
    BY <1>1
  <2> QED BY <1>0, <1>5, <2>1, <2>2, SpellsPad
<1>8. StartAt(text, "[", state) = offset
  BY DEF StartAt, offset
<1> QED BY <1>0, <1>2, <1>3, <1>6, <1>7, <1>8 DEF Meets, offset

\* What an inner level reads when it is complete.
ReadsUpTo(text, read, to, v) ==
  /\ read.offset \in Places(text) /\ read.value = v
  /\ read.offset <= to /\ Ink(text, read.offset, to) = {}

\* A reader of values that are nested so deep reads all that are spelled.
ReadsAll(dialect, text, n, inner) ==
  \A from, to \in Places(text) : \A v \in Values :
    Spells(text, from, to, v) /\ Allowed(dialect, v, dialect.limit + 1 - n) => ReadsUpTo(text, inner[from], to, v)

\* The state of the loop when it has read the first items.
FirstNames(k, names, i) == IF k = "{" THEN SubSeq(names, 1, i) ELSE <<>>
HasRead(text, k, names, items, marks, i, state) ==
  /\ state = StateWith(state.offset, FirstNames(k, names, i), SubSeq(items, 1, i),
                       IF i = Len(items) THEN "closed" ELSE "open")
  /\ IF i = Len(items) THEN state.offset = marks[i + 1] + 1
     ELSE /\ state.offset \in Places(text) /\ marks[i + 1] < state.offset
          /\ Ink(text, marks[i + 1] + 1, state.offset) = {}

\* The name of the next item is new.
LEMMA NextNameIsNew ==
  ASSUME NEW S, NEW names \in Seq(S), IsInjective(names), NEW i \in 0 .. Len(names) - 1
  PROVE  ~Contains(SubSeq(names, 1, i), names[i + 1])
<1>1. 1 \in 1 .. Len(names) + 1 /\ i \in 1 - 1 .. Len(names) /\ i - 1 + 1 = i /\ i + 1 \in 1 .. Len(names)
      /\ \A j \in 1 .. i : 1 + j - 1 = j /\ j \in 1 .. Len(names) /\ j # i + 1
  OBVIOUS
<1>2. Len(SubSeq(names, 1, i)) = i - 1 + 1 /\ \A j \in 1 .. i - 1 + 1 : SubSeq(names, 1, i)[j] = names[1 + j - 1]
  BY <1>1, PartIs
<1>3. Len(SubSeq(names, 1, i)) = i /\ \A j \in 1 .. i : SubSeq(names, 1, i)[j] = names[j]
  BY <1>1, <1>2
<1>4. \A j \in 1 .. i : names[j] # names[i + 1]
  <2>1. DOMAIN names = 1 .. Len(names)
    OBVIOUS
  <2> QED BY <1>1, <2>1 DEF IsInjective
<1> QED BY <1>3, <1>4 DEF Contains

\* An object or a list that is spelled and that the copy may read.
IsReadable(dialect, text, n, k, names, items, marks) ==
  /\ k \in Opening /\ names \in Seq(PlainStrings) /\ items \in Seq(Values) /\ items # <<>>
  /\ NamesFit(k, names, Len(items))
  /\ Rowed(text, Spelled(text), k, names, items, marks)
  /\ text[marks[Len(items) + 1]] = Closing(k)
  /\ ToSet(names) \subseteq dialect.strings
  /\ \A i \in 1 .. Len(items) : Allowed(dialect, items[i], dialect.limit + 1 - n)

\* Behind a mark and white space, in front of an item.
Before(text, k, state, mark, next, v) ==
  /\ mark \in 1 .. Len(text) /\ next \in 1 .. Len(text)
  /\ state.offset \in Places(text) /\ mark < state.offset /\ Ink(text, mark + 1, state.offset) = {}
  /\ v \in Values
  /\ \E start \in ValueStarts(Strings, text, k, mark + 1, next) : Spells(text, start, next, v)

\* Either way, a round meets the part between two marks.
LEMMA MeetsItem ==
  ASSUME NEW text \in Seq(Tokens), NEW k \in Opening, NEW state, NEW mark, NEW next, NEW v,
         Before(text, k, state, mark, next, v)
  PROVE  Meets(text, k, state, mark, next, v)
<1>1. PICK start \in ValueStarts(Strings, text, k, mark + 1, next) : Spells(text, start, next, v)
  BY DEF Before
<1>2. /\ mark \in 1 .. Len(text) /\ next \in 1 .. Len(text)
      /\ state.offset \in Places(text) /\ mark < state.offset /\ Ink(text, mark + 1, state.offset) = {}
      /\ v \in Values
  BY DEF Before
<1>3. CASE IsObject(k)
  BY <1>1, <1>2, <1>3, MeetsObject
<1>4. CASE k = "["
  <2>1. start \in ValueStarts(Strings, text, "[", mark + 1, next)
    BY <1>1, <1>4
  <2>2. Meets(text, "[", state, mark, next, v)
    BY <1>1, <1>2, <2>1, MeetsList
  <2> QED BY <1>4, <2>2
<1> QED BY <1>3, <1>4 DEF Opening, IsObject

\* The part behind a mark has the name that the value has there.
Named(text, k, names, i, mark) == k = "{" => names[i] = NameOf(text, mark + 1)

\* What the next round meets.
LEMMA MeetsNext ==
  ASSUME NEW dialect, NEW text \in Seq(Tokens), NEW n, NEW k, NEW names, NEW items, NEW marks,
         IsReadable(dialect, text, n, k, names, items, marks),
         NEW i \in 0 .. Len(items) - 1, NEW state, HasRead(text, k, names, items, marks, i, state)
  PROVE  /\ Meets(text, k, state, marks[i + 1], marks[i + 2], items[i + 1])
         /\ marks[i + 1] \in 1 .. Len(text) /\ marks[i + 2] \in 1 .. Len(text) /\ marks[i + 1] < marks[i + 2]
         /\ items[i + 1] \in Values /\ i + 1 \in 1 .. Len(items)
         /\ state.offset \in Places(text) /\ marks[i + 1] < state.offset
         /\ Ink(text, marks[i + 1] + 1, state.offset) = {}
         /\ Named(text, k, names, i + 1, marks[i + 1])
<1> DEFINE count == Len(items)
           j == i + 1
           mark == marks[j]
           next == marks[j + 1]
           v == items[j]
<1>1. count \in Nat /\ items \in Seq(Values) /\ k \in Opening
  BY DEF IsReadable
<1>2. j \in 1 .. count /\ j \in 1 .. count + 1 /\ j + 1 \in 1 .. count + 1 /\ j < j + 1 /\ i # count /\ j + 1 = i + 2 /\ j = i + 1
  BY <1>1
<1> HIDE DEF j
<1>3. v \in Values
  BY <1>1, <1>2
<1>4. Rowed(text, Spelled(text), k, names, items, marks)
  BY DEF IsReadable
<1>5. mark \in 1 .. Len(text) /\ next \in 1 .. Len(text) /\ mark < next
  BY <1>1, <1>2, <1>4, MarksAre
<1>6. \E start \in ValueStarts(Strings, text, k, mark + 1, next) : <<start, next>> \in Spelled(text)[v]
  BY <1>2, <1>4 DEF Rowed
<1>7. Named(text, k, names, j, mark)
  BY <1>2, <1>4 DEF Rowed, Named
<1>8. state.offset \in Places(text) /\ mark < state.offset /\ Ink(text, mark + 1, state.offset) = {}
  BY <1>2 DEF HasRead
<1> HIDE DEF mark, next, v
<1>9. \E start \in ValueStarts(Strings, text, k, mark + 1, next) : Spells(text, start, next, v)
  BY <1>6 DEF Spells, mark, next, v
<1>10. Before(text, k, state, mark, next, v)
  BY <1>3, <1>5, <1>8, <1>9 DEF Before
<1>12. Meets(text, k, state, mark, next, v)
  BY <1>1, <1>10, MeetsItem
<1> QED BY <1>2, <1>3, <1>5, <1>7, <1>8, <1>12 DEF mark, next, v

\* A round reads the next item.
LEMMA WalksItem ==
  ASSUME NEW dialect, IsDialect(dialect), NEW text \in Seq(Tokens), NEW n,
         NEW inner, ReadsAll(dialect, text, n, inner), NEW k, NEW names, NEW items, NEW marks,
         IsReadable(dialect, text, n, k, names, items, marks),
         NEW i \in 0 .. Len(items) - 1, NEW state, HasRead(text, k, names, items, marks, i, state)
  PROVE  HasRead(text, k, names, items, marks, i + 1, ParseItem(dialect, text, k, inner, state))
<1> DEFINE count == Len(items)
           j == i + 1
           mark == marks[i + 1]
           to == marks[i + 2]
           v == items[i + 1]
           start == StartAt(text, k, state)
           read == inner[start]
           next == NextAt(text, k, inner, state)
           name == DecodedString[At(text, NameAt(text, state))]
           t == ParseItem(dialect, text, k, inner, state)
<1>0. Len(text) \in Nat
  BY TextIs
<1>1. /\ count \in Nat /\ k \in Opening /\ names \in Seq(PlainStrings) /\ items \in Seq(Values)
      /\ NamesFit(k, names, count) /\ text[marks[count + 1]] = Closing(k)
      /\ ToSet(names) \subseteq dialect.strings
      /\ \A m \in 1 .. count : Allowed(dialect, items[m], dialect.limit + 1 - n)
      /\ Rowed(text, Spelled(text), k, names, items, marks)
  BY DEF IsReadable
<1>2. /\ Meets(text, k, state, mark, to, v)
      /\ mark \in 1 .. Len(text) /\ to \in 1 .. Len(text) /\ mark < to
      /\ v \in Values /\ j \in 1 .. count
      /\ state.offset \in Places(text)
  BY MeetsNext
<1>3. Named(text, k, names, j, mark)
  BY MeetsNext
<1>4. i # count /\ j + 1 = i + 2 /\ (j # count => j + 1 \in 1 .. count /\ j + 1 # 1) /\ (j = count => i + 2 = count + 1)
      /\ i \in Nat /\ i <= count
  BY <1>1, <1>2
<1>5. text[to] \in {Closing(k), ","} /\ (text[to] = Closing(k) <=> j = count)
  <2>1. CASE j = count
    <3>1. text[to] = Closing(k)
      BY <1>1, <1>4, <2>1
    <3> QED BY <2>1, <3>1
  <2>2. CASE j # count
    <3>1. text[marks[j + 1]] = ","
      BY <1>1, <1>4, <2>2 DEF Rowed
    <3>2. text[to] = ","
      BY <1>4, <3>1
    <3>3. Closing(k) # ","
      BY DEF Closing
    <3> QED BY <2>2, <3>2, <3>3
  <2> QED BY <2>1, <2>2
<1>6. state = StateWith(state.offset, FirstNames(k, names, i), SubSeq(items, 1, i), "open")
  BY <1>4 DEF HasRead
<1> HIDE DEF mark, to, v, start, name
<1>7. start \in Places(text) /\ Spells(text, start, to, v)
  BY <1>2 DEF Meets, start
<1>8. ReadsUpTo(text, read, to, v)
  <2>1. to \in Places(text)
    BY <1>0, <1>2 DEF Places
  <2>2. Allowed(dialect, v, dialect.limit + 1 - n)
    BY <1>1, <1>2 DEF v
  <2> QED BY <1>2, <1>7, <2>1, <2>2 DEF ReadsAll
<1>9. read.offset \in Places(text) /\ read.value = v /\ read.offset <= to /\ Ink(text, read.offset, to) = {} /\ read.offset # 0
  BY <1>0, <1>8 DEF ReadsUpTo, Places
<1>10. next = to
  <2>1. to \in read.offset .. Len(text) + 1
    BY <1>0, <1>2, <1>9 DEF Places
  <2>2. text[to] \notin Whitespace
    BY <1>5 DEF Closing, Whitespace
  <2>3. next = SkipWhitespace(text, read.offset)
    BY DEF NextAt, start
  <2> HIDE DEF next, read
  <2> QED BY <1>9, <2>1, <2>2, <2>3, SkipOnly
<1>11. At(text, next) = text[to]
  BY <1>2, <1>10, TextIs
<1>12. k = "{" => /\ name = names[j] /\ At(text, NameAt(text, state)) \in dialect.strings
                  /\ ~Contains(state.names, name)
  <2> SUFFICES ASSUME IsObject(k)
               PROVE  name = names[j] /\ At(text, NameAt(text, state)) \in dialect.strings /\ ~Contains(state.names, name)
    BY DEF IsObject
  <2>1. name = names[j]
    BY <1>2, <1>3 DEF Meets, IsObject, name, mark, Named
  <2>2. count = Len(names) /\ IsInjective(names)
    BY <1>1 DEF NamesFit, AreNamed, IsObject
  <2>3. names[j] \in dialect.strings
    <3>1. DOMAIN names = 1 .. Len(names)
      BY <1>1
    <3> QED BY <1>1, <1>2, <2>2, <3>1 DEF ToSet
  <2>4. At(text, NameAt(text, state)) \in Strings
    BY <1>2 DEF Meets, IsObject
  <2>5. At(text, NameAt(text, state)) \in dialect.strings
    BY <2>1, <2>3, <2>4 DEF IsDialect, name
  <2>6. state.names = SubSeq(names, 1, i)
    <3>1. state.names = FirstNames(k, names, i)
      BY <1>6 DEF StateWith
    <3>2. FirstNames(k, names, i) = SubSeq(names, 1, i)
      BY DEF FirstNames, IsObject
    <3> QED BY <3>1, <3>2
  <2>7. ~Contains(SubSeq(names, 1, i), names[i + 1])
    <3>1. i \in 0 .. Len(names) - 1
      BY <2>2
    <3> QED BY <1>1, <2>2, <3>1, NextNameIsNew
  <2> QED BY <2>1, <2>5, <2>6, <2>7
<1>13. Continues(dialect, text, k, inner, state)
  <2>1. k = "{" => IsNamed(dialect, text, state)
    <3>1. k = "{" => At(text, ColonAt(text, state)) = ":"
      BY <1>2 DEF Meets
    <3> QED BY <1>12, <3>1 DEF IsNamed, NameAt, ColonAt, name
  <2>2. At(text, next) \in {Closing(k), ","}
    BY <1>5, <1>11
  <2> HIDE DEF next
  <2> QED BY <2>1, <2>2, <1>9 DEF Continues, next, start
<1>14. t = StateWith(next + 1, NewNames(k, state.names, name), Append(state.items, v),
                     IF At(text, next) = Closing(k) THEN "closed" ELSE "open")
  <2> DEFINE N == {FirstNames(k, names, i)}
             I == {SubSeq(items, 1, i)}
  <2>1. state \in [offset : Nat, names : N, items : I, status : {"open", "closed", "failed"}] /\ state.status = "open"
    <3>1. state.offset \in Nat
      BY <1>0, <1>2 DEF Places
    <3> QED BY <1>6, <3>1 DEF StateWith
  <2> HIDE DEF N, I
  <2>2. ParseItem(dialect, text, k, inner, state) =
          StateWith(NextAt(text, k, inner, state) + 1,
                    NewNames(k, state.names, DecodedString[At(text, NameAt(text, state))]),
                    Append(state.items, inner[StartAt(text, k, state)].value),
                    IF At(text, NextAt(text, k, inner, state)) = Closing(k) THEN "closed" ELSE "open")
    BY ONLY <1>13, <2>1, ParseItemIs
  <2>3. inner[StartAt(text, k, state)].value = v
    BY <1>9 DEF start
  <2> QED BY <2>2, <2>3 DEF name
<1> HIDE DEF next, read, t
<1>15. Append(state.items, v) = SubSeq(items, 1, j)
  <2>1. state.items = SubSeq(items, 1, i)
    BY <1>6 DEF StateWith
  <2>2. Append(SubSeq(items, 1, i), items[i + 1]) = SubSeq(items, 1, i + 1)
    BY <1>1, FirstSecrets
  <2> QED BY <2>1, <2>2 DEF v
<1>16. NewNames(k, state.names, name) = FirstNames(k, names, j)
  <2>0. state.names = FirstNames(k, names, i)
    BY <1>6 DEF StateWith
  <2>1. CASE IsObject(k)
    <3>1. count = Len(names)
      BY <1>1, <2>1 DEF NamesFit, AreNamed, IsObject
    <3>2. i \in 0 .. Len(names) - 1
      BY <3>1
    <3>3. Append(SubSeq(names, 1, i), names[i + 1]) = SubSeq(names, 1, i + 1)
      BY <1>1, <3>2, FirstSecrets
    <3>4. name = names[j]
      BY <1>12, <2>1 DEF IsObject
    <3> QED BY <2>0, <2>1, <3>3, <3>4 DEF NewNames, FirstNames, IsObject
  <2>2. CASE ~IsObject(k)
    BY <2>0, <2>2 DEF NewNames, FirstNames, IsObject
  <2> QED BY <2>1, <2>2
<1>17. (IF At(text, next) = Closing(k) THEN "closed" ELSE "open") = IF j = count THEN "closed" ELSE "open"
  BY <1>5, <1>11
<1>18. t = StateWith(next + 1, FirstNames(k, names, j), SubSeq(items, 1, j), IF j = count THEN "closed" ELSE "open")
  BY <1>14, <1>15, <1>16, <1>17
<1>19. t.offset = next + 1
  BY <1>18 DEF StateWith
<1>20. IF j = count THEN t.offset = marks[j + 1] + 1
       ELSE t.offset \in Places(text) /\ marks[j + 1] < t.offset /\ Ink(text, marks[j + 1] + 1, t.offset) = {}
  <2>1. t.offset = to + 1 /\ marks[j + 1] = to
    BY <1>4, <1>10, <1>19 DEF to
  <2>2. to + 1 \in Places(text) /\ to < to + 1 /\ Ink(text, to + 1, to + 1) = {}
    BY <1>0, <1>2 DEF Places, Ink
  <2> HIDE DEF j
  <2> QED BY <2>1, <2>2
<1> HIDE DEF j, count
<1>21. HasRead(text, k, names, items, marks, j, t)
  BY <1>18, <1>19, <1>20 DEF HasRead, count
<1> QED BY <1>21 DEF j, t

\* In front of the first item nothing has been read.
LEMMA HasReadNone ==
  ASSUME NEW text, NEW k, NEW names \in Seq(PlainStrings), NEW items \in Seq(Values), items # <<>>, NEW marks,
         NEW inside \in Places(text), marks[1] < inside, Ink(text, marks[1] + 1, inside) = {}
  PROVE  HasRead(text, k, names, items, marks, 0, Begun(inside))
<1>1. SubSeq(items, 1, 0) = <<>> /\ SubSeq(names, 1, 0) = <<>>
  OBVIOUS
<1>2. Begun(inside) = StateWith(inside, FirstNames(k, names, 0), SubSeq(items, 1, 0), "open")
  BY <1>1 DEF Begun, StateWith, FirstNames
<1>3. Begun(inside).offset = inside
  BY DEF Begun
<1>4. 0 + 1 = 1 /\ 0 # Len(items)
  BY EmptySeq
<1> QED BY <1>2, <1>3, <1>4 DEF HasRead

\* The loop reads all items.
LEMMA WalksItems ==
  ASSUME NEW dialect, IsDialect(dialect), NEW text \in Seq(Tokens), NEW n,
         NEW inner, ReadsAll(dialect, text, n, inner), NEW k, NEW names, NEW items, NEW marks,
         IsReadable(dialect, text, n, k, names, items, marks),
         NEW inside \in Places(text), marks[1] < inside, Ink(text, marks[1] + 1, inside) = {}
  PROVE  HasRead(text, k, names, items, marks, Len(items), ParseItems(dialect, text, k, inner, inside))
<1> DEFINE count == Len(items)
           Has(i, state) == HasRead(text, k, names, items, marks, i, state)
<1>1. PICK f : /\ f[0] = Begun(inside)
               /\ \A m \in Nat : f[m + 1] = ParseItem(dialect, text, k, inner, f[m])
               /\ ParseItems(dialect, text, k, inner, inside) = f[Len(text) + 1]
  BY ParseItemsIs
<1>2. /\ count \in Nat /\ count # 0 /\ items \in Seq(Values) /\ names \in Seq(PlainStrings)
      /\ Rowed(text, Spelled(text), k, names, items, marks)
  BY EmptySeq DEF IsReadable
<1>3. count < Len(text) /\ Len(text) \in Nat
  <2> HIDE DEF count
  <2>1. count = Len(items)
    BY DEF count
  <2> QED BY <1>2, <2>1, MarksAre, TextIs
<1>4. Has(0, f[0])
  BY <1>1, <1>2, HasReadNone DEF IsReadable
<1> DEFINE S == {i \in Nat : i <= count => Has(i, f[i])}
<1>5. 0 \in S
  BY <1>4
<1>6. ASSUME NEW i \in Nat, i \in S PROVE i + 1 \in S
  <2> SUFFICES ASSUME i + 1 <= count PROVE Has(i + 1, f[i + 1])
    OBVIOUS
  <2>1. i <= count /\ i \in 0 .. Len(items) - 1
    BY <1>2
  <2>2. Has(i, f[i])
    BY <1>6, <2>1
  <2> DEFINE state == f[i]
             t == ParseItem(dialect, text, k, inner, state)
  <2>3. f[i + 1] = t
    BY <1>1
  <2> HIDE DEF state
  <2>4. Has(i + 1, t)
    <3>1. HasRead(text, k, names, items, marks, i, state)
      BY <2>2 DEF state
    <3> QED BY <2>1, <3>1, WalksItem
  <2> QED BY <2>3, <2>4 DEF state
<1>7. Has(count, f[count])
  <2> HIDE DEF S, Has, count
  <2>1. \A i \in Nat : i \in S
    BY <1>5, <1>6, Induction
  <2> QED BY <1>2, <2>1 DEF S
<1>8. f[count].status = "closed"
  BY <1>7 DEF HasRead, StateWith
<1>9. \A m \in Nat : f[m] = f[count] => f[m + 1] = f[count]
  BY ZenonT(60), <1>1, <1>8 DEF ParseItem
<1>10. f[Len(text) + 1] = f[count]
  <2> HIDE DEF count
  <2>1. count <= Len(text) + 1 /\ Len(text) + 1 \in Nat
    BY <1>2, <1>3
  <2> QED BY <1>2, <1>9, <2>1, LoopStays
<1> QED BY <1>1, <1>7, <1>10

\* A value that is spelled and allowed.
LEMMA ReadsAllLeaf ==
  ASSUME NEW dialect, IsDialect(dialect), NEW text \in Seq(Tokens), NEW n \in Nat, n <= dialect.limit,
         NEW inner, NEW from \in Places(text), NEW to \in Places(text), NEW v \in Values, v.kind \notin Opening,
         Spells(text, from, to, v), Allowed(dialect, v, dialect.limit + 1 - (n + 1))
  PROVE  ReadsUpTo(text, ParseNested(dialect, text, inner, from), to, v)
<1> DEFINE offset == SkipWhitespace(text, from)
           token == At(text, offset)
           r == ParseNested(dialect, text, inner, from)
<1>0. Len(text) \in Nat /\ dialect.limit \in Nat /\ from \in Nat /\ to \in Nat
  BY TextIs DEF IsDialect, Places
<1>1. PICK i \in 1 .. Len(text) :
        Ink(text, from, to) = {i} /\ text[i] \in Atoms /\ v = Leaf(PlainToken(text[i]))
  BY SpellsLeaf
<1>2. from <= i /\ i < to /\ Ink(text, from, i) = {} /\ Ink(text, i + 1, to) = {} /\ text[i] \notin Whitespace
      /\ i + 1 \in Places(text) /\ i + 1 <= to
  <2>1. from <= i /\ i < to
    BY <1>0, <1>1 DEF Ink
  <2>2. i + 1 \in Places(text) /\ i + 1 <= to
    BY <1>0, <2>1 DEF Places
  <2> QED BY <1>0, <1>1, <2>1, <2>2, OneInk
<1>3. offset = i
  BY <1>0, <1>2, SkipOnly DEF Places
<1> HIDE DEF offset
<1>4. token = text[i]
  BY <1>3, TextIs
<1>5. text[i] \in AtomsOf(dialect) /\ text[i] \notin Opening
  <2> DEFINE depth == dialect.limit + 1 - (n + 1)
  <2>1. depth \in Nat
    BY <1>0
  <2> HIDE DEF depth
  <2>2. v.kind \in Opening \cup AtomsOf(dialect)
    BY <2>1, AllowedIs DEF depth
  <2>3. v.kind = PlainToken(text[i])
    BY <1>1 DEF Leaf, Tree
  <2> QED BY <1>1, <2>2, <2>3, DialectAtoms, AtomsAreNoMarks
<1>6. r = Parsed(i + 1, v)
  <2>1. r = CASE token \in Opening ->
                   IF At(text, SkipWhitespace(text, offset + 1)) = Closing(token)
                   THEN Parsed(SkipWhitespace(text, offset + 1) + 1, Tree(token, <<>>, <<>>))
                   ELSE IF ParseItems(dialect, text, token, inner, SkipWhitespace(text, offset + 1)).status = "closed"
                   THEN Parsed(ParseItems(dialect, text, token, inner, SkipWhitespace(text, offset + 1)).offset,
                               Tree(token, ParseItems(dialect, text, token, inner, SkipWhitespace(text, offset + 1)).names,
                                    ParseItems(dialect, text, token, inner, SkipWhitespace(text, offset + 1)).items))
                   ELSE Failed
              [] token \in AtomsOf(dialect) -> Parsed(offset + 1, Leaf(PlainToken(token)))
              [] OTHER -> Failed
    BY DEF ParseNested, offset
  <2> HIDE DEF token, r
  <2> QED BY <2>1, <1>1, <1>3, <1>4, <1>5
<1> HIDE DEF r
<1>7. r.offset = i + 1 /\ r.value = v
  BY <1>6 DEF Parsed
<1> QED BY <1>2, <1>7 DEF ReadsUpTo, r

\* A value that has items is read when the items are.
LEMMA ReadsAllNest ==
  ASSUME NEW dialect, IsDialect(dialect), NEW text \in Seq(Tokens), NEW n \in Nat, n <= dialect.limit,
         NEW inner, ReadsAll(dialect, text, n, inner),
         NEW from \in Places(text), NEW to \in Places(text), NEW v \in Values, v.kind \in Opening,
         Spells(text, from, to, v), Allowed(dialect, v, dialect.limit + 1 - (n + 1))
  PROVE  ReadsUpTo(text, ParseNested(dialect, text, inner, from), to, v)
<1> DEFINE k == v.kind
           count == Len(v.items)
           offset == SkipWhitespace(text, from)
           token == At(text, offset)
           inside == SkipWhitespace(text, offset + 1)
           read == ParseItems(dialect, text, token, inner, inside)
           r == ParseNested(dialect, text, inner, from)
<1>0. Len(text) \in Nat /\ dialect.limit \in Nat /\ from \in Nat /\ to \in Nat
  BY TextIs DEF IsDialect, Places
<1>1. PICK first, last \in 1 .. Len(text) :
        /\ IsBracketed(text, from, to, v.kind, first, last)
        /\ IF v.items = <<>> THEN Ink(text, first + 1, last) = {}
           ELSE \E marks : /\ Rowed(text, Spelled(text), v.kind, v.names, v.items, marks)
                           /\ marks[1] = first /\ marks[Len(marks)] = last
  BY ZenonT(60), SpellsNest
<1>2. /\ from <= first /\ first < last /\ last < to /\ Ink(text, from, first) = {} /\ Ink(text, last + 1, to) = {}
      /\ text[first] = k /\ text[last] = Closing(k) /\ last + 1 <= to
      /\ last + 1 \in Places(text) /\ first + 1 \in Places(text)
  <2>1. /\ from <= first /\ first < last /\ last < to /\ Ink(text, from, first) = {} /\ Ink(text, last + 1, to) = {}
        /\ text[first] = k /\ text[last] = Closing(k)
    BY <1>1 DEF IsBracketed
  <2>2. last + 1 <= to /\ last + 1 \in Places(text) /\ first + 1 \in Places(text)
    BY <1>0, <2>1 DEF Places
  <2> QED BY <2>1, <2>2
<1>3. offset = first
  <2>1. first \in from .. Len(text) + 1
    BY <1>0, <1>2
  <2>2. text[first] \notin Whitespace
    BY <1>2, TokensAre
  <2> QED BY <1>2, <2>1, <2>2, SkipOnly
<1> HIDE DEF offset
<1>4. token = k
  BY <1>2, <1>3, TextIs
<1>5. /\ v = Tree(k, v.names, v.items) /\ v.items \in Seq(Values) /\ v.names \in Seq(PlainStrings)
      /\ NamesFit(k, v.names, count)
  BY TreeIs DEF NamesFit, AreNamed, Opening
<1>6. /\ ToSet(v.names) \subseteq dialect.strings
      /\ \A i \in 1 .. Len(v.items) : Allowed(dialect, v.items[i], dialect.limit + 1 - n)
  <2> DEFINE depth == dialect.limit + 1 - (n + 1)
  <2>1. depth \in Nat /\ depth + 1 = dialect.limit + 1 - n
    BY <1>0
  <2> HIDE DEF depth
  <2>2. DOMAIN v.items = 1 .. Len(v.items)
    BY <1>5, SeqIs
  <2>3. Allowed(dialect, v, depth)
    BY DEF depth
  <2> QED BY <2>1, <2>2, <2>3, AllowedIs
<1>7. inside \in first + 1 .. Len(text) + 1 /\ inside \in Places(text) /\ Ink(text, first + 1, inside) = {}
      /\ (inside \in 1 .. Len(text) => text[inside] \notin Whitespace)
  BY <1>2, <1>3, SkipIs
<1>8. r = CASE token \in Opening ->
                 IF At(text, inside) = Closing(token)
                 THEN Parsed(inside + 1, Tree(token, <<>>, <<>>))
                 ELSE IF read.status = "closed"
                 THEN Parsed(read.offset, Tree(token, read.names, read.items))
                 ELSE Failed
            [] token \in AtomsOf(dialect) -> Parsed(offset + 1, Leaf(PlainToken(token)))
            [] OTHER -> Failed
  BY DEF ParseNested, offset
<1> HIDE DEF inside, read, r, token
<1>9. r = IF At(text, inside) = Closing(k) THEN Parsed(inside + 1, Tree(k, <<>>, <<>>))
          ELSE IF read.status = "closed" THEN Parsed(read.offset, Tree(k, read.names, read.items))
          ELSE Failed
  <2>1. k \in Opening /\ \A a \in AtomsOf(dialect) : a \notin Opening
    BY DialectAtoms, AtomsAreNoMarks
  <2> HIDE DEF k
  <2> QED BY <2>1, <1>4, <1>8
<1>10. \A a, b : Parsed(a, b).offset = a /\ Parsed(a, b).value = b
  BY DEF Parsed
<1>11. CASE v.items = <<>>
  <2>1. Ink(text, first + 1, last) = {}
    BY <1>1, <1>11
  <2>2. inside = last
    <3>1. last \in first + 1 .. Len(text) + 1
      BY <1>0, <1>2
    <3>2. text[last] \notin Whitespace
      BY <1>2, TokensAre
    <3> QED BY <1>2, <1>3, <2>1, <3>1, <3>2, SkipOnly DEF inside
  <2>3. At(text, inside) = Closing(k)
    BY <1>2, <2>2, TextIs
  <2>4. v.names = <<>>
    <3>1. k = "{" => Len(v.names) = 0
      BY <1>5, <1>11, EmptySeq DEF NamesFit, AreNamed
    <3>2. CASE Len(v.names) = 0
      BY <1>5, <3>2, EmptySeq
    <3>3. CASE k = "["
      BY <1>5, <3>3 DEF NamesFit
    <3> QED BY <3>1, <3>2, <3>3 DEF Opening
  <2>5. r.offset = last + 1 /\ r.value = v
    BY <1>5, <1>9, <1>10, <1>11, <2>2, <2>3, <2>4
  <2> QED BY <1>2, <2>5 DEF ReadsUpTo, r
<1>12. CASE v.items # <<>>
  <2>1. PICK marks : /\ Rowed(text, Spelled(text), k, v.names, v.items, marks)
                     /\ marks[1] = first /\ marks[Len(marks)] = last
    BY <1>1, <1>12
  <2>2. count \in Nat /\ Len(marks) = count + 1
    BY <1>5, <2>1, SeqIs DEF Rowed
  <2>3. IsReadable(dialect, text, n, k, v.names, v.items, marks)
    BY <1>2, <1>5, <1>6, <1>12, <2>1, <2>2 DEF IsReadable
  <2>4. marks[1] < inside /\ Ink(text, marks[1] + 1, inside) = {}
    BY <1>0, <1>7, <2>1 DEF Places
  <2>5. HasRead(text, k, v.names, v.items, marks, count, read)
    BY <1>4, <1>7, <2>3, <2>4, WalksItems DEF read
  <2>6. At(text, inside) # Closing(k)
    <3> DEFINE state == Begun(inside)
    <3>1. HasRead(text, k, v.names, v.items, marks, 0, state)
      BY <1>5, <1>7, <1>12, <2>4, HasReadNone
    <3>2. 0 \in 0 .. Len(v.items) - 1
      BY <1>5, <1>12, <2>2, EmptySeq
    <3>3. state.offset = inside
      BY DEF Begun
    <3> HIDE DEF state, k
    <3>4. Meets(text, k, state, marks[0 + 1], marks[0 + 2], v.items[0 + 1])
      BY <2>3, <3>1, <3>2, MeetsNext
    <3>5. At(text, SkipWhitespace(text, inside)) \in Atoms \cup Opening
      BY <3>3, <3>4 DEF Meets
    <3>6. SkipWhitespace(text, inside) = inside
      <4>1. Ink(text, inside, inside) = {} /\ inside \in inside .. Len(text) + 1
        BY <1>0, <1>7 DEF Ink, Places
      <4> QED BY <1>7, <4>1, SkipOnly
    <3> QED BY <3>5, <3>6, TokensAre
  <2>7. /\ read.status = "closed" /\ read.offset = last + 1
        /\ read.names = FirstNames(k, v.names, count) /\ read.items = SubSeq(v.items, 1, count)
    BY <2>1, <2>2, <2>5 DEF HasRead, StateWith
  <2>8. read.items = v.items /\ read.names = v.names
    <3>1. SubSeq(v.items, 1, count) = v.items /\ SubSeq(v.names, 1, Len(v.names)) = v.names
      BY <1>5
    <3>2. FirstNames(k, v.names, count) = v.names
      BY <1>5, <3>1 DEF NamesFit, AreNamed, FirstNames, Opening
    <3> QED BY <2>7, <3>1, <3>2
  <2>9. r.offset = last + 1 /\ r.value = v
    <3>1. v = Tree(k, v.names, v.items)
      BY <1>5
    <3> DEFINE w == Tree(k, v.names, v.items)
    <3>2. r = Parsed(read.offset, Tree(k, read.names, read.items))
      BY <1>9, <2>6, <2>7
    <3>3. r = Parsed(last + 1, w)
      BY <3>2, <2>7, <2>8
    <3> HIDE DEF w
    <3>4. r.offset = last + 1 /\ r.value = w
      BY <1>10, <3>3
    <3> QED BY <3>1, <3>4 DEF w
  <2> QED BY <1>2, <2>9 DEF ReadsUpTo, r
<1> QED BY <1>11, <1>12

\* The parser is complete.
THEOREM ReadsAllLevels ==
  ASSUME NEW dialect, IsDialect(dialect), NEW text \in Seq(Tokens)
  PROVE  \A n \in 0 .. dialect.limit + 1 : ReadsAll(dialect, text, n, ParseLevels(dialect, text, n))
<1> DEFINE P(n) == ParseLevels(dialect, text, n)
           S == {n \in Nat : n <= dialect.limit + 1 => ReadsAll(dialect, text, n, P(n))}
<1>0. dialect.limit \in Nat
  BY DEF IsDialect
<1>p. Places(text) \subseteq Nat
  BY TextIs DEF Places
<1>1. 0 \in S
  <2>1. ASSUME NEW v \in Values PROVE ~Allowed(dialect, v, dialect.limit + 1 - 0)
    <3> DEFINE depth == dialect.limit + 1 - 0
    <3>1. depth \in Nat /\ ~(depth <= dialect.limit)
      BY <1>0
    <3> HIDE DEF depth
    <3> QED BY <3>1, AllowedIs DEF depth
  <2> HIDE DEF P
  <2> QED BY <2>1 DEF ReadsAll
<1>2. ASSUME NEW n \in Nat, n \in S PROVE n + 1 \in S
  <2> SUFFICES ASSUME n + 1 <= dialect.limit + 1 PROVE ReadsAll(dialect, text, n + 1, P(n + 1))
    OBVIOUS
  <2>1. n <= dialect.limit /\ n <= dialect.limit + 1
    BY <1>0
  <2>3. ReadsAll(dialect, text, n, P(n))
    BY <1>2, <2>1
  <2>4. ASSUME NEW from \in Places(text), NEW to \in Places(text), NEW v \in Values,
               Spells(text, from, to, v), Allowed(dialect, v, dialect.limit + 1 - (n + 1))
        PROVE  ReadsUpTo(text, P(n + 1)[from], to, v)
    <3>1. P(n + 1)[from] = ParseNested(dialect, text, P(n), from)
      BY <1>p, ParseLevelsIs
    <3> HIDE DEF P
    <3>2. ReadsUpTo(text, ParseNested(dialect, text, P(n), from), to, v)
      <4>1. CASE v.kind \in Opening
        BY <2>1, <2>3, <2>4, <4>1, ReadsAllNest
      <4>2. CASE v.kind \notin Opening
        BY <2>1, <2>4, <4>2, ReadsAllLeaf
      <4> QED BY <4>1, <4>2
    <3> QED BY <3>1, <3>2
  <2> HIDE DEF P
  <2> QED BY <2>4 DEF ReadsAll
<1>3. \A n \in Nat : n \in S
  <2> HIDE DEF S
  <2> QED BY <1>1, <1>2, Induction
<1>4. ASSUME NEW n \in 0 .. dialect.limit + 1 PROVE ReadsAll(dialect, text, n, P(n))
  <2>1. n \in Nat /\ n <= dialect.limit + 1
    BY <1>0
  <2>2. n \in S
    BY <1>3, <2>1
  <2> QED BY <2>1, <2>2
<1> QED BY <1>4

\* What a copy of the reader makes of a text.
IsReading(dialect, text, read) ==
  /\ read.offset # 0 =>
       /\ read.value \in Values /\ Spells(text, 1, Len(text) + 1, read.value)
       /\ Allowed(dialect, read.value, dialect.start)
  /\ read.offset = 0 => read = Failed
  /\ \A v \in Values :
       Spells(text, 1, Len(text) + 1, v) /\ Allowed(dialect, v, dialect.start) =>
         read.offset # 0 /\ read.value = v

\* Each copy of the reader reads the values that a text spells and its limits
\* allow, and no others.
THEOREM ReaderIs ==
  ASSUME NEW dialect, IsDialect(dialect), NEW text \in Seq(Tokens)
  PROVE  IsReading(dialect, text, ParseText(dialect, text))
<1> DEFINE n == dialect.limit + 1 - dialect.start
           inner == ParseLevels(dialect, text, n)
           from == SkipWhitespace(text, 1)
           to == Len(text) + 1
           read == inner[from]
           at == SkipWhitespace(text, read.offset)
           r == ParseText(dialect, text)
<1>0. Len(text) \in Nat /\ dialect.limit \in Nat /\ dialect.start \in Nat /\ dialect.start <= dialect.limit + 1
  BY TextIs DEF IsDialect
<1>1. n \in 0 .. dialect.limit + 1 /\ dialect.limit + 1 - n = dialect.start /\ n <= dialect.limit + 1
      /\ 1 \in Places(text) /\ to \in Places(text) /\ Ink(text, to, to) = {} /\ to <= to
  BY <1>0 DEF Places, Ink
<1>2. r = IF read.offset # 0 /\ at = to THEN read ELSE Failed
  BY DEF ParseText, ReadToEnd, ParseJSON
<1>3. from \in Places(text) /\ 1 <= from /\ from <= to /\ Ink(text, 1, from) = {}
  BY <1>0, <1>1, SkipIs
<1> HIDE DEF n
<1>4. IsSound(dialect, text, n, inner) /\ ReadsAll(dialect, text, n, inner)
  BY <1>1, ReadsLevels, ReadsAllLevels
<1>5. ValuesOf[n] \subseteq Values
  BY <1>0, <1>1, ValuesOfLevels
<1> HIDE DEF from, inner, r, to, at
<1>6. Failed.offset = 0
  BY DEF Failed
<1>7. ASSUME r.offset # 0
      PROVE  r.value \in Values /\ Spells(text, 1, to, r.value) /\ Allowed(dialect, r.value, dialect.start)
  <2>1. r = read /\ read.offset # 0 /\ at = to
    BY <1>2, <1>6, <1>7
  <2> DEFINE v == read.value
             mid == read.offset
  <2>2. IsRead(dialect, text, n, from, mid, v)
    BY <1>3, <1>4, <2>1 DEF IsSound
  <2> HIDE DEF v, mid
  <2>3. mid \in Places(text) /\ v \in Values /\ Spells(text, from, mid, v) /\ Allowed(dialect, v, dialect.start)
    BY <1>1, <1>5, <2>2 DEF IsRead
  <2>4. mid <= to /\ from <= mid /\ Ink(text, mid, to) = {}
    <3>1. mid <= to
      BY <1>0, <2>3 DEF Places, to
    <3>2. from <= mid
      BY <1>0, <1>3, <2>3, SpellsStart DEF Places
    <3>3. Ink(text, mid, to) = {}
      BY <2>1, <2>3, SkipIs DEF at, mid
    <3> QED BY <3>1, <3>2, <3>3
  <2>5. Spells(text, 1, to, v)
    BY <1>1, <1>3, <2>3, <2>4, SpellsPad
  <2> QED BY <2>1, <2>3, <2>5 DEF v
<1>8. ASSUME NEW v \in Values, Spells(text, 1, to, v), Allowed(dialect, v, dialect.start)
      PROVE  r.offset # 0 /\ r.value = v
  <2>1. Spells(text, from, to, v)
    <3>1. PICK i \in 1 .. Len(text) : 1 <= i /\ i < to /\ Ink(text, 1, i) = {} /\ text[i] \in Atoms \cup Opening
      BY <1>1, <1>8, SpellsStart
    <3>2. SkipWhitespace(text, 1) = i
      <4>1. i \in 1 .. Len(text) + 1
        BY <1>0
      <4>2. text[i] \notin Whitespace
        BY <3>1, TokensAre
      <4> QED BY <1>1, <3>1, <4>1, <4>2, SkipOnly
    <3> QED BY <1>1, <1>3, <1>8, SpellsPad
  <2>2. Allowed(dialect, v, dialect.limit + 1 - n)
    BY <1>1, <1>8
  <2>3. ReadsUpTo(text, read, to, v)
    BY <1>1, <1>3, <1>4, <2>1, <2>2 DEF ReadsAll
  <2> DEFINE mid == read.offset
  <2> HIDE DEF read
  <2>4. mid \in Places(text) /\ read.value = v /\ mid <= to /\ Ink(text, mid, to) = {}
    BY <2>3 DEF ReadsUpTo
  <2>5. mid # 0
    BY <1>0, <2>4 DEF Places
  <2> HIDE DEF mid
  <2>6. SkipWhitespace(text, mid) = to
    <3>1. to \in mid .. Len(text) + 1
      BY <1>0, <2>4 DEF Places, to
    <3>2. ~(to \in 1 .. Len(text))
      BY <1>0 DEF to
    <3> QED BY <2>4, <3>1, <3>2, SkipOnly
  <2>7. at = to /\ read.offset # 0
    BY <2>5, <2>6 DEF at, mid, read
  <2> QED BY <1>2, <2>4, <2>7
<1>9. r.offset = 0 => r = Failed
  BY <1>2
<1> QED BY <1>7, <1>8, <1>9 DEF IsReading, r, to

\* Where a value may stand as one dialect says and as another one says, it may
\* stand by a third one that has room and what the two have in common.
LEMMA AllowedBoth ==
  ASSUME NEW a, NEW b, NEW c, a.limit \in Nat, c.limit \in Nat,
         AtomsOf(a) \cap AtomsOf(b) \subseteq AtomsOf(c), a.strings \cap b.strings \subseteq c.strings,
         NEW v \in Values
  PROVE  \A d, e, f \in Nat :
           f + a.limit <= d + c.limit /\ Allowed(a, v, d) /\ Allowed(b, v, e) => Allowed(c, v, f)
<1> DEFINE S == {w \in Values : \A d, e, f \in Nat :
             f + a.limit <= d + c.limit /\ Allowed(a, w, d) /\ Allowed(b, w, e) => Allowed(c, w, f)}
<1>1. ASSUME NEW w \in Values, \A i \in DOMAIN w.items : w.items[i] \in S
      PROVE  w \in S
  <2> SUFFICES ASSUME NEW d \in Nat, NEW e \in Nat, NEW f \in Nat,
                      f + a.limit <= d + c.limit, Allowed(a, w, d), Allowed(b, w, e)
               PROVE  Allowed(c, w, f)
    OBVIOUS
  <2>1. /\ d <= a.limit /\ w.kind \in Opening \cup AtomsOf(a) /\ ToSet(w.names) \subseteq a.strings
        /\ \A i \in DOMAIN w.items : Allowed(a, w.items[i], d + 1)
    BY AllowedIs
  <2>2. /\ w.kind \in Opening \cup AtomsOf(b) /\ ToSet(w.names) \subseteq b.strings
        /\ \A i \in DOMAIN w.items : Allowed(b, w.items[i], e + 1)
    BY AllowedIs
  <2>3. f <= c.limit
    BY <2>1
  <2>4. \A i \in DOMAIN w.items : Allowed(c, w.items[i], f + 1)
    <3>1. d + 1 \in Nat /\ e + 1 \in Nat /\ f + 1 \in Nat /\ f + 1 + a.limit <= d + 1 + c.limit
      OBVIOUS
    <3> QED BY <1>1, <2>1, <2>2, <3>1
  <2>5. w.kind \in Opening \cup AtomsOf(c) /\ ToSet(w.names) \subseteq c.strings
    BY <2>1, <2>2
  <2> QED BY <2>3, <2>4, <2>5, AllowedIs
<1>2. Values \subseteq S
  <2> HIDE DEF S
  <2> QED BY <1>1, ValueInduction
<1> QED BY <1>2

\* A dialect that has room for all values.
Wide == [limit |-> Levels - 1, start |-> 0, strings |-> Strings, numbers |-> Numbers]

\* That dialect has every value.
LEMMA WideIs ==
  /\ Levels \in Nat => Wide.limit = Levels - 1
  /\ IsDialect(Wide) /\ \A v \in Values : Allowed(Wide, v, 0)
<1>1. SDKDepth \in Nat /\ SDKDepth < Levels /\ Levels \in Nat
  BY JSONAssumption
<1>2. Wide.limit \in Nat /\ Wide.limit + 1 = Levels /\ Wide.limit < Levels
  BY <1>1 DEF Wide
<1>3. \A string \in Strings : DecodedString[string] \in Strings
  BY JSONAssumption
<1>4. IsDialect(Wide)
  BY <1>2, <1>3 DEF IsDialect, Wide
<1>5. PlainAtoms \subseteq AtomsOf(Wide) /\ PlainStrings \subseteq Wide.strings
  BY AtomsAreNoMarks DEF Wide, AtomsOf, Atoms
<1> HIDE DEF Wide
<1> DEFINE S == {n \in Nat : \A v \in Values : \A d \in Nat : v \in ValuesOf[n] /\ d + n <= Levels => Allowed(Wide, v, d)}
<1>6. 0 \in S
  BY ValuesOfIs
<1>7. ASSUME NEW n \in Nat, n \in S PROVE n + 1 \in S
  <2> SUFFICES ASSUME NEW v \in Values, NEW d \in Nat, v \in ValuesOf[n + 1], d + (n + 1) <= Levels
               PROVE  Allowed(Wide, v, d)
    OBVIOUS
  <2>1. IsTree(v, ValuesOf[n])
    BY ValuesOfIs, NestsAre
  <2>2. \A i \in DOMAIN v.items : v.items[i] \in ValuesOf[n] /\ v.items[i] \in Values
    <3>1. \A i \in DOMAIN v.items : v.items[i] \in ValuesOf[n]
      <4>1. v.items = <<>> \/ v.items \in Seq(ValuesOf[n])
        BY <2>1 DEF IsTree
      <4>2. CASE v.items = <<>>
        BY <4>2
      <4>3. CASE v.items \in Seq(ValuesOf[n])
        BY <4>3, SeqIs
      <4> QED BY <4>1, <4>2, <4>3
    <3> QED BY <3>1, ValueIs
  <2>3. \A i \in DOMAIN v.items : Allowed(Wide, v.items[i], d + 1)
    <3>1. d + 1 \in Nat /\ d + 1 + n <= Levels
      BY <1>1
    <3> QED BY <1>7, <2>2, <3>1
  <2>4. v.kind \in Opening \cup AtomsOf(Wide) /\ ToSet(v.names) \subseteq Wide.strings
    <3>1. v.names \in Seq(PlainStrings) /\ (v.kind \in PlainAtoms \/ v.kind \in Opening)
      BY TreeIs
    <3> QED BY <1>5, <3>1 DEF ToSet
  <2>5. d <= Wide.limit
    BY <1>1, <1>2
  <2> QED BY <2>3, <2>4, <2>5, AllowedIs
<1>8. \A n \in Nat : n \in S
  <2> HIDE DEF S
  <2> QED BY <1>6, <1>7, Induction
<1>9. ASSUME NEW v \in Values PROVE Allowed(Wide, v, 0)
  <2>1. Levels \in S /\ 0 + Levels <= Levels /\ v \in ValuesOf[Levels]
    BY <1>1, <1>8 DEF Values
  <2> QED BY <2>1
<1> QED BY <1>1, <1>2, <1>4, <1>9 DEF Wide

\* No text spells two values.
THEOREM SpelledOnce ==
  ASSUME NEW text \in Seq(Tokens), NEW v \in Values, NEW w \in Values,
         Spells(text, 1, Len(text) + 1, v), Spells(text, 1, Len(text) + 1, w)
  PROVE  v = w
<1> DEFINE r == ParseText(Wide, text)
<1>1. IsReading(Wide, text, r)
  BY WideIs, ReaderIs
<1>2. Wide.start = 0
  BY DEF Wide
<1> HIDE DEF r
<1>3. Allowed(Wide, v, Wide.start) /\ Allowed(Wide, w, Wide.start)
  BY <1>2, WideIs
<1> QED BY <1>1, <1>3 DEF IsReading

\* A plain token is understood as itself.
LEMMA PlainTwice ==
  ASSUME NEW token \in PlainAtoms
  PROVE  PlainToken(token) = token /\ token \in Atoms /\ token \notin Whitespace /\ token \notin Opening
<1>1. PICK a \in Atoms : token = PlainToken(a)
  BY DEF PlainAtoms
<1>2. \A string \in Strings : DecodedString[string] \in Strings /\ DecodedString[DecodedString[string]] = DecodedString[string]
  BY JSONAssumption
<1>3. PlainToken(token) = token
  <2>1. CASE a \in Strings
    BY <1>1, <1>2, <2>1 DEF PlainToken
  <2>2. CASE a \notin Strings
    BY <1>1, <2>2 DEF PlainToken
  <2> QED BY <2>1, <2>2
<1> QED BY <1>3, AtomsAreNoMarks

\* Where a text has a sequence of tokens.
Placed(text, from, s) ==
  /\ from + Len(s) \in Places(text)
  /\ \A i \in 1 .. Len(s) : text[from + i - 1] = s[i]

\* A sequence of two has them one behind the other.
LEMMA PlacedParts ==
  ASSUME NEW text \in Seq(Tokens), NEW from \in Places(text), NEW s \in Seq(PlainTokens), NEW t \in Seq(PlainTokens),
         Placed(text, from, s \o t)
  PROVE  Placed(text, from, s) /\ Placed(text, from + Len(s), t)
         /\ from + Len(s) \in Places(text) /\ from + Len(s \o t) = from + Len(s) + Len(t)
<1> DEFINE a == Len(s)
           b == Len(t)
           st == s \o t
<1>0. Len(text) \in Nat /\ from \in Nat /\ 1 <= from /\ a \in Nat /\ b \in Nat
  BY TextIs DEF Places
<1>1. /\ Len(st) = a + b
      /\ \A i \in 1 .. a : st[i] = s[i]
      /\ \A i \in 1 .. b : st[a + i] = t[i]
  BY ConcatIs
<1>2. from + Len(st) \in Places(text) /\ \A i \in 1 .. Len(st) : text[from + i - 1] = st[i]
  BY DEF Placed
<1>3. from + a \in Places(text) /\ from + a + b \in Places(text)
  <2> HIDE DEF st, a, b
  <2> QED BY <1>0, <1>1, <1>2 DEF Places
<1>4. \A i \in 1 .. a : text[from + i - 1] = s[i]
  <2> HIDE DEF st, a, b
  <2> TAKE i \in 1 .. a
  <2>1. i \in 1 .. Len(st)
    BY <1>0, <1>1
  <2> QED BY <1>1, <1>2, <2>1
<1>5. \A i \in 1 .. b : text[from + a + i - 1] = t[i]
  <2> HIDE DEF st, a, b
  <2> TAKE i \in 1 .. b
  <2>1. a + i \in 1 .. Len(st) /\ from + (a + i) - 1 = from + a + i - 1
    BY <1>0, <1>1
  <2>2. text[from + (a + i) - 1] = st[a + i]
    BY <1>2, <2>1
  <2> QED BY <1>1, <2>1, <2>2
<1>6. from + Len(st) = from + a + b
  <2> HIDE DEF st, a, b
  <2> QED BY <1>0, <1>1
<1> HIDE DEF a, b
<1>7. Placed(text, from, s) /\ Placed(text, from + Len(s), t)
  BY <1>3, <1>4, <1>5 DEF Placed, a, b
<1> HIDE DEF st
<1> QED BY <1>3, <1>6, <1>7 DEF a, b, st

\* A single token.
LEMMA PlacedOne ==
  ASSUME NEW text \in Seq(Tokens), NEW from \in Places(text), NEW token \in PlainTokens, Placed(text, from, <<token>>)
  PROVE  /\ from \in 1 .. Len(text) /\ text[from] = token /\ from + 1 \in Places(text)
         /\ token \notin Whitespace /\ Ink(text, from, from + 1) = {from}
<1>0. Len(text) \in Nat /\ from \in Nat /\ 1 <= from /\ Len(<<token>>) = 1 /\ <<token>>[1] = token
  BY TextIs DEF Places
<1>1. token \notin Whitespace
  BY AtomsAreNoMarks, TokensAre DEF PlainTokens
<1>2. from + 1 \in Places(text)
  BY <1>0 DEF Placed
<1>3. text[from] = token
  <2>1. 1 \in 1 .. Len(<<token>>) /\ from + 1 - 1 = from
    BY <1>0
  <2> QED BY <1>0, <2>1 DEF Placed
<1>4. from \in 1 .. Len(text)
  BY <1>0, <1>2 DEF Places
<1> QED BY <1>0, <1>1, <1>2, <1>3, <1>4 DEF Ink

\* Two tokens are one and another.
LEMMA TwoTokens ==
  ASSUME NEW a \in PlainTokens, NEW b \in PlainTokens
  PROVE  /\ <<a, b>> = <<a>> \o <<b>> /\ <<a>> \in Seq(PlainTokens) /\ <<b>> \in Seq(PlainTokens)
         /\ <<a, b>> \in Seq(PlainTokens) /\ Len(<<a>>) = 1 /\ Len(<<b>>) = 1 /\ Len(<<a, b>>) = 2
<1> DEFINE x == <<a>>
           y == <<b>>
           z == <<a, b>>
<1>1. /\ x \in Seq(PlainTokens) /\ Len(x) = 1 /\ x[1] = a /\ y \in Seq(PlainTokens) /\ Len(y) = 1 /\ y[1] = b
      /\ z \in Seq(PlainTokens) /\ Len(z) = 2 /\ z[1] = a /\ z[2] = b
  OBVIOUS
<1> HIDE DEF x, y, z
<1>2. x \o y \in Seq(PlainTokens) /\ Len(x \o y) = 2 /\ (x \o y)[1] = a /\ (x \o y)[2] = b
  <2>1. /\ x \o y \in Seq(PlainTokens) /\ Len(x \o y) = Len(x) + Len(y)
        /\ \A i \in 1 .. Len(x) : (x \o y)[i] = x[i]
        /\ \A i \in 1 .. Len(y) : (x \o y)[Len(x) + i] = y[i]
    <3>1. x \in Seq(PlainTokens)
      BY <1>1
    <3>2. y \in Seq(PlainTokens)
      BY <1>1
    <3> QED BY <3>1, <3>2, ConcatIs
  <2>2. (x \o y)[1] = x[1] /\ (x \o y)[1 + 1] = y[1]
    BY <1>1, <2>1
  <2> QED BY <1>1, <2>1, <2>2
<1>3. z = x \o y
  <2>1. \A i \in 1 .. 2 : z[i] = (x \o y)[i]
    BY <1>1, <1>2
  <2> QED BY <1>1, <1>2, <2>1, SameSeq
<1> QED BY <1>1, <1>3 DEF x, y, z

\* What is written of a value is read as the value wherever it stands.
Writes(text, v) ==
  \A from \in Places(text) :
    Placed(text, from, Encode[v]) => Spells(text, from, from + Len(Encode[v]), v)

\* What is written of a leaf spells it.
LEMMA WritesLeaf ==
  ASSUME NEW text \in Seq(Tokens), NEW v \in Values, v.kind \notin Opening
  PROVE  Writes(text, v)
<1> DEFINE k == v.kind
<1>1. Encode[v] = <<k>>
  BY EncodeIs DEF EncodeOf
<1>2. k \in PlainAtoms /\ k \in PlainTokens /\ PlainToken(k) = k /\ k \in Atoms
  BY TreeIs, PlainTwice DEF PlainTokens
<1>3. v = Leaf(PlainToken(k))
  BY <1>2, TreeIs DEF Leaf
<1>4. Len(<<k>>) = 1
  OBVIOUS
<1> HIDE DEF k
<1>5. ASSUME NEW from \in Places(text), Placed(text, from, <<k>>)
      PROVE  Spells(text, from, from + 1, v)
  <2>1. from \in 1 .. Len(text) /\ text[from] = k /\ from + 1 \in Places(text) /\ Ink(text, from, from + 1) = {from}
    BY <1>2, <1>5, PlacedOne
  <2> DEFINE to == from + 1
  <2>2. Ink(text, from, to) = {from} /\ text[from] \in Atoms /\ v = Leaf(PlainToken(text[from])) /\ to \in Places(text)
    BY <1>2, <1>3, <2>1
  <2> HIDE DEF to
  <2>3. Spells(text, from, to, v)
    BY <2>1, <2>2, SpellsLeaf
  <2> QED BY <2>3 DEF to
<1> QED BY <1>1, <1>4, <1>5 DEF Writes

\* What is written of an empty list or object spells it.
LEMMA WritesEmpty ==
  ASSUME NEW text \in Seq(Tokens), NEW v \in Values, v.kind \in Opening, v.items = <<>>
  PROVE  Writes(text, v)
<1> DEFINE k == v.kind
           c == Closing(k)
<1>1. Encode[v] = <<k, c>>
  BY EncodeIs DEF EncodeOf
<1>2. k \in PlainTokens /\ c \in PlainTokens
  BY DEF PlainTokens, Closing
<1> HIDE DEF k, c
<1>3. <<k, c>> = <<k>> \o <<c>> /\ Len(<<k, c>>) = 2 /\ Len(<<k>>) = 1
      /\ <<k>> \in Seq(PlainTokens) /\ <<c>> \in Seq(PlainTokens)
  BY <1>2, TwoTokens
<1>4. ASSUME NEW from \in Places(text), Placed(text, from, <<k>> \o <<c>>)
      PROVE  Spells(text, from, from + 2, v)
  <2>0. Len(text) \in Nat /\ from \in Nat
    BY TextIs DEF Places
  <2> DEFINE last == from + 1
             to == from + 2
  <2>1. Placed(text, from, <<k>>) /\ Placed(text, last, <<c>>) /\ last \in Places(text)
    BY <1>3, <1>4, PlacedParts
  <2>2. from \in 1 .. Len(text) /\ text[from] = k
    BY <1>2, <2>1, PlacedOne
  <2>3. last \in 1 .. Len(text) /\ text[last] = c /\ last + 1 \in Places(text)
    BY <1>2, <2>1, PlacedOne
  <2>4. last + 1 = to /\ from < last /\ last < to
    BY <2>0
  <2>5. Ink(text, from, from) = {} /\ Ink(text, last + 1, to) = {} /\ Ink(text, from + 1, last) = {}
    BY <2>0 DEF Ink
  <2> HIDE DEF last, to
  <2>6. IsBracketed(text, from, to, k, from, last)
    BY <2>0, <2>2, <2>3, <2>4, <2>5 DEF IsBracketed, c
  <2>7. to \in Places(text)
    BY <2>3, <2>4
  <2>8. Spells(text, from, to, v)
    BY <2>2, <2>3, <2>5, <2>6, <2>7, SpellsNest DEF k
  <2> QED BY <2>8 DEF to
<1> QED BY <1>1, <1>3, <1>4 DEF Writes

\* An item behind its mark.
LEMMA WritesItem ==
  ASSUME NEW text \in Seq(Tokens), NEW v \in Values, Writes(text, v), NEW m \in PlainTokens,
         NEW mark \in Places(text), Placed(text, mark, (<<m>> \o <<>>) \o Encode[v])
  PROVE  /\ mark \in 1 .. Len(text) /\ text[mark] = m
         /\ Spells(text, mark + 1, mark + Len((<<m>> \o <<>>) \o Encode[v]), v)
<1> DEFINE e == Encode[v]
<1>0. e \in Seq(PlainTokens) /\ <<m>> \in Seq(PlainTokens) /\ <<m>> \o <<>> = <<m>> /\ Len(<<m>>) = 1
  BY EncodeIs
<1> HIDE DEF e
<1>1. Placed(text, mark, <<m>> \o e)
  BY <1>0 DEF e
<1>2. /\ Placed(text, mark, <<m>>) /\ Placed(text, mark + 1, e)
      /\ mark + 1 \in Places(text) /\ mark + Len(<<m>> \o e) = mark + 1 + Len(e)
  BY ZenonT(60), <1>0, <1>1, PlacedParts
<1>3. Spells(text, mark + 1, mark + 1 + Len(e), v)
  BY <1>2 DEF Writes, e
<1> QED BY <1>0, <1>2, <1>3, PlacedOne DEF e

\* A named item behind its mark.
LEMMA WritesNamed ==
  ASSUME NEW text \in Seq(Tokens), NEW v \in Values, Writes(text, v), NEW m \in PlainTokens, NEW name \in PlainStrings,
         NEW mark \in Places(text), Placed(text, mark, (<<m>> \o <<name, ":">>) \o Encode[v])
  PROVE  /\ mark \in 1 .. Len(text) /\ text[mark] = m
         /\ mark + 1 \in 1 .. Len(text) /\ text[mark + 1] = name /\ name \in Strings /\ name \notin Whitespace
         /\ mark + 2 \in 1 .. Len(text) /\ text[mark + 2] = ":"
         /\ Spells(text, mark + 3, mark + Len((<<m>> \o <<name, ":">>) \o Encode[v]), v)
<1> DEFINE e == Encode[v]
           head == <<m>> \o <<name, ":">>
           c == ":"
<1>0. Len(text) \in Nat /\ mark \in Nat
  BY TextIs DEF Places
<1>1. e \in Seq(PlainTokens) /\ name \in PlainTokens /\ name \in Strings /\ name \notin Whitespace /\ c \in PlainTokens
  BY EncodeIs, AtomsAreNoMarks, PlainTwice DEF PlainTokens
<1> HIDE DEF e, c
<1>2. <<m>> \in Seq(PlainTokens) /\ <<name, c>> \in Seq(PlainTokens) /\ <<name>> \in Seq(PlainTokens)
      /\ <<c>> \in Seq(PlainTokens) /\ <<name, c>> = <<name>> \o <<c>>
      /\ Len(<<m>>) = 1 /\ Len(<<name>>) = 1 /\ Len(<<c>>) = 1
  BY <1>1
<1>3. head \in Seq(PlainTokens) /\ Len(head) = 3 /\ head = <<m>> \o <<name, c>>
  BY <1>2 DEF c
<1> HIDE DEF head
<1>4. Placed(text, mark, head \o e)
  BY DEF head, e
<1>5. /\ Placed(text, mark, head) /\ Placed(text, mark + 3, e)
      /\ mark + 3 \in Places(text) /\ mark + Len(head \o e) = mark + 3 + Len(e)
  <2>1. Len(head) = 3 /\ head \in Seq(PlainTokens)
    BY <1>3
  <2>2. /\ Placed(text, mark, head) /\ Placed(text, mark + Len(head), e)
        /\ mark + Len(head) \in Places(text) /\ mark + Len(head \o e) = mark + Len(head) + Len(e)
    BY <1>1, <1>4, <2>1, PlacedParts
  <2> QED BY <2>1, <2>2
<1>6. Spells(text, mark + 3, mark + 3 + Len(e), v)
  BY <1>5 DEF Writes, e
<1>7. Placed(text, mark, <<m>>) /\ Placed(text, mark + 1, <<name>> \o <<c>>) /\ mark + 1 \in Places(text)
  <2> DEFINE x == <<m>>
             y == <<name>> \o <<c>>
  <2>1. head = x \o y /\ x \in Seq(PlainTokens) /\ Len(x) = 1 /\ y \in Seq(PlainTokens)
    BY <1>2, <1>3
  <2> HIDE DEF x, y
  <2>2. Placed(text, mark, x) /\ Placed(text, mark + Len(x), y) /\ mark + Len(x) \in Places(text)
    BY <1>5, <2>1, PlacedParts
  <2> QED BY <2>1, <2>2 DEF x, y
<1> DEFINE a == mark + 1
           b == mark + 2
<1>8. Placed(text, a, <<name>> \o <<c>>) /\ a \in Places(text) /\ a + 1 = b
  BY <1>0, <1>7
<1> HIDE DEF a, b
<1>9. Placed(text, a, <<name>>) /\ Placed(text, b, <<c>>) /\ b \in Places(text)
  BY ZenonT(60), <1>2, <1>8, PlacedParts
<1>10. a \in 1 .. Len(text) /\ text[a] = name /\ b \in 1 .. Len(text) /\ text[b] = c
  BY <1>1, <1>8, <1>9, PlacedOne
<1>11. mark \in 1 .. Len(text) /\ text[mark] = m
  BY <1>7, PlacedOne
<1> QED BY <1>1, <1>5, <1>6, <1>10, <1>11 DEF a, b, head, e, c

\* What is written of an item is behind its mark what the grammar expects.
IsWritten(text, k, m, mark, next, name, v) ==
  /\ mark \in 1 .. Len(text) /\ text[mark] = m /\ mark < next
  /\ k = "{" => name = NameOf(text, mark + 1)
  /\ \E start \in ValueStarts(Strings, text, k, mark + 1, next) : <<start, next>> \in Spelled(text)[v]

\* What is written of an item of a list is a part of its row.
LEMMA ListPart ==
  ASSUME NEW text \in Seq(Tokens), NEW v \in Values, Writes(text, v), NEW m \in PlainTokens, NEW name,
         NEW mark \in Places(text), NEW next \in Places(text), Placed(text, mark, (<<m>> \o <<>>) \o Encode[v]),
         next = mark + Len((<<m>> \o <<>>) \o Encode[v])
  PROVE  IsWritten(text, "[", m, mark, next, name, v)
<1>0. Len(text) \in Nat
  BY TextIs
<1>1. mark \in 1 .. Len(text) /\ text[mark] = m /\ Spells(text, mark + 1, next, v)
  BY WritesItem
<1> DEFINE a == mark + 1
<1>2. a \in Places(text) /\ mark < a
  BY <1>0, <1>1 DEF Places
<1>3. a \in ValueStarts(Strings, text, "[", mark + 1, next)
  BY DEF ValueStarts
<1>4. Spells(text, a, next, v)
  BY <1>1
<1> HIDE DEF a
<1>5. PICK i \in 1 .. Len(text) : a <= i /\ i < next
  BY <1>2, <1>4, SpellsStart
<1>6. mark < next
  BY <1>0, <1>2, <1>5 DEF Places
<1> QED BY <1>1, <1>3, <1>4, <1>6 DEF IsWritten, Spells

\* What is written of a field of an object is a part of its row.
LEMMA ObjectPart ==
  ASSUME NEW text \in Seq(Tokens), NEW v \in Values, Writes(text, v), NEW m \in PlainTokens, NEW name \in PlainStrings,
         NEW mark \in Places(text), NEW next \in Places(text),
         Placed(text, mark, (<<m>> \o <<name, ":">>) \o Encode[v]),
         next = mark + Len((<<m>> \o <<name, ":">>) \o Encode[v]), NEW k, IsObject(k)
  PROVE  IsWritten(text, k, m, mark, next, name, v)
<1>0. Len(text) \in Nat /\ mark \in Nat /\ next \in Nat
  BY TextIs DEF Places
<1> DEFINE a == mark + 1
           b == mark + 2
           c == mark + 3
<1>1. /\ mark \in 1 .. Len(text) /\ text[mark] = m
      /\ a \in 1 .. Len(text) /\ text[a] = name /\ name \in Strings /\ name \notin Whitespace
      /\ b \in 1 .. Len(text) /\ text[b] = ":"
      /\ Spells(text, c, next, v)
  BY WritesNamed
<1>2. a = mark + 1 /\ b = a + 1 /\ c = b + 1 /\ mark < a /\ a < b /\ b < c /\ c \in Places(text) /\ a \in Places(text)
      /\ a \in Nat /\ b \in Nat /\ c \in Nat
  BY <1>0, <1>1 DEF Places
<1> HIDE DEF a, b, c
<1>3. PICK i \in 1 .. Len(text) : c <= i /\ i < next
  BY <1>1, <1>2, SpellsStart
<1>4. mark < next /\ b \in a .. next - 1 /\ a \in a .. b - 1
  BY <1>0, <1>1, <1>2, <1>3
<1>5. Ink(text, a, b) = {a} /\ Ink(text, a, a) = {}
  BY <1>0, <1>1, <1>2 DEF Ink
<1>6. c \in ValueStarts(Strings, text, k, mark + 1, next)
  <2>1. b \in {x \in a .. next - 1 : text[x] = ":" /\ \E n \in a .. x - 1 : Ink(text, a, x) = {n} /\ text[n] \in Strings}
    BY <1>1, <1>4, <1>5
  <2>2. c \in {x + 1 : x \in {y \in a .. next - 1 : text[y] = ":" /\ \E n \in a .. y - 1 : Ink(text, a, y) = {n} /\ text[n] \in Strings}}
    BY <1>2, <2>1
  <2>3. k # "["
    BY DEF IsObject
  <2> QED BY <1>2, <2>2, <2>3 DEF ValueStarts
<1>7. name = NameOf(text, mark + 1)
  <2>1. a \in a .. Len(text)
    BY <1>1, <1>2
  <2>2. NameOf(text, a) = DecodedString[text[a]]
    BY <1>1, <1>2, <1>5, <2>1, NameIs
  <2>3. DecodedString[name] = name
    BY JSONAssumption DEF PlainStrings
  <2> QED BY <1>1, <1>2, <2>2, <2>3
<1> QED BY <1>1, <1>4, <1>6, <1>7 DEF IsWritten, Spells

\* Parts stand one behind the other.
LEMMA PlacedRow ==
  ASSUME NEW text \in Seq(Tokens), NEW from \in Places(text), NEW parts \in Seq(Seq(PlainTokens)),
         NEW n, n = Len(parts), Placed(text, from, Flat(parts, n))
  PROVE  /\ \A i \in 0 .. n : from + Len(Flat(parts, i)) \in Places(text)
         /\ \A i \in 0 .. n - 1 :
              /\ Placed(text, from + Len(Flat(parts, i)), parts[i + 1])
              /\ from + Len(Flat(parts, i + 1)) = from + Len(Flat(parts, i)) + Len(parts[i + 1])
<1>0. n \in Nat
  BY SeqIs
<1> DEFINE F(i) == Flat(parts, i)
           S == {j \in Nat : j <= n => Placed(text, from, F(n - j))}
<1>1. \A i \in 0 .. n - 1 : F(i) \in Seq(PlainTokens) /\ parts[i + 1] \in Seq(PlainTokens) /\ F(i + 1) = F(i) \o parts[i + 1]
  <2>1. \A i \in 0 .. n : F(i) \in Seq(PlainTokens)
    BY FlatType
  <2>2. \A i \in 0 .. n - 1 : F(i + 1) = F(i) \o parts[i + 1]
    BY FlatIs
  <2>3. \A i \in 1 .. n : parts[i] \in Seq(PlainTokens)
    BY SeqIs
  <2>4. \A i \in 0 .. n - 1 : i + 1 \in 1 .. n /\ i \in 0 .. n
    BY <1>0
  <2> HIDE DEF F
  <2> QED BY <2>1, <2>2, <2>3, <2>4
<1> HIDE DEF F
<1>2. 0 \in S
  <2>1. n - 0 = n
    BY <1>0
  <2> QED BY <2>1 DEF F
<1>3. ASSUME NEW j \in Nat, j \in S PROVE j + 1 \in S
  <2> SUFFICES ASSUME j + 1 <= n PROVE Placed(text, from, F(n - (j + 1)))
    OBVIOUS
  <2> DEFINE i == n - (j + 1)
  <2>1. i \in 0 .. n - 1 /\ i + 1 = n - j /\ j <= n
    BY <1>0
  <2> HIDE DEF i
  <2>2. Placed(text, from, F(i + 1))
    BY <1>3, <2>1
  <2>3. Placed(text, from, F(i) \o parts[i + 1])
    BY <1>1, <2>1, <2>2
  <2>4. Placed(text, from, F(i))
    BY <1>1, <2>1, <2>3, PlacedParts
  <2> QED BY <2>4 DEF i
<1>4. \A j \in Nat : j \in S
  <2> HIDE DEF S
  <2> QED BY <1>2, <1>3, Induction
<1>5. ASSUME NEW i \in 0 .. n PROVE Placed(text, from, F(i))
  <2>1. n - i \in Nat /\ n - i <= n /\ n - (n - i) = i
    BY <1>0
  <2>2. n - i \in S
    BY <1>4, <2>1
  <2> QED BY <2>1, <2>2
<1> HIDE DEF S
<1>6. \A i \in 0 .. n : from + Len(F(i)) \in Places(text)
  BY <1>5 DEF Placed
<1>7. ASSUME NEW i \in 0 .. n - 1
      PROVE  /\ Placed(text, from + Len(F(i)), parts[i + 1])
             /\ from + Len(F(i + 1)) = from + Len(F(i)) + Len(parts[i + 1])
  <2>1. i + 1 \in 0 .. n
    BY <1>0
  <2>2. Placed(text, from, F(i) \o parts[i + 1])
    BY <1>1, <1>5, <2>1
  <2> QED BY <1>1, <2>2, PlacedParts
<1> QED BY <1>6, <1>7 DEF F

\* What is written of a value with items spells it when what is written of the
\* items spells them.
LEMMA WritesNest ==
  ASSUME NEW text \in Seq(Tokens), NEW v \in Values, v.kind \in Opening, v.items # <<>>,
         \A i \in DOMAIN v.items : Writes(text, v.items[i])
  PROVE  Writes(text, v)
<1> DEFINE k == v.kind
           c == Closing(k)
           n == Len(v.items)
           parts == PartsOf(Encode, v)
           F(i) == Flat(parts, i)
           m(i) == IF i = 1 THEN k ELSE ","
<1>0. Len(text) \in Nat
  BY TextIs
<1>1. /\ v.items \in Seq(Values) /\ v.names \in Seq(PlainStrings) /\ (IsObject(k) => Len(v.names) = n)
      /\ n \in Nat /\ n # 0 /\ DOMAIN v.items = 1 .. n /\ (\A i \in 1 .. n : v.items[i] \in Values)
  BY TreeIs, SeqIs, EmptySeq DEF IsObject
<1>2. \A i \in DOMAIN v.items : Encode[v.items[i]] \in Seq(PlainTokens)
  BY <1>1, EncodeIs
<1>3. /\ parts \in Seq(Seq(PlainTokens)) /\ Len(parts) = n
      /\ \A i \in 1 .. n : parts[i] = (<<m(i)>> \o (IF k = "{" THEN <<v.names[i], ":">> ELSE <<>>)) \o Encode[v.items[i]]
  BY <1>2, PartsAre
<1>4. Encode[v] = FlattenSeq(parts) \o <<c>>
  BY EncodeIs DEF EncodeOf
<1>5. FlattenSeq(parts) = F(n) /\ F(0) = <<>>
  BY <1>3, FlatIs
<1>6. c \in PlainTokens /\ <<c>> \in Seq(PlainTokens) /\ Len(<<c>>) = 1 /\ \A i : m(i) \in PlainTokens
  <2>1. c \in PlainTokens
    BY DEF PlainTokens, Closing
  <2>2. k \in PlainTokens /\ "," \in PlainTokens
    BY DEF PlainTokens
  <2> HIDE DEF c
  <2>3. <<c>> \in Seq(PlainTokens) /\ Len(<<c>>) = 1
    BY <2>1, ShortSeqs
  <2> QED BY <2>1, <2>2, <2>3
<1> HIDE DEF parts, c, k, m, n
<1>7. F(n) \in Seq(PlainTokens)
  <2>1. n \in 0 .. n
    BY <1>1
  <2> QED BY <1>3, <2>1, FlatType
<1> HIDE DEF F
<1>8. ASSUME NEW from \in Places(text), Placed(text, from, F(n) \o <<c>>)
      PROVE  Spells(text, from, from + Len(F(n) \o <<c>>), v)
  <2>0. from \in Nat
    BY <1>0 DEF Places
  <2> DEFINE M(i) == from + Len(F(i - 1))
             last == M(n + 1)
             marks == [i \in 1 .. n + 1 |-> M(i)]
             to == last + 1
  <2>1. Placed(text, from, F(n)) /\ Placed(text, from + Len(F(n)), <<c>>) /\ from + Len(F(n)) \in Places(text)
        /\ from + Len(F(n) \o <<c>>) = from + Len(F(n)) + 1
    <3> DEFINE x == <<c>>
    <3>1. x \in Seq(PlainTokens) /\ Len(x) = 1
      BY <1>6
    <3> HIDE DEF x
    <3>2. Placed(text, from, F(n) \o x)
      BY <1>8 DEF x
    <3>3. Placed(text, from, F(n)) /\ Placed(text, from + Len(F(n)), x) /\ from + Len(F(n)) \in Places(text)
          /\ from + Len(F(n) \o x) = from + Len(F(n)) + Len(x)
      BY <1>7, <3>1, <3>2, PlacedParts
    <3> QED BY <3>1, <3>3 DEF x
  <2>2. /\ \A i \in 0 .. n : from + Len(F(i)) \in Places(text)
        /\ \A i \in 0 .. n - 1 : /\ Placed(text, from + Len(F(i)), parts[i + 1])
                                 /\ from + Len(F(i + 1)) = from + Len(F(i)) + Len(parts[i + 1])
    BY <1>3, <2>1, PlacedRow DEF F
  <2>3. /\ \A i \in 1 .. n + 1 : M(i) \in Places(text)
        /\ \A i \in 1 .. n : Placed(text, M(i), parts[i]) /\ M(i + 1) = M(i) + Len(parts[i])
    <3>1. \A i \in 1 .. n + 1 : i - 1 \in 0 .. n
      BY <1>1
    <3>2. \A i \in 1 .. n : i - 1 \in 0 .. n - 1 /\ i - 1 + 1 = i /\ i + 1 - 1 = i
      BY <1>1
    <3> QED BY <2>2, <3>1, <3>2
  <2>4. M(1) = from /\ last = from + Len(F(n))
    <3>1. ASSUME NEW i \in Nat, NEW j \in Nat, i = j + 1 PROVE M(i) = from + Len(F(j))
      <4>1. i - 1 = j
        BY <3>1
      <4> QED BY <4>1
    <3>2. M(1) = from + Len(F(0)) /\ M(n + 1) = from + Len(F(n))
      <4>1. 1 = 0 + 1 /\ 0 \in Nat /\ 1 \in Nat /\ n \in Nat /\ n + 1 \in Nat
        BY <1>1
      <4> HIDE DEF M
      <4> QED BY <3>1, <4>1
    <3>3. from + Len(<<>>) = from
      BY <2>0
    <3> HIDE DEF M
    <3> QED BY <1>5, <3>2, <3>3
  <2>5. last \in 1 .. Len(text) /\ text[last] = c /\ to \in Places(text) /\ from + Len(F(n) \o <<c>>) = to
    <3>1. Placed(text, last, <<c>>) /\ last \in Places(text)
      BY <2>1, <2>4
    <3> HIDE DEF last
    <3>2. last \in 1 .. Len(text) /\ text[last] = c /\ last + 1 \in Places(text)
      BY <1>6, <3>1, PlacedOne
    <3> QED BY <2>1, <2>4, <3>2
  <2> HIDE DEF M
  <2>6. ASSUME NEW i \in 1 .. n
        PROVE  IsWritten(text, k, m(i), M(i), M(i + 1), v.names[i], v.items[i])
    <3> DEFINE w == v.items[i]
               name == v.names[i]
               part == parts[i]
               mark == M(i)
               next == M(i + 1)
    <3>1. w \in Values /\ Writes(text, w) /\ (IsObject(k) => name \in PlainStrings)
      <4>1. IsObject(k) => name \in PlainStrings
        <5>1. \A j \in 1 .. Len(v.names) : v.names[j] \in PlainStrings
          BY <1>1, SeqIs
        <5> QED BY <1>1, <5>1
      <4> QED BY <1>1, <4>1
    <3>2. mark \in Places(text) /\ next \in Places(text) /\ Placed(text, mark, part) /\ next = mark + Len(part)
      <4>1. i \in 1 .. n + 1 /\ i + 1 \in 1 .. n + 1
        BY <1>1
      <4> QED BY <2>3, <4>1
    <3>3. part = (<<m(i)>> \o (IF k = "{" THEN <<name, ":">> ELSE <<>>)) \o Encode[w]
      BY <1>3
    <3>4. m(i) \in PlainTokens
      BY <1>6
    <3> HIDE DEF w, name, part, mark, next
    <3>5. CASE IsObject(k)
      <4>1. part = (<<m(i)>> \o <<name, ":">>) \o Encode[w]
        BY <3>3, <3>5 DEF IsObject
      <4>2. IsWritten(text, k, m(i), mark, next, name, w)
        BY <3>1, <3>2, <3>4, <3>5, <4>1, ObjectPart
      <4> QED BY <4>2 DEF w, name, mark, next
    <3>6. CASE ~IsObject(k)
      <4>1. k = "["
        BY <3>6 DEF IsObject, Opening, k
      <4>2. part = (<<m(i)>> \o <<>>) \o Encode[w]
        BY <3>3, <4>1
      <4>3. IsWritten(text, "[", m(i), mark, next, name, w)
        BY <3>1, <3>2, <3>4, <4>2, ListPart
      <4> QED BY <4>1, <4>3 DEF w, name, mark, next
    <3> QED BY <3>5, <3>6
  <2>7. Rowed(text, Spelled(text), k, v.names, v.items, marks)
    <3>1. \A i \in 1 .. n + 1 : M(i) \in 1 .. Len(text)
      <4> TAKE i \in 1 .. n + 1
      <4>1. CASE i = n + 1
        BY <2>5, <4>1
      <4>2. CASE i # n + 1
        <5>1. i \in 1 .. n
          BY <1>1, <4>2
        <5> QED BY <2>6, <5>1 DEF IsWritten
      <4> QED BY <4>1, <4>2
    <3>2. marks \in Seq(1 .. Len(text)) /\ Len(marks) = n + 1
      <4> DEFINE R == 1 .. Len(text)
                 a == n + 1
      <4>1. a \in Nat /\ \A i \in 1 .. a : M(i) \in R
        BY <1>1, <3>1
      <4>2. marks = [i \in 1 .. a |-> M(i)]
        OBVIOUS
      <4> HIDE DEF R, a, marks
      <4>3. marks \in Seq(R) /\ Len(marks) = a
        BY <4>1, <4>2
      <4> QED BY <4>3 DEF R, a
    <3>3. ASSUME NEW i \in 1 .. n
          PROVE  /\ marks[i] < marks[i + 1]
                 /\ i # 1 => text[marks[i]] = ","
                 /\ k = "{" => v.names[i] = NameOf(text, marks[i] + 1)
                 /\ \E start \in ValueStarts(Strings, text, k, marks[i] + 1, marks[i + 1]) :
                      <<start, marks[i + 1]>> \in Spelled(text)[v.items[i]]
      <4>1. marks[i] = M(i) /\ marks[i + 1] = M(i + 1)
        BY <1>1
      <4> HIDE DEF marks
      <4>2. i # 1 => m(i) = ","
        BY DEF m
      <4> QED BY <2>6, <4>1, <4>2 DEF IsWritten
    <3> HIDE DEF marks
    <3> QED BY <3>2, <3>3 DEF Rowed, n
  <2>8. marks[1] = from /\ marks[Len(marks)] = last
    <3>1. Len(marks) = n + 1 /\ 1 \in 1 .. n + 1 /\ n + 1 \in 1 .. n + 1
      BY <1>1
    <3> QED BY <2>4, <3>1
  <2>9. from \in 1 .. Len(text) /\ text[from] = k /\ from < last
    <3>1. 1 \in 1 .. n
      BY <1>1
    <3>2. from \in 1 .. Len(text) /\ text[from] = k
      BY <2>4, <2>6, <3>1 DEF IsWritten, m
    <3>3. from < last
      <4> HIDE DEF marks, last
      <4>1. n = Len(v.items)
        BY DEF n
      <4>2. Len(marks) = n + 1
        BY <2>7 DEF Rowed, n
      <4>3. n # 0 => marks[1] < marks[n + 1]
        BY <1>1, <2>7, <4>1, MarksAre
      <4> QED BY <1>1, <2>8, <4>2, <4>3
    <3> QED BY <3>2, <3>3
  <2> HIDE DEF marks, last
  <2>10. IsBracketed(text, from, to, k, from, last)
    <3>1. Ink(text, from, from) = {} /\ Ink(text, last + 1, to) = {} /\ last < to
      BY <1>0, <2>0, <2>5 DEF Ink
    <3> QED BY <2>0, <2>5, <2>9, <3>1 DEF IsBracketed, c
  <2> HIDE DEF to
  <2>11. Spells(text, from, to, v)
    BY <2>5, <2>7, <2>8, <2>9, <2>10, SpellsNest DEF k
  <2> QED BY <2>5, <2>11
<1> QED BY <1>4, <1>5, <1>8 DEF Writes

\* What JSON.stringify writes of a value spells it.
THEOREM EncodedIsSpelled ==
  ASSUME NEW text \in Seq(Tokens), NEW v \in Values
  PROVE  Writes(text, v)
<1> DEFINE S == {w \in Values : Writes(text, w)}
<1>1. ASSUME NEW w \in Values, \A i \in DOMAIN w.items : w.items[i] \in S
      PROVE  w \in S
  <2>1. CASE w.kind \notin Opening
    BY <2>1, WritesLeaf
  <2>2. CASE w.kind \in Opening /\ w.items = <<>>
    BY <2>2, WritesEmpty
  <2>3. CASE w.kind \in Opening /\ w.items # <<>>
    BY <1>1, <2>3, WritesNest
  <2> QED BY <2>1, <2>2, <2>3
<1>2. Values \subseteq S
  <2> HIDE DEF S
  <2> QED BY <1>1, ValueInduction
<1> QED BY <1>2

(***************************************************************************)
(* Values with sorted names                                                *)
(***************************************************************************)
\* An order in which numbers do not fall.
Sorts(order, n, h) ==
  /\ order \in [1 .. n -> 1 .. n]
  /\ \A i, j \in 1 .. n : order[i] = order[j] => i = j
  /\ \A t \in 1 .. n : \E s \in 1 .. n : order[s] = t
  /\ \A i, j \in 1 .. n : i < j => h[order[i]] <= h[order[j]]

\* One number more finds its place.
LEMMA SortsMore ==
  ASSUME NEW n \in Nat, NEW h \in [1 .. n + 1 -> Nat], NEW o, Sorts(o, n, h)
  PROVE  \E order : Sorts(order, n + 1, h)
<1> DEFINE x == h[n + 1]
           P == {i \in 1 .. n : x < h[o[i]]}
           p == Min(P \cup {n + 1})
           back(i) == IF i < p THEN i ELSE i - 1
           new == [i \in 1 .. n + 1 |-> IF i = p THEN n + 1 ELSE o[back(i)]]
<1>1. /\ o \in [1 .. n -> 1 .. n]
      /\ \A i, j \in 1 .. n : o[i] = o[j] => i = j
      /\ \A t \in 1 .. n : \E s \in 1 .. n : o[s] = t
      /\ \A i, j \in 1 .. n : i < j => h[o[i]] <= h[o[j]]
  BY DEF Sorts
<1>2. p \in 1 .. n + 1 /\ (\A i \in P : p <= i) /\ (p < n + 1 => p \in P)
  <2> DEFINE end == n + 1
  <2>1. end \in Nat /\ 1 <= end /\ P \in SUBSET (1 .. end - 1) /\ 1 \in Nat
    OBVIOUS
  <2> HIDE DEF P, end
  <2>2. Min(P \cup {end}) \in 1 .. end /\ (\A i \in P : Min(P \cup {end}) <= i)
        /\ (Min(P \cup {end}) < end => Min(P \cup {end}) \in P)
    BY <2>1, FirstPlace
  <2> QED BY <2>2 DEF end
<1> HIDE DEF p
<1>3. \A i \in 1 .. n : h[o[i]] \in Nat /\ o[i] \in 1 .. n
  <2>1. \A i \in 1 .. n : o[i] \in 1 .. n
    BY <1>1
  <2>2. \A i \in 1 .. n : i \in 1 .. n + 1
    OBVIOUS
  <2> QED BY <2>1, <2>2
<1>x. x \in Nat
  OBVIOUS
<1>4. \A i \in 1 .. n : i < p => h[o[i]] <= x
  <2> TAKE i \in 1 .. n
  <2> HAVE i < p
  <2>1. i \notin P
    BY <1>2
  <2> QED BY <1>3, <1>x, <2>1
<1>5. \A i \in 1 .. n : p <= i => x <= h[o[i]]
  <2> TAKE i \in 1 .. n
  <2> HAVE p <= i
  <2>1. p \in P
    BY <1>2
  <2>2. x < h[o[p]] /\ p \in 1 .. n
    BY <2>1
  <2> HIDE DEF P, x
  <2>3. p = i \/ p < i
    BY <2>2
  <2>4. p < i => h[o[p]] <= h[o[i]]
    BY <1>1, <2>2
  <2>5. h[o[p]] \in Nat /\ h[o[i]] \in Nat
    BY <1>3, <2>2
  <2>6. h[o[p]] <= h[o[i]]
    BY <2>3, <2>4, <2>5
  <2> QED BY SMTT(40), <1>x, <2>2, <2>5, <2>6
<1> HIDE DEF P, x
<1>6. \A i \in 1 .. n + 1 : i # p => back(i) \in 1 .. n
  BY <1>2
<1>7. \A i, j \in 1 .. n + 1 : i # p /\ j # p /\ back(i) = back(j) => i = j
  BY <1>2
<1>18. \A i, j \in 1 .. n + 1 : i # p /\ j # p /\ i < j => back(i) < back(j)
  BY <1>2
<1>8. \A i \in 1 .. n + 1 : i # p => (i < p => back(i) < p) /\ (p < i => p <= back(i))
  BY <1>2
<1>9. \A s \in 1 .. n : \E i \in 1 .. n + 1 : i # p /\ back(i) = s
  <2> TAKE s \in 1 .. n
  <2>1. CASE s < p
    <3>1. s \in 1 .. n + 1 /\ s # p /\ back(s) = s
      BY <1>2, <2>1
    <3> QED BY <3>1
  <2>2. CASE ~(s < p)
    <3>1. s + 1 \in 1 .. n + 1 /\ s + 1 # p /\ back(s + 1) = s
      BY <1>2, <2>2
    <3> QED BY <3>1
  <2> QED BY <2>1, <2>2
<1> HIDE DEF back
<1>10. /\ new[p] = n + 1 /\ p \in 1 .. n + 1
       /\ \A i \in 1 .. n + 1 : i # p => new[i] = o[back(i)] /\ new[i] \in 1 .. n
  BY <1>2, <1>3, <1>6
<1>11. new \in [1 .. n + 1 -> 1 .. n + 1]
  <2>1. \A i \in 1 .. n + 1 : new[i] \in 1 .. n + 1
    BY <1>10
  <2> QED BY <2>1
<1> HIDE DEF new
<1>12. ASSUME NEW i \in 1 .. n + 1, NEW j \in 1 .. n + 1, new[i] = new[j]
       PROVE  i = j
  <2>1. n + 1 \notin 1 .. n
    OBVIOUS
  <2>2. CASE i = p \/ j = p
    BY <1>10, <1>12, <2>1, <2>2
  <2>3. CASE i # p /\ j # p
    <3>1. back(i) \in 1 .. n /\ back(j) \in 1 .. n /\ o[back(i)] = o[back(j)]
      BY <1>6, <1>10, <1>12, <2>3
    <3>2. back(i) = back(j)
      BY <1>1, <3>1
    <3> QED BY <1>7, <2>3, <3>2
  <2> QED BY <2>2, <2>3
<1>13. ASSUME NEW t \in 1 .. n + 1 PROVE \E s \in 1 .. n + 1 : new[s] = t
  <2>1. CASE t = n + 1
    BY <1>10, <2>1
  <2>2. CASE t # n + 1
    <3>1. t \in 1 .. n
      BY <2>2
    <3>2. PICK s \in 1 .. n : o[s] = t
      BY <1>1, <3>1
    <3> QED BY <1>9, <1>10, <3>2
  <2> QED BY <2>1, <2>2
<1>14. ASSUME NEW i \in 1 .. n + 1, NEW j \in 1 .. n + 1, i < j
       PROVE  h[new[i]] <= h[new[j]]
  <2>1. CASE i # p /\ j # p
    <3>1. back(i) \in 1 .. n /\ back(j) \in 1 .. n
      BY <1>6, <2>1
    <3>2. back(i) < back(j)
      BY <1>18, <1>14, <2>1
    <3>3. h[o[back(i)]] <= h[o[back(j)]]
      BY <1>1, <3>1, <3>2
    <3>4. new[i] = o[back(i)] /\ new[j] = o[back(j)]
      BY <1>10, <2>1
    <3> QED BY <3>3, <3>4
  <2>2. CASE i = p
    <3>1. j # p /\ p < j
      BY <1>14, <2>2
    <3>2. back(j) \in 1 .. n /\ p <= back(j)
      BY <1>6, <1>8, <3>1
    <3> QED BY <1>5, <1>10, <2>2, <3>1, <3>2 DEF x
  <2>3. CASE j = p
    <3>1. i # p /\ i < p
      BY <1>14, <2>3
    <3>2. back(i) \in 1 .. n /\ back(i) < p
      BY <1>6, <1>8, <3>1
    <3> QED BY <1>4, <1>10, <2>3, <3>1, <3>2 DEF x
  <2> QED BY <2>1, <2>2, <2>3
<1>15. Sorts(new, n + 1, h)
  BY <1>11, <1>12, <1>13, <1>14 DEF Sorts
<1> QED BY <1>15

\* Numbers can be sorted.
LEMMA SortsExist ==
  ASSUME NEW n \in Nat, NEW h \in [1 .. n -> Nat]
  PROVE  \E order : Sorts(order, n, h)
<1> DEFINE S == {m \in Nat : \A g \in [1 .. m -> Nat] : \E order : Sorts(order, m, g)}
<1>1. 0 \in S
  <2> SUFFICES ASSUME NEW g \in [1 .. 0 -> Nat] PROVE \E order : Sorts(order, 0, g)
    OBVIOUS
  <2>1. Sorts([i \in 1 .. 0 |-> i], 0, g)
    BY DEF Sorts
  <2> QED BY <2>1
<1>2. ASSUME NEW m \in Nat, m \in S PROVE m + 1 \in S
  <2> SUFFICES ASSUME NEW g \in [1 .. m + 1 -> Nat] PROVE \E order : Sorts(order, m + 1, g)
    OBVIOUS
  <2> DEFINE g0 == [i \in 1 .. m |-> g[i]]
  <2>1. g0 \in [1 .. m -> Nat]
    OBVIOUS
  <2>2. PICK o : Sorts(o, m, g0)
    BY <1>2, <2>1
  <2>3. Sorts(o, m, g)
    <3>1. \A i \in 1 .. m : o[i] \in 1 .. m /\ g0[o[i]] = g[o[i]]
      BY <2>2 DEF Sorts
    <3> QED BY <2>2, <3>1 DEF Sorts
  <2> QED BY <2>3, SortsMore
<1>3. \A m \in Nat : m \in S
  <2> HIDE DEF S
  <2> QED BY <1>1, <1>2, Induction
<1> QED BY <1>3

\* Sorting names exchanges their places.
LEMMA SortedIs ==
  ASSUME NEW names \in Seq(PlainStrings)
  PROVE  /\ Sorted(names) \in [1 .. Len(names) -> 1 .. Len(names)]
         /\ \A i, j \in 1 .. Len(names) : Sorted(names)[i] = Sorted(names)[j] => i = j
         /\ \A t \in 1 .. Len(names) : \E s \in 1 .. Len(names) : Sorted(names)[s] = t
<1> DEFINE n == Len(names)
           D == DOMAIN names
           h == [i \in 1 .. n |-> Place[names[i]]]
           B(order) == order \in Bijection(D, D)
             /\ \A i, j \in D : i < j => Place[names[order[i]]] <= Place[names[order[j]]]
<1>1. n \in Nat /\ D = 1 .. n /\ \A i \in 1 .. n : names[i] \in Strings
  BY SeqIs, AtomsAreNoMarks
<1>2. h \in [1 .. n -> Nat]
  <2>1. Place \in [Strings -> Nat]
    BY JSONAssumption
  <2> HIDE DEF n
  <2> QED BY <1>1, <2>1
<1> HIDE DEF n, D
<1>3. PICK o : Sorts(o, n, h)
  <2> HIDE DEF h
  <2> QED BY <1>1, <1>2, SortsExist
<1>4. B(o)
  <2>1. o \in Bijection(D, D)
    BY <1>1, <1>3 DEF Sorts, Bijection, Injection, Surjection, IsInjective
  <2>2. \A i \in 1 .. n : o[i] \in 1 .. n /\ h[o[i]] = Place[names[o[i]]]
    BY <1>3 DEF Sorts
  <2>3. \A i, j \in 1 .. n : i < j => Place[names[o[i]]] <= Place[names[o[j]]]
    <3> HIDE DEF h
    <3> TAKE i, j \in 1 .. n
    <3> HAVE i < j
    <3>1. h[o[i]] <= h[o[j]]
      BY SMTT(40), <1>3 DEF Sorts
    <3> QED BY <2>2, <3>1
  <2> QED BY <1>1, <2>1, <2>3
<1>5. Sorted(names) = CHOOSE order : B(order)
  BY DEF Sorted, D
<1>6. B(Sorted(names))
  <2> HIDE DEF B
  <2> QED BY <1>4, <1>5
<1>7. Sorted(names) \in Bijection(D, D)
  BY <1>6
<1> QED BY <1>1, <1>7 DEF n, Bijection, Injection, Surjection, IsInjective

\* The order of the items in a canonical value.
OrderOf(v) == IF v.kind = "{" THEN Sorted(v.names) ELSE [i \in DOMAIN v.items |-> i]

\* A value with sorted names, given those of its parts.
CanonicalOf(f, v) ==
  Tree(v.kind,
       [i \in DOMAIN v.names |-> v.names[OrderOf(v)[i]]],
       [i \in DOMAIN v.items |-> f[v.items[OrderOf(v)[i]]]])

\* The order exchanges the places of items, and of names.
LEMMA OrderIs ==
  ASSUME NEW v \in Values, NEW n, n = Len(v.items)
  PROVE  /\ n \in Nat /\ DOMAIN v.items = 1 .. n
         /\ v.names = <<>> \/ (DOMAIN v.names = 1 .. n /\ Len(v.names) = n)
         /\ OrderOf(v) \in [1 .. n -> 1 .. n]
         /\ \A i, j \in 1 .. n : OrderOf(v)[i] = OrderOf(v)[j] => i = j
         /\ \A t \in 1 .. n : \E s \in 1 .. n : OrderOf(v)[s] = t
<1>1. v.items \in Seq(Values) /\ v.names \in Seq(PlainStrings) /\ (v.kind = "{" => Len(v.names) = n)
      /\ (v.kind # "{" => v.names = <<>>)
  BY TreeIs DEF Opening
<1>2. n \in Nat /\ DOMAIN v.items = 1 .. n /\ DOMAIN v.names = 1 .. Len(v.names)
  BY <1>1, SeqIs
<1>3. CASE v.kind = "{"
  <2>1. OrderOf(v) = Sorted(v.names) /\ Len(v.names) = n
    BY <1>1, <1>3 DEF OrderOf
  <2>2. /\ Sorted(v.names) \in [1 .. Len(v.names) -> 1 .. Len(v.names)]
        /\ \A i, j \in 1 .. Len(v.names) : Sorted(v.names)[i] = Sorted(v.names)[j] => i = j
        /\ \A t \in 1 .. Len(v.names) : \E s \in 1 .. Len(v.names) : Sorted(v.names)[s] = t
    BY <1>1, SortedIs
  <2> DEFINE o == OrderOf(v)
  <2>3. /\ o \in [1 .. n -> 1 .. n]
        /\ \A i, j \in 1 .. n : o[i] = o[j] => i = j
        /\ \A t \in 1 .. n : \E s \in 1 .. n : o[s] = t
    BY <2>1, <2>2
  <2>4. DOMAIN v.names = 1 .. n /\ Len(v.names) = n
    BY <1>2, <2>1
  <2> HIDE DEF o
  <2>5. o = OrderOf(v)
    BY DEF o
  <2> QED BY <1>2, <2>3, <2>4, <2>5
<1>4. CASE v.kind # "{"
  <2>1. OrderOf(v) = [i \in 1 .. n |-> i] /\ v.names = <<>>
    BY <1>1, <1>2, <1>4 DEF OrderOf
  <2> QED BY <1>2, <2>1
<1> QED BY <1>3, <1>4

\* Names in another order.
Exchanges(names, n, order, s) ==
  /\ names \in Seq(PlainStrings) /\ n = Len(names) /\ IsInjective(names)
  /\ order \in [1 .. n -> 1 .. n] /\ \A i, j \in 1 .. n : order[i] = order[j] => i = j
  /\ s = [i \in 1 .. n |-> names[order[i]]]

\* Names that change places are as many as before, and each stays the only one.
LEMMA SortedNames ==
  ASSUME NEW names, NEW n, NEW order, NEW s, Exchanges(names, n, order, s)
  PROVE  s \in Seq(PlainStrings) /\ Len(s) = n /\ IsInjective(s)
<1>0. /\ names \in Seq(PlainStrings) /\ n = Len(names) /\ IsInjective(names)
      /\ order \in [1 .. n -> 1 .. n] /\ \A i, j \in 1 .. n : order[i] = order[j] => i = j
      /\ s = [i \in 1 .. n |-> names[order[i]]]
  BY DEF Exchanges
<1>1. n \in Nat /\ DOMAIN names = 1 .. n /\ \A i \in 1 .. n : names[i] \in PlainStrings
  BY <1>0, SeqIs
<1>2. \A i \in 1 .. n : s[i] = names[order[i]] /\ s[i] \in PlainStrings /\ order[i] \in 1 .. n
  BY <1>0, <1>1
<1>3. s \in Seq(PlainStrings) /\ Len(s) = n /\ DOMAIN s = 1 .. n
  <2>1. s = [i \in 1 .. n |-> s[i]]
    BY <1>0
  <2>2. n \in Nat /\ \A i \in 1 .. n : s[i] \in PlainStrings
    BY <1>1, <1>2
  <2> QED BY ONLY <2>1, <2>2
<1>4. IsInjective(s)
  <2> SUFFICES ASSUME NEW i \in 1 .. n, NEW j \in 1 .. n, s[i] = s[j] PROVE i = j
    BY <1>3 DEF IsInjective
  <2>1. order[i] = order[j]
    BY <1>0, <1>1, <1>2 DEF IsInjective
  <2> QED BY <1>0, <2>1
<1> QED BY <1>3, <1>4

\* No more levels than the value had.
LEMMA CanonicalOfType ==
  ASSUME NEW v \in Values, NEW n \in Nat, NEW f, \A i \in DOMAIN v.items : f[v.items[i]] \in ValuesOf[n]
  PROVE  CanonicalOf(f, v) \in ValuesOf[n + 1]
<1> DEFINE k == v.kind
           c == Len(v.items)
           order == OrderOf(v)
           names == [i \in DOMAIN v.names |-> v.names[order[i]]]
           items == [i \in DOMAIN v.items |-> f[v.items[order[i]]]]
           w == CanonicalOf(f, v)
<1>1. /\ c \in Nat /\ DOMAIN v.items = 1 .. c
      /\ v.names = <<>> \/ (DOMAIN v.names = 1 .. c /\ Len(v.names) = c)
      /\ order \in [1 .. c -> 1 .. c]
      /\ \A i, j \in 1 .. c : order[i] = order[j] => i = j
  BY OrderIs
<1>2. w = Tree(k, names, items)
  BY DEF CanonicalOf
<1>3. w.kind = k /\ w.names = names /\ w.items = items /\ w = Tree(w.kind, w.names, w.items)
  BY <1>2 DEF Tree
<1> HIDE DEF w, order
<1>4. items \in Seq(ValuesOf[n]) /\ Len(items) = c
  <2> DEFINE G(i) == f[v.items[order[i]]]
  <2>1. \A i \in 1 .. c : G(i) \in ValuesOf[n]
    BY <1>1
  <2>2. items = [i \in 1 .. c |-> G(i)]
    BY <1>1
  <2>3. c \in Nat
    BY <1>1
  <2> HIDE DEF c, items, G
  <2> QED BY ONLY <2>1, <2>2, <2>3
<1>5. v.names = <<>> => names = <<>>
  OBVIOUS
<1>6. v.items = <<>> => items = <<>>
  OBVIOUS
<1>7. /\ v.names \in Seq(PlainStrings)
      /\ k \in PlainAtoms \/ k \in Opening
      /\ k \notin Opening => v.names = <<>> /\ v.items = <<>> /\ k \in PlainAtoms
      /\ k = "[" => v.names = <<>>
      /\ IsObject(k) => Len(v.names) = c /\ IsInjective(v.names)
  BY TreeIs DEF IsObject
<1>8. IsObject(k) => names \in Seq(PlainStrings) /\ Len(names) = c /\ IsInjective(names)
  <2> SUFFICES ASSUME IsObject(k) PROVE names \in Seq(PlainStrings) /\ Len(names) = c /\ IsInjective(names)
    OBVIOUS
  <2>1. DOMAIN v.names = 1 .. c
    BY <1>7, SeqIs
  <2>2. names = [i \in 1 .. c |-> v.names[order[i]]]
    BY <2>1
  <2>3. v.names \in Seq(PlainStrings) /\ c = Len(v.names) /\ IsInjective(v.names)
        /\ order \in [1 .. c -> 1 .. c] /\ \A i, j \in 1 .. c : order[i] = order[j] => i = j
    BY <1>1, <1>7
  <2> DEFINE a == v.names
             s == [i \in 1 .. c |-> a[order[i]]]
  <2> HIDE DEF names, c
  <2>4. s \in Seq(PlainStrings) /\ Len(s) = c /\ IsInjective(s)
    <3>1. Exchanges(a, c, order, s)
      BY <2>3 DEF Exchanges
    <3> HIDE DEF a, s
    <3> QED BY <3>1, SortedNames
  <2>5. names = s
    BY <2>2
  <2> QED BY <2>4, <2>5
<1> HIDE DEF names, items, k, c
<1>9. IsTree(w, ValuesOf[n])
  <2>1. CASE k \notin Opening
    BY <1>3, <1>5, <1>6, <1>7, <2>1 DEF IsTree, PlainAtoms
  <2>2. CASE k = "["
    BY <1>3, <1>4, <1>5, <1>7, <2>2 DEF IsTree
  <2>3. CASE IsObject(k)
    <3>1. k = "{"
      BY <2>3 DEF IsObject
    <3> QED BY <1>3, <1>4, <1>8, <2>3, <3>1 DEF IsTree
  <2> QED BY <2>1, <2>2, <2>3 DEF Opening, IsObject
<1>10. w \in Nests(ValuesOf[n])
  BY <1>9, NestsAre
<1> QED BY <1>10, ValuesOfIs DEF w

\* A function that says of values what the equation says, as long as that is a
\* value, satisfies the equation.
LEMMA CanonicalKept ==
  ASSUME NEW f, \A w \in Values : CanonicalOf(f, w) \in Values => f[w] = CanonicalOf(f, w)
  PROVE  \A w \in Values : f[w] \in Values /\ f[w] = CanonicalOf(f, w)
<1> USE LevelsAre
<1> DEFINE H == {n \in Nat : n <= Levels => \A w \in ValuesOf[n] : f[w] \in ValuesOf[n] /\ f[w] = CanonicalOf(f, w)}
<1>1. 0 \in H
  BY ValuesOfIs
<1>2. ASSUME NEW n \in Nat, n \in H PROVE n + 1 \in H
  <2> SUFFICES ASSUME n + 1 <= Levels, NEW w \in ValuesOf[n + 1]
               PROVE  f[w] \in ValuesOf[n + 1] /\ f[w] = CanonicalOf(f, w)
    OBVIOUS
  <2>1. \A u \in ValuesOf[n] : f[u] \in ValuesOf[n]
    BY <1>2
  <2>2. ValuesOf[n + 1] \subseteq Values
    BY ValuesGrow DEF Values
  <2>3. IsTree(w, ValuesOf[n])
    BY ValuesOfIs, NestsAre
  <2>4. w.items \in Seq(ValuesOf[n])
    BY <2>3, ShortSeqs DEF IsTree
  <2>5. \A i \in DOMAIN w.items : f[w.items[i]] \in ValuesOf[n]
    BY <2>1, <2>4, SeqIs
  <2>6. CanonicalOf(f, w) \in ValuesOf[n + 1]
    BY <2>2, <2>5, CanonicalOfType
  <2> QED BY <2>2, <2>6
<1>3. \A n \in Nat : n \in H
  <2> HIDE DEF H
  <2> QED BY <1>1, <1>2, Induction
<1>4. Levels \in H
  BY <1>3
<1> QED BY <1>4 DEF Values

\* CanonicalValue satisfies its equation.
LEMMA CanonicalIs ==
  ASSUME NEW v \in Values
  PROVE  CanonicalValue[v] \in Values /\ CanonicalValue[v] = CanonicalOf(CanonicalValue, v)
<1> DEFINE T == Values
           E(g) == [w \in Values |-> CanonicalOf(g, w)]
           D(g) == [w \in Values |-> IF CanonicalOf(g, w) \in Values THEN CanonicalOf(g, w) ELSE w]
           step == [g \in [Values -> T] |-> D(g)]
<1>1. T # {}
  OBVIOUS
<1>2. ASSUME NEW g \in [Values -> T] PROVE D(g) \in [Values -> T]
  OBVIOUS
<1>3. step \in [[Values -> T] -> [Values -> T]]
  <2> HIDE DEF D, T
  <2> QED BY <1>2
<1>4. IsLocal(step, T)
  <2> SUFFICES ASSUME NEW g \in [Values -> T], NEW h \in [Values -> T], NEW w \in Values,
                      \A i \in DOMAIN w.items : g[w.items[i]] = h[w.items[i]]
               PROVE  step[g][w] = step[h][w]
    BY DEF IsLocal
  <2>1. \A i \in DOMAIN w.items : OrderOf(w)[i] \in DOMAIN w.items
    <3> DEFINE n == Len(w.items)
               o == OrderOf(w)
    <3>1. DOMAIN w.items = 1 .. n /\ o \in [1 .. n -> 1 .. n]
      BY OrderIs
    <3> HIDE DEF n, o
    <3>2. \A i \in DOMAIN w.items : o[i] \in DOMAIN w.items
      BY <3>1
    <3> QED BY <3>2 DEF o
  <2>2. [i \in DOMAIN w.items |-> g[w.items[OrderOf(w)[i]]]] = [i \in DOMAIN w.items |-> h[w.items[OrderOf(w)[i]]]]
    BY <2>1
  <2>3. CanonicalOf(g, w) = CanonicalOf(h, w)
    BY <2>2 DEF CanonicalOf
  <2>4. step[g] = D(g) /\ step[h] = D(h)
    <3> HIDE DEF D, T
    <3> QED OBVIOUS
  <2>5. D(g)[w] = D(h)[w]
    BY <2>3
  <2> HIDE DEF D, step
  <2> QED BY <2>4, <2>5
<1>5. PICK g \in [Values -> T] : g = step[g]
  <2> HIDE DEF T, step
  <2> QED BY <1>1, <1>3, <1>4, ValueRecursion
<1>6. g = D(g)
  <2> HIDE DEF D, T
  <2> QED BY <1>5
<1>7. \A w \in Values : CanonicalOf(g, w) \in Values => g[w] = CanonicalOf(g, w)
  <2> TAKE w \in Values
  <2> HAVE CanonicalOf(g, w) \in Values
  <2>1. D(g)[w] = CanonicalOf(g, w)
    OBVIOUS
  <2> HIDE DEF D
  <2> QED BY <1>6, <2>1
<1>8. \A w \in Values : g[w] = CanonicalOf(g, w)
  BY <1>7, CanonicalKept
<1>9. g = E(g)
  BY <1>5, <1>8
<1>10. CanonicalValue = E(CanonicalValue)
  <2>1. CanonicalValue = CHOOSE h : h = E(h)
    BY DEF CanonicalValue, CanonicalOf, OrderOf
  <2> HIDE DEF E
  <2> QED BY <2>1, <1>9
<1>11. \A w \in Values : CanonicalValue[w] = CanonicalOf(CanonicalValue, w)
  <2> TAKE w \in Values
  <2>1. E(CanonicalValue)[w] = CanonicalOf(CanonicalValue, w)
    OBVIOUS
  <2> HIDE DEF E
  <2> QED BY <2>1, <1>10
<1> QED BY <1>11, CanonicalKept

\* With sorted names a value may stand where it may stand without.
LEMMA CanonicalAllowed ==
  ASSUME NEW dialect, NEW v \in Values
  PROVE  \A depth \in Nat : Allowed(dialect, v, depth) => Allowed(dialect, CanonicalValue[v], depth)
<1> DEFINE S == {w \in Values : \A depth \in Nat :
                   Allowed(dialect, w, depth) => Allowed(dialect, CanonicalValue[w], depth)}
<1>1. ASSUME NEW w \in Values, \A i \in DOMAIN w.items : w.items[i] \in S
      PROVE  w \in S
  <2> SUFFICES ASSUME NEW depth \in Nat, Allowed(dialect, w, depth)
               PROVE  Allowed(dialect, CanonicalValue[w], depth)
    OBVIOUS
  <2> DEFINE u == CanonicalValue[w]
             n == Len(w.items)
             order == OrderOf(w)
  <2>1. u \in Values /\ u = CanonicalOf(CanonicalValue, w)
    BY CanonicalIs
  <2>2. /\ DOMAIN w.items = 1 .. n /\ order \in [1 .. n -> 1 .. n]
        /\ w.names = <<>> \/ DOMAIN w.names = 1 .. n
    BY OrderIs
  <2>3. /\ u.kind = w.kind /\ u.names = [i \in DOMAIN w.names |-> w.names[order[i]]]
        /\ u.items = [i \in DOMAIN w.items |-> CanonicalValue[w.items[order[i]]]]
    BY <2>1 DEF CanonicalOf, Tree
  <2>4. /\ depth <= dialect.limit
        /\ w.kind \in Opening \cup AtomsOf(dialect)
        /\ ToSet(w.names) \subseteq dialect.strings
        /\ \A i \in DOMAIN w.items : Allowed(dialect, w.items[i], depth + 1)
    BY AllowedIs
  <2> HIDE DEF u, order, n
  <2>5. ToSet(u.names) \subseteq dialect.strings
    <3>1. ToSet(u.names) \subseteq ToSet(w.names)
      <4>1. CASE w.names = <<>>
        <5>1. u.names = <<>>
          BY <2>3, <4>1
        <5> QED BY <4>1, <5>1
      <4>2. CASE DOMAIN w.names = 1 .. n
        <5>1. \A i \in DOMAIN w.names : order[i] \in DOMAIN w.names
          BY <2>2, <4>2
        <5> QED BY <2>3, <5>1 DEF ToSet
      <4> QED BY <2>2, <4>1, <4>2
    <3> QED BY <2>4, <3>1
  <2>6. \A i \in DOMAIN u.items : Allowed(dialect, u.items[i], depth + 1)
    <3> TAKE i \in DOMAIN u.items
    <3>1. i \in DOMAIN w.items /\ u.items[i] = CanonicalValue[w.items[order[i]]] /\ order[i] \in DOMAIN w.items
      BY <2>2, <2>3
    <3>2. w.items[order[i]] \in S /\ Allowed(dialect, w.items[order[i]], depth + 1) /\ depth + 1 \in Nat
      BY <1>1, <2>4, <3>1
    <3> QED BY <3>1, <3>2
  <2>7. Allowed(dialect, u, depth)
    BY <2>1, <2>3, <2>4, <2>5, <2>6, AllowedIs
  <2> QED BY <2>7 DEF u
<1>2. Values \subseteq S
  <2> HIDE DEF S
  <2> QED BY <1>1, ValueInduction
<1> QED BY <1>2

(***************************************************************************)
(* What a text says                                                        *)
(***************************************************************************)
SaidOf(token) == IF token \in Whitespace THEN <<>> ELSE <<PlainToken(token)>>
SaidParts(text) == [i \in DOMAIN text |-> SaidOf(text[i])]

\* What is said in front of a place.
Heard(text, place) == Flat(SaidParts(text), place - 1)

\* It grows by a token or white space.
LEMMA HeardIs ==
  ASSUME NEW text \in Seq(Tokens)
  PROVE  /\ Heard(text, 1) = <<>> /\ Heard(text, Len(text) + 1) = Said(text)
         /\ \A place \in Places(text) : Heard(text, place) \in Seq(PlainTokens \cup Tokens)
         /\ \A i \in 1 .. Len(text) :
              SaidOf(text[i]) \in Seq(PlainTokens \cup Tokens) /\ Heard(text, i + 1) = Heard(text, i) \o SaidOf(text[i])
<1> DEFINE R == PlainTokens \cup Tokens
           parts == SaidParts(text)
           n == Len(text)
<1>0. n \in Nat /\ DOMAIN text = 1 .. n /\ \A i \in 1 .. n : text[i] \in Tokens
  BY TextIs
<1>1. ASSUME NEW token \in Tokens PROVE PlainToken(token) \in R
  <2>1. CASE token \in Strings
    BY <2>1, AtomsAreNoMarks, TokensAre DEF PlainTokens
  <2>2. CASE token \notin Strings
    BY <2>2 DEF PlainToken
  <2> QED BY <2>1, <2>2
<1> HIDE DEF R
<1>2. \A i \in 1 .. n : SaidOf(text[i]) \in Seq(R)
  BY <1>0, <1>1, ShortSeqs DEF SaidOf
<1>3. parts \in Seq(Seq(R)) /\ Len(parts) = n /\ \A i \in 1 .. n : parts[i] = SaidOf(text[i])
  <2> DEFINE G(i) == SaidOf(text[i])
  <2>1. parts = [i \in 1 .. n |-> G(i)]
    BY <1>0 DEF SaidParts
  <2>2. \A i \in 1 .. n : G(i) \in Seq(R)
    BY <1>2
  <2> HIDE DEF G, parts, n
  <2>3. parts \in Seq(Seq(R)) /\ Len(parts) = n /\ \A i \in 1 .. n : parts[i] = G(i)
    BY <1>0, <2>1, <2>2
  <2> QED BY <2>3 DEF G
<1>4. Said(text) = FlattenSeq(parts)
  BY DEF Said, SaidParts, SaidOf
<1> HIDE DEF parts
<1>5. /\ Flat(parts, 0) = <<>>
      /\ \A i \in 0 .. n - 1 : Flat(parts, i + 1) = Flat(parts, i) \o parts[i + 1]
      /\ Flat(parts, n) = FlattenSeq(parts)
      /\ \A i \in 0 .. n : Flat(parts, i) \in Seq(R)
  BY <1>3, FlatIs, FlatType
<1>6. \A place : Heard(text, place) = Flat(parts, place - 1)
  BY DEF Heard, parts
<1>7. \A i \in Nat : Heard(text, i + 1) = Flat(parts, i)
  <2> TAKE i \in Nat
  <2>1. i + 1 - 1 = i
    OBVIOUS
  <2> QED BY <1>6, <2>1
<1> HIDE DEF n
<1>8. Heard(text, 1) = <<>> /\ Heard(text, n + 1) = Said(text)
  <2>1. 0 + 1 = 1 /\ 0 \in Nat
    OBVIOUS
  <2> QED BY <1>0, <1>4, <1>5, <1>7, <2>1
<1>9. \A place \in Places(text) : Heard(text, place) \in Seq(R)
  <2> TAKE place \in Places(text)
  <2>1. place - 1 \in 0 .. n
    BY <1>0 DEF Places, n
  <2> QED BY <1>5, <1>6, <2>1
<1>10. \A i \in 1 .. n : Heard(text, i + 1) = Heard(text, i) \o SaidOf(text[i])
  <2> TAKE i \in 1 .. n
  <2> DEFINE j == i - 1
  <2>1. j \in 0 .. n - 1 /\ j + 1 = i /\ j \in Nat /\ i \in Nat
    BY <1>0
  <2> HIDE DEF j
  <2>2. Heard(text, i) = Flat(parts, j) /\ Heard(text, i + 1) = Flat(parts, i)
    BY <1>7, <2>1
  <2> QED BY <1>3, <1>5, <2>1, <2>2
<1> QED BY <1>2, <1>8, <1>9, <1>10 DEF R, n

\* White space says nothing.
LEMMA HeardBlank ==
  ASSUME NEW text \in Seq(Tokens), NEW a \in Places(text), NEW b \in Places(text), a <= b, Ink(text, a, b) = {}
  PROVE  Heard(text, b) = Heard(text, a)
<1>0. Len(text) \in Nat /\ a \in Nat /\ b \in Nat /\ 1 <= a /\ b <= Len(text) + 1
  BY TextIs DEF Places
<1> DEFINE S == {j \in Nat : a + j <= b => Heard(text, a + j) = Heard(text, a)}
<1>1. 0 \in S
  <2>1. a + 0 = a
    BY <1>0
  <2> QED BY <2>1
<1>2. ASSUME NEW j \in Nat, j \in S PROVE j + 1 \in S
  <2> SUFFICES ASSUME a + (j + 1) <= b PROVE Heard(text, a + (j + 1)) = Heard(text, a)
    OBVIOUS
  <2> DEFINE i == a + j
  <2>1. i \in 1 .. Len(text) /\ i + 1 = a + (j + 1) /\ i <= b /\ i \in a .. b - 1 /\ i \in Places(text)
    BY <1>0 DEF Places
  <2>2. Heard(text, i) = Heard(text, a)
    BY <1>2, <2>1
  <2> HIDE DEF i
  <2>3. text[i] \in Whitespace
    BY <2>1 DEF Ink
  <2>4. SaidOf(text[i]) = <<>>
    BY <2>3 DEF SaidOf
  <2>5. Heard(text, i + 1) = Heard(text, i) \o <<>> /\ Heard(text, i) \in Seq(PlainTokens \cup Tokens)
    BY <2>1, <2>4, HeardIs
  <2>6. Heard(text, i + 1) = Heard(text, i)
    <3> DEFINE h == Heard(text, i)
    <3> HIDE DEF h
    <3>1. h \o <<>> = h
      BY <2>5 DEF h
    <3> QED BY <2>5, <3>1 DEF h
  <2> QED BY <2>1, <2>2, <2>6
<1>3. \A j \in Nat : j \in S
  <2> HIDE DEF S
  <2> QED BY <1>1, <1>2, Induction
<1>4. b - a \in Nat /\ a + (b - a) = b
  BY <1>0
<1>5. b - a \in S
  BY <1>3, <1>4
<1> QED BY <1>4, <1>5, <1>0

\* A token says what it is.
LEMMA HeardToken ==
  ASSUME NEW text \in Seq(Tokens), NEW i \in 1 .. Len(text), text[i] \notin Whitespace
  PROVE  /\ Heard(text, i + 1) = Heard(text, i) \o <<PlainToken(text[i])>>
         /\ text[i] \notin Strings => Heard(text, i + 1) = Heard(text, i) \o <<text[i]>>
BY HeardIs DEF SaidOf, PlainToken

\* A token among white space says itself.
LEMMA HeardOne ==
  ASSUME NEW text \in Seq(Tokens), NEW a \in Places(text), NEW b \in Places(text), NEW i \in 1 .. Len(text),
         Ink(text, a, b) = {i}
  PROVE  Heard(text, b) = Heard(text, a) \o <<PlainToken(text[i])>>
<1>0. Len(text) \in Nat /\ a \in Nat /\ b \in Nat /\ a <= i /\ i < b
  BY TextIs DEF Places, Ink
<1>1. Ink(text, a, i) = {} /\ Ink(text, i + 1, b) = {} /\ text[i] \notin Whitespace
  BY <1>0, OneInk
<1>2. i \in Places(text) /\ i + 1 \in Places(text) /\ i + 1 <= b
  BY <1>0 DEF Places
<1>3. Heard(text, i) = Heard(text, a)
  BY <1>0, <1>1, <1>2, HeardBlank
<1>4. Heard(text, b) = Heard(text, i + 1)
  <2> DEFINE c == i + 1
  <2>1. c \in Places(text) /\ c <= b /\ Ink(text, c, b) = {}
    BY <1>1, <1>2
  <2> HIDE DEF c
  <2>2. Heard(text, b) = Heard(text, c)
    BY <2>1, HeardBlank
  <2> QED BY <2>2 DEF c
<1> QED BY <1>1, <1>3, <1>4, HeardToken

\* What spells a value says what is written of it.
Says(text, v) ==
  \A from, to \in Places(text) :
    Spells(text, from, to, v) => Heard(text, to) = Heard(text, from) \o Encode[v]

\* The tokens of what is heard.
HeardTokens == PlainTokens \cup Tokens

\* What a text says and what is written are sequences of the same tokens.
LEMMA HeardType ==
  ASSUME NEW text \in Seq(Tokens)
  PROVE  /\ \A place \in Places(text) : Heard(text, place) \in Seq(HeardTokens)
         /\ \A v \in Values : Encode[v] \in Seq(HeardTokens)
         /\ \A token \in HeardTokens : <<token>> \in Seq(HeardTokens)
         /\ PlainTokens \subseteq HeardTokens /\ Tokens \subseteq HeardTokens /\ <<>> \in Seq(HeardTokens)
<1>1. \A v \in Values : Encode[v] \in Seq(HeardTokens)
  <2> TAKE v \in Values
  <2>1. Encode[v] \in Seq(PlainTokens) /\ PlainTokens \subseteq HeardTokens
    BY EncodeIs DEF HeardTokens
  <2> QED BY <2>1
<1> QED BY <1>1, HeardIs, ShortSeqs DEF HeardTokens

\* Two tokens are one and another.
LEMMA TwoHeard ==
  ASSUME NEW a \in HeardTokens, NEW b \in HeardTokens
  PROVE  /\ <<a, b>> = <<a>> \o <<b>> /\ <<a>> \in Seq(HeardTokens) /\ <<b>> \in Seq(HeardTokens)
         /\ <<a, b>> \in Seq(HeardTokens) /\ Len(<<a>>) = 1 /\ Len(<<b>>) = 1 /\ Len(<<a, b>>) = 2
<1> DEFINE x == <<a>>
           y == <<b>>
           z == <<a, b>>
<1>1. /\ x \in Seq(HeardTokens) /\ Len(x) = 1 /\ x[1] = a /\ y \in Seq(HeardTokens) /\ Len(y) = 1 /\ y[1] = b
      /\ z \in Seq(HeardTokens) /\ Len(z) = 2 /\ z[1] = a /\ z[2] = b
  OBVIOUS
<1> HIDE DEF x, y, z
<1>2. x \o y \in Seq(HeardTokens) /\ Len(x \o y) = 2 /\ (x \o y)[1] = a /\ (x \o y)[2] = b
  <2>1. /\ x \o y \in Seq(HeardTokens) /\ Len(x \o y) = Len(x) + Len(y)
        /\ \A i \in 1 .. Len(x) : (x \o y)[i] = x[i]
        /\ \A i \in 1 .. Len(y) : (x \o y)[Len(x) + i] = y[i]
    <3>1. x \in Seq(HeardTokens)
      BY <1>1
    <3>2. y \in Seq(HeardTokens)
      BY <1>1
    <3> QED BY <3>1, <3>2, ConcatIs
  <2>2. (x \o y)[1] = x[1] /\ (x \o y)[1 + 1] = y[1]
    BY <1>1, <2>1
  <2> QED BY <1>1, <2>1, <2>2
<1>3. z = x \o y
  <2>1. \A i \in 1 .. 2 : z[i] = (x \o y)[i]
    BY <1>1, <1>2
  <2> QED BY <1>1, <1>2, <2>1, SameSeq
<1> QED BY <1>1, <1>3 DEF x, y, z

\* What is said one thing behind the other.
LEMMA HeardTogether ==
  ASSUME NEW s \in Seq(HeardTokens), NEW t \in Seq(HeardTokens), NEW u \in Seq(HeardTokens)
  PROVE  (s \o t) \o u = s \o (t \o u) /\ s \o t \in Seq(HeardTokens)
<1>1. (s \o t) \o u = s \o (t \o u)
  BY ConcatAssociative
<1>2. s \o t \in Seq(HeardTokens)
  OBVIOUS
<1> QED BY <1>1, <1>2

\* Places next to one another, without what stands there.
LEMMA PlacesNext ==
  ASSUME NEW text \in Seq(Tokens), NEW mark \in 1 .. Len(text)
  PROVE  mark \in Places(text) /\ mark + 1 \in Places(text) /\ mark \in Nat /\ mark + 1 \in Nat
<1>1. Len(text) \in Nat
  BY TextIs
<1> QED BY <1>1 DEF Places

\* Where the name and the colon of a field stand.
LEMMA PlacesWithin ==
  ASSUME NEW text \in Seq(Tokens), NEW a \in Places(text), NEW b \in Places(text),
         NEW colon \in a .. b - 1, NEW i \in a .. colon - 1
  PROVE  /\ colon \in 1 .. Len(text) /\ colon \in Places(text) /\ colon + 1 \in Places(text)
         /\ i \in 1 .. Len(text) /\ i \in Places(text) /\ a <= i /\ i < colon
         /\ i \in a .. Len(text) /\ colon \in Nat /\ i \in Nat /\ a \in Nat
         /\ Ink(text, a, colon) = {i} => Ink(text, a, i) = {} /\ text[i] \notin Whitespace
<1>1. Len(text) \in Nat
  BY TextIs
<1>2. /\ colon \in 1 .. Len(text) /\ colon \in Places(text) /\ colon + 1 \in Places(text)
      /\ i \in 1 .. Len(text) /\ i \in Places(text) /\ a <= i /\ i < colon
      /\ i \in a .. Len(text) /\ colon \in Nat /\ i \in Nat /\ a \in Nat
  BY <1>1 DEF Places
<1>3. ASSUME Ink(text, a, colon) = {i} PROVE Ink(text, a, i) = {} /\ text[i] \notin Whitespace
  BY <1>2, <1>3, OneInk
<1> QED BY <1>2, <1>3

\* Marks are no strings.
LEMMA MarksAreThemselves ==
  ASSUME NEW m \in Opening \cup {"}", "]", ":", ","}
  PROVE  m \notin Whitespace /\ m \notin Strings /\ m \in PlainTokens /\ m \in Tokens
BY TokensAre DEF PlainTokens

\* A text that spells a leaf says it.
LEMMA SaysLeaf ==
  ASSUME NEW text \in Seq(Tokens), NEW v \in Values, v.kind \notin Opening
  PROVE  Says(text, v)
<1> SUFFICES ASSUME NEW from \in Places(text), NEW to \in Places(text), Spells(text, from, to, v)
             PROVE  Heard(text, to) = Heard(text, from) \o Encode[v]
  BY DEF Says
<1>1. PICK i \in 1 .. Len(text) : Ink(text, from, to) = {i} /\ text[i] \in Atoms /\ v = Leaf(PlainToken(text[i]))
  BY SpellsLeaf
<1>2. v.kind = PlainToken(text[i])
  BY <1>1 DEF Leaf, Tree
<1>3. Encode[v] = <<PlainToken(text[i])>>
  BY <1>2, EncodeIs DEF EncodeOf
<1>4. Heard(text, to) = Heard(text, from) \o <<PlainToken(text[i])>>
  BY <1>1, HeardOne
<1> QED BY <1>3, <1>4

\* Between the marks of an item is its part.
LEMMA SaysItem ==
  ASSUME NEW text \in Seq(Tokens), NEW v \in Values, Says(text, v),
         NEW mark \in 1 .. Len(text), NEW next \in 1 .. Len(text),
         text[mark] \in Opening \cup {","},
         Spells(text, mark + 1, next, v)
  PROVE  Heard(text, next) = Heard(text, mark) \o ((<<text[mark]>> \o <<>>) \o Encode[v])
<1>0. Len(text) \in Nat
  BY TextIs
<1> DEFINE a == mark + 1
<1>3. a \in Places(text) /\ next \in Places(text) /\ mark \in Places(text) /\ a \in Nat /\ next \in Nat
  BY PlacesNext
<1> DEFINE m == text[mark]
           h == Heard(text, mark)
           e == Encode[v]
           x == <<m>>
<1>1. m \notin Whitespace /\ m \notin Strings /\ m \in Tokens
  BY MarksAreThemselves
<1>2. Heard(text, a) = h \o x
  BY <1>1, HeardToken
<1>4. Spells(text, a, next, v)
  OBVIOUS
<1> HIDE DEF a, m, h, e
<1>5. Heard(text, next) = Heard(text, a) \o e
  BY <1>3, <1>4 DEF Says, e
<1>6. h \in Seq(HeardTokens) /\ x \in Seq(HeardTokens) /\ e \in Seq(HeardTokens)
  BY <1>1, <1>3, HeardType DEF h, e
<1>7. x \o <<>> = x
  BY <1>6, ConcatEmptySeq
<1> HIDE DEF x
<1>8. (h \o x) \o e = h \o (x \o e)
  BY ZenonT(60), <1>6, HeardTogether
<1> QED BY <1>2, <1>5, <1>7, <1>8 DEF m, h, e, x

\* The part of an object behind its mark.
LEMMA SaysNamed ==
  ASSUME NEW text \in Seq(Tokens), NEW v \in Values, Says(text, v),
         NEW mark \in 1 .. Len(text), NEW next \in 1 .. Len(text),
         text[mark] \in Opening \cup {","}, NEW k, IsObject(k),
         NEW start \in ValueStarts(Strings, text, k, mark + 1, next), Spells(text, start, next, v)
  PROVE  Heard(text, next) = Heard(text, mark) \o ((<<text[mark]>> \o <<NameOf(text, mark + 1), ":">>) \o Encode[v])
<1>0. Len(text) \in Nat
  BY TextIs
<1> DEFINE a == mark + 1
<1>3. a \in Places(text) /\ next \in Places(text) /\ mark \in Places(text) /\ a \in Nat /\ next \in Nat
  BY PlacesNext
<1> DEFINE m == text[mark]
           h == Heard(text, mark)
           e == Encode[v]
           x == <<m>>
           name == NameOf(text, a)
           c == ":"
           y == <<name>>
           z == <<c>>
           yz == <<name, c>>
<1>1. m \notin Whitespace /\ m \notin Strings /\ m \in Tokens
  BY MarksAreThemselves
<1>2. Heard(text, a) = h \o x
  BY <1>1, HeardToken
<1>4. PICK colon \in a .. next - 1 :
        /\ start = colon + 1 /\ text[colon] = ":"
        /\ \E i \in a .. colon - 1 : Ink(text, a, colon) = {i} /\ text[i] \in Strings
  BY DEF ValueStarts, IsObject
<1>5. PICK i \in a .. colon - 1 : Ink(text, a, colon) = {i} /\ text[i] \in Strings
  BY <1>4
<1> HIDE DEF a, m, h, e, name
<1>6. /\ colon \in 1 .. Len(text) /\ colon \in Places(text) /\ colon + 1 \in Places(text)
      /\ i \in 1 .. Len(text) /\ i \in Places(text) /\ a <= i /\ i < colon
      /\ i \in a .. Len(text) /\ colon \in Nat /\ i \in Nat /\ a \in Nat
      /\ Ink(text, a, i) = {} /\ text[i] \notin Whitespace
  BY <1>3, <1>5, PlacesWithin
<1>61. start \in Places(text)
  BY <1>4, <1>6
<1>7. Heard(text, colon) = Heard(text, a) \o <<PlainToken(text[i])>>
  <2>1. a \in Places(text) /\ colon \in Places(text) /\ i \in 1 .. Len(text) /\ Ink(text, a, colon) = {i}
    BY <1>3, <1>5, <1>6
  <2> QED BY ONLY <2>1, text \in Seq(Tokens), HeardOne
<1>8. Heard(text, start) = Heard(text, colon) \o z
  <2>1. c \notin Whitespace /\ c \notin Strings
    BY MarksAreThemselves
  <2> QED BY <1>4, <1>6, <2>1, HeardToken
<1>9. PlainToken(text[i]) = name
  <2>2. name = DecodedString[text[i]]
    BY <1>3, <1>6, NameIs DEF name
  <2> QED BY <1>5, <2>2 DEF PlainToken
<1>10. Heard(text, next) = Heard(text, start) \o e
  BY <1>3, <1>6, <1>61 DEF Says, e
<1>11. name \in HeardTokens /\ m \in HeardTokens /\ c \in HeardTokens
  <2>1. name \in PlainTokens
    BY <1>5, <1>9, AtomsAreNoMarks, TokensAre DEF PlainTokens
  <2>2. c \in PlainTokens
    BY DEF PlainTokens
  <2> QED BY <1>1, <2>1, <2>2, HeardType
<1> HIDE DEF c
<1>12. /\ h \in Seq(HeardTokens) /\ x \in Seq(HeardTokens) /\ y \in Seq(HeardTokens)
       /\ z \in Seq(HeardTokens) /\ e \in Seq(HeardTokens)
  BY <1>3, <1>11, HeardType DEF h, e
<1>13. yz = y \o z
  BY <1>11, TwoHeard
<1> HIDE DEF x, y, z, yz
<1>14. Heard(text, next) = (((h \o x) \o y) \o z) \o e
  BY <1>2, <1>7, <1>8, <1>9, <1>10 DEF y
<1> DEFINE hx == h \o x
           q == x \o yz
<1>15. hx \in Seq(HeardTokens) /\ yz \in Seq(HeardTokens) /\ q \in Seq(HeardTokens)
  <2>1. yz \in Seq(HeardTokens)
    BY <1>12, <1>13, HeardTogether
  <2> QED BY <1>12, <2>1, HeardTogether
<1>16. hx \o yz = h \o q
  <2>1. h \in Seq(HeardTokens) /\ x \in Seq(HeardTokens) /\ yz \in Seq(HeardTokens)
    BY <1>12, <1>15
  <2> QED BY ONLY ZenonT(60), <2>1, HeardTogether
<1> HIDE DEF q
<1>161. (h \o q) \o e = h \o (q \o e)
  <2>1. h \in Seq(HeardTokens) /\ q \in Seq(HeardTokens) /\ e \in Seq(HeardTokens)
    BY <1>12, <1>15
  <2> QED BY ONLY ZenonT(60), <2>1, HeardTogether
<1> HIDE DEF hx
<1>162. (hx \o y) \o z = hx \o (y \o z)
  <2>1. hx \in Seq(HeardTokens) /\ y \in Seq(HeardTokens) /\ z \in Seq(HeardTokens)
    BY <1>12, <1>15
  <2> QED BY ONLY ZenonT(60), <2>1, HeardTogether
<1>18. Heard(text, next) = ((hx \o y) \o z) \o e
  BY <1>14 DEF hx
<1>19. Heard(text, next) = h \o (q \o e)
  BY <1>13, <1>16, <1>161, <1>162, <1>18
<1> QED BY <1>19 DEF m, h, e, x, yz, name, a, c, q

\* A text that spells an empty list or object says it.
LEMMA SaysEmpty ==
  ASSUME NEW text \in Seq(Tokens), NEW v \in Values, v.kind \in Opening, v.items = <<>>
  PROVE  Says(text, v)
<1> SUFFICES ASSUME NEW from \in Places(text), NEW to \in Places(text), Spells(text, from, to, v)
             PROVE  Heard(text, to) = Heard(text, from) \o Encode[v]
  BY DEF Says
<1> DEFINE k == v.kind
           c == Closing(k)
           h == Heard(text, from)
<1>0. Len(text) \in Nat
  BY TextIs
<1>1. PICK first, last \in 1 .. Len(text) :
        /\ IsBracketed(text, from, to, k, first, last)
        /\ Ink(text, first + 1, last) = {}
  <2>1. PICK first, last \in 1 .. Len(text) :
          /\ IsBracketed(text, from, to, v.kind, first, last)
          /\ IF v.items = <<>> THEN Ink(text, first + 1, last) = {}
             ELSE \E marks : /\ Rowed(text, Spelled(text), v.kind, v.names, v.items, marks)
                             /\ marks[1] = first /\ marks[Len(marks)] = last
    BY SpellsNest
  <2> QED BY <2>1
<1> DEFINE a == first + 1
           b == last + 1
<1>2. /\ from <= first /\ first < last /\ last < to /\ Ink(text, from, first) = {} /\ Ink(text, b, to) = {}
      /\ text[first] = k /\ text[last] = c /\ Ink(text, a, last) = {}
      /\ a \in Places(text) /\ b \in Places(text) /\ first \in Places(text) /\ last \in Places(text)
      /\ a <= last /\ b <= to
  BY <1>0, <1>1 DEF IsBracketed, Places
<1>3. Encode[v] = <<k, c>>
  BY EncodeIs DEF EncodeOf
<1>4. k \in Opening /\ c \in {"}", "]"}
  BY DEF Closing
<1> HIDE DEF k, c
<1>5. /\ k \notin Whitespace /\ k \notin Strings /\ k \in HeardTokens
      /\ c \notin Whitespace /\ c \notin Strings /\ c \in HeardTokens
  BY <1>4, MarksAreThemselves, HeardType
<1>6. Heard(text, a) = Heard(text, first) \o <<k>> /\ Heard(text, b) = Heard(text, last) \o <<c>>
  BY <1>2, <1>5, HeardToken
<1> HIDE DEF a, b
<1>7. Heard(text, first) = h /\ Heard(text, last) = Heard(text, a) /\ Heard(text, to) = Heard(text, b)
  BY <1>2, HeardBlank
<1> DEFINE x == <<k>>
           y == <<c>>
<1>8. h \in Seq(HeardTokens) /\ x \in Seq(HeardTokens) /\ y \in Seq(HeardTokens) /\ <<k, c>> = x \o y
  BY <1>5, HeardType, TwoHeard
<1> HIDE DEF x, y, h
<1>9. Heard(text, to) = (h \o x) \o y
  BY <1>6, <1>7 DEF x, y
<1>10. (h \o x) \o y = h \o (x \o y)
  BY SMTT(40), <1>8, HeardTogether
<1> QED BY <1>3, <1>8, <1>9, <1>10 DEF h

\* A part of an object or a list, and what is written of it.
HasPart(text, k, m, name, v, mark, next, start) ==
  /\ k \in Opening /\ m \in Opening \cup {","} /\ v \in Values /\ Says(text, v)
  /\ mark \in 1 .. Len(text) /\ next \in 1 .. Len(text) /\ text[mark] = m
  /\ IsObject(k) => name = NameOf(text, mark + 1)
  /\ start \in ValueStarts(Strings, text, k, mark + 1, next) /\ Spells(text, start, next, v)
PartOf(k, m, name, v) == (<<m>> \o (IF k = "{" THEN <<name, ":">> ELSE <<>>)) \o Encode[v]

\* A part of a row says its mark, its name and its value.
LEMMA SaysPart ==
  ASSUME NEW text \in Seq(Tokens), NEW k, NEW m, NEW name, NEW v, NEW mark, NEW next, NEW start,
         HasPart(text, k, m, name, v, mark, next, start)
  PROVE  Heard(text, next) = Heard(text, mark) \o PartOf(k, m, name, v)
<1> USE DEF HasPart, PartOf
<1>1. CASE IsObject(k)
  <2>1. Heard(text, next) = Heard(text, mark) \o ((<<text[mark]>> \o <<NameOf(text, mark + 1), ":">>) \o Encode[v])
    <3>1. /\ v \in Values /\ Says(text, v) /\ mark \in 1 .. Len(text) /\ next \in 1 .. Len(text)
          /\ text[mark] \in Opening \cup {","}
          /\ start \in ValueStarts(Strings, text, k, mark + 1, next) /\ Spells(text, start, next, v)
      OBVIOUS
    <3> QED BY ONLY text \in Seq(Tokens), <1>1, <3>1, SaysNamed
  <2> QED BY <1>1, <2>1 DEF IsObject
<1>2. CASE ~IsObject(k)
  <2>1. k = "["
    BY <1>2 DEF IsObject, Opening
  <2>2. start = mark + 1
    BY <2>1 DEF ValueStarts
  <2>3. Heard(text, next) = Heard(text, mark) \o ((<<text[mark]>> \o <<>>) \o Encode[v])
    <3>1. text[mark] \in Opening \cup {","} /\ Spells(text, mark + 1, next, v)
      BY <2>2
    <3>2. v \in Values /\ Says(text, v) /\ mark \in 1 .. Len(text) /\ next \in 1 .. Len(text)
      OBVIOUS
    <3> QED BY ONLY text \in Seq(Tokens), <3>1, <3>2, SaysItem
  <2> QED BY <2>1, <2>3
<1> QED BY <1>1, <1>2

\* What is said up to each mark, when every item adds its part.
SaysParts(text, n, marks, parts, h) ==
  /\ n \in Nat /\ parts \in Seq(Seq(HeardTokens)) /\ Len(parts) = n /\ h \in Seq(HeardTokens)
  /\ Heard(text, marks[1]) = h
  /\ \A i \in 1 .. n : Heard(text, marks[i + 1]) = Heard(text, marks[i]) \o parts[i]

\* The parts of a row say what is written of the items, one behind the other.
LEMMA SaidUpTo ==
  ASSUME NEW text, NEW n, NEW marks, NEW parts, NEW h, SaysParts(text, n, marks, parts, h)
  PROVE  Heard(text, marks[n + 1]) = h \o FlattenSeq(parts) /\ FlattenSeq(parts) \in Seq(HeardTokens)
<1> USE DEF SaysParts
<1> DEFINE F(i) == Flat(parts, i)
           S == {i \in Nat : i <= n => Heard(text, marks[i + 1]) = h \o F(i)}
<1>1. /\ F(0) = <<>> /\ F(n) = FlattenSeq(parts) /\ \A i \in 0 .. n : F(i) \in Seq(HeardTokens)
      /\ \A i \in 0 .. n - 1 : F(i + 1) = F(i) \o parts[i + 1]
  BY FlatIs, FlatType
<1> HIDE DEF F
<1>2. 0 \in S
  <2>1. h \o <<>> = h
    BY ConcatEmptySeq
  <2>2. 0 + 1 = 1
    OBVIOUS
  <2> QED BY <1>1, <2>1, <2>2
<1>3. ASSUME NEW i \in Nat, i \in S PROVE i + 1 \in S
  <2> SUFFICES ASSUME i + 1 <= n PROVE Heard(text, marks[(i + 1) + 1]) = h \o F(i + 1)
    OBVIOUS
  <2> DEFINE j == i + 1
  <2>1. j \in 1 .. n /\ i \in 0 .. n /\ i \in 0 .. n - 1 /\ i <= n
    OBVIOUS
  <2>2. Heard(text, marks[j]) = h \o F(i)
    BY <1>3, <2>1
  <2>3. F(j) = F(i) \o parts[j] /\ F(i) \in Seq(HeardTokens)
    BY <1>1, <2>1
  <2> HIDE DEF j
  <2>4. parts[j] \in Seq(HeardTokens)
    BY <2>1
  <2>5. Heard(text, marks[j + 1]) = (h \o F(i)) \o parts[j]
    BY <2>1, <2>2
  <2> DEFINE x == F(i)
             y == parts[j]
  <2>6. (h \o x) \o y = h \o (x \o y)
    <3>1. x \in Seq(HeardTokens) /\ y \in Seq(HeardTokens)
      BY <2>3, <2>4
    <3> HIDE DEF x, y
    <3> QED BY <3>1, HeardTogether
  <2> QED BY <2>3, <2>5, <2>6 DEF j
<1>4. \A i \in Nat : i \in S
  <2> HIDE DEF S
  <2> QED BY <1>2, <1>3, Induction
<1>5. Heard(text, marks[n + 1]) = h \o F(n)
  <2>1. n \in S
    BY <1>4
  <2> QED BY <2>1
<1> QED BY <1>1, <1>5

\* A text that spells a value with items says it when its parts say the items.
LEMMA SaysNest ==
  ASSUME NEW text \in Seq(Tokens), NEW v \in Values, v.kind \in Opening, v.items # <<>>,
         \A i \in DOMAIN v.items : Says(text, v.items[i])
  PROVE  Says(text, v)
<1> SUFFICES ASSUME NEW from \in Places(text), NEW to \in Places(text), Spells(text, from, to, v)
             PROVE  Heard(text, to) = Heard(text, from) \o Encode[v]
  BY DEF Says
<1> DEFINE k == v.kind
           c == Closing(k)
           n == Len(v.items)
           parts == PartsOf(Encode, v)
           m(i) == IF i = 1 THEN k ELSE ","
           h == Heard(text, from)
<1>0. Len(text) \in Nat
  BY TextIs
<1>1. n \in Nat /\ n # 0 /\ DOMAIN v.items = 1 .. n /\ (\A i \in 1 .. n : v.items[i] \in Values)
  BY TreeIs, SeqIs, EmptySeq
<1>2. PICK first, last \in 1 .. Len(text) :
        /\ IsBracketed(text, from, to, v.kind, first, last)
        /\ IF v.items = <<>> THEN Ink(text, first + 1, last) = {}
           ELSE \E marks : /\ Rowed(text, Spelled(text), v.kind, v.names, v.items, marks)
                           /\ marks[1] = first /\ marks[Len(marks)] = last
  BY SpellsNest
<1>3. PICK marks : /\ Rowed(text, Spelled(text), v.kind, v.names, v.items, marks)
                   /\ marks[1] = first /\ marks[Len(marks)] = last
  BY <1>2
<1>4. (\A i \in 1 .. n + 1 : marks[i] \in 1 .. Len(text)) /\ marks[n + 1] = last
  BY <1>1, <1>3, MarksAre
<1>5. /\ parts \in Seq(Seq(PlainTokens)) /\ Len(parts) = n
      /\ \A i \in 1 .. n : parts[i] = (<<m(i)>> \o (IF k = "{" THEN <<v.names[i], ":">> ELSE <<>>)) \o Encode[v.items[i]]
  <2>1. \A i \in DOMAIN v.items : Encode[v.items[i]] \in Seq(PlainTokens)
    BY <1>1, EncodeIs
  <2> QED BY <2>1, PartsAre
<1>6. Encode[v] = FlattenSeq(parts) \o <<c>>
  BY EncodeIs DEF EncodeOf
<1>7. /\ from <= first /\ first < last /\ last < to /\ Ink(text, from, first) = {} /\ Ink(text, last + 1, to) = {}
      /\ text[first] = k /\ text[last] = c
  BY <1>2 DEF IsBracketed
<1>8. k \in Opening /\ c \in {"}", "]"}
  BY DEF Closing
<1>9. \A i : m(i) \in Opening \cup {","}
  BY <1>8
<1> HIDE DEF parts, c, n, k
<1>10. parts \in Seq(Seq(HeardTokens))
  <2>1. PlainTokens \subseteq HeardTokens
    BY HeardType
  <2>2. Seq(PlainTokens) \subseteq Seq(HeardTokens)
    BY <2>1
  <2> DEFINE P == Seq(PlainTokens)
             H == Seq(HeardTokens)
  <2>3. P \subseteq H /\ parts \in Seq(P)
    BY <1>5, <2>2
  <2> HIDE DEF P, H
  <2>4. Seq(P) \subseteq Seq(H)
    BY <2>3
  <2>5. parts \in Seq(H)
    BY <2>3, <2>4
  <2> QED BY <2>5 DEF H
<1>11. Heard(text, first) = h /\ h \in Seq(HeardTokens)
  <2>1. first \in Places(text)
    BY PlacesNext
  <2> QED BY <1>7, <2>1, HeardBlank, HeardType
<1>12. ASSUME NEW i \in 1 .. n
       PROVE  Heard(text, marks[i + 1]) = Heard(text, marks[i]) \o parts[i]
  <2> DEFINE w == v.items[i]
             name == v.names[i]
             mark == marks[i]
             next == marks[i + 1]
             mi == m(i)
  <2>1. w \in Values /\ Says(text, w)
    BY <1>1
  <2>2. mark \in 1 .. Len(text) /\ next \in 1 .. Len(text)
    <3>1. i \in 1 .. n + 1 /\ i + 1 \in 1 .. n + 1
      BY <1>1
    <3> QED BY <1>4, <3>1
  <2>3. /\ i # 1 => text[mark] = ","
        /\ IsObject(k) => name = NameOf(text, mark + 1)
        /\ \E start \in ValueStarts(Strings, text, k, mark + 1, next) : <<start, next>> \in Spelled(text)[w]
    BY <1>3 DEF Rowed, n, IsObject, k
  <2>4. PICK start \in ValueStarts(Strings, text, k, mark + 1, next) : Spells(text, start, next, w)
    BY <2>3 DEF Spells
  <2>5. text[mark] = mi
    <3>1. CASE i = 1
      BY <1>3, <1>7, <3>1
    <3>2. CASE i # 1
      BY <2>3, <3>2
    <3> QED BY <3>1, <3>2
  <2>6. parts[i] = (<<mi>> \o (IF k = "{" THEN <<name, ":">> ELSE <<>>)) \o Encode[w]
    BY <1>5
  <2>7. mi \in Opening \cup {","}
    BY <1>9
  <2>8. IsObject(k) => name = NameOf(text, mark + 1)
    BY <2>3
  <2> HIDE DEF w, name, mark, next, mi
  <2>9. HasPart(text, k, mi, name, w, mark, next, start)
    BY <1>8, <2>1, <2>2, <2>4, <2>5, <2>7, <2>8 DEF HasPart
  <2>10. Heard(text, next) = Heard(text, mark) \o PartOf(k, mi, name, w)
    BY <2>9, SaysPart
  <2>11. parts[i] = PartOf(k, mi, name, w)
    BY <2>6 DEF PartOf
  <2> QED BY <2>10, <2>11 DEF mark, next
<1> DEFINE f == FlattenSeq(parts)
           x == <<c>>
           b == last + 1
<1>13. Heard(text, last) = h \o f /\ f \in Seq(HeardTokens)
  <2>1. Heard(text, marks[1]) = h
    BY <1>3, <1>11
  <2> HIDE DEF h, f
  <2>2. Heard(text, marks[n + 1]) = h \o FlattenSeq(parts) /\ FlattenSeq(parts) \in Seq(HeardTokens)
    <3>1. n \in Nat /\ Len(parts) = n
      BY <1>1, <1>5
    <3>2. SaysParts(text, n, marks, parts, h)
      BY <1>10, <1>11, <1>12, <2>1, <3>1 DEF SaysParts
    <3> QED BY ONLY <3>1, <3>2, SaidUpTo
  <2> QED BY <1>4, <2>2 DEF f
<1>14. c \notin Whitespace /\ c \notin Strings /\ c \in HeardTokens
  BY <1>8, MarksAreThemselves, HeardType
<1>15. last \in Places(text) /\ b \in Places(text) /\ b <= to
  <2>1. to \in Nat /\ last \in Nat
    BY <1>0 DEF Places
  <2>2. b <= to
    BY <1>7, <2>1
  <2> QED BY <2>2, PlacesNext
<1>16. Heard(text, b) = Heard(text, last) \o x
  BY <1>7, <1>14, HeardToken
<1> HIDE DEF b
<1>17. Heard(text, to) = Heard(text, b)
  BY <1>7, <1>15, HeardBlank DEF b
<1>18. x \in Seq(HeardTokens)
  BY <1>14, HeardType
<1> HIDE DEF h, x, f
<1>19. (h \o f) \o x = h \o (f \o x)
  BY ONLY SMTT(40), <1>11, <1>13, <1>18, HeardTogether
<1>20. Encode[v] = f \o x
  BY <1>6 DEF f, x
<1> QED BY <1>13, <1>16, <1>17, <1>19, <1>20 DEF h

\* A text that spells a value says what JSON.stringify writes of it, but for
\* white space and escapes.
THEOREM SpelledIsSaid ==
  ASSUME NEW text \in Seq(Tokens), NEW v \in Values, Spells(text, 1, Len(text) + 1, v)
  PROVE  Said(text) = Encode[v]
<1> DEFINE S == {w \in Values : Says(text, w)}
<1>1. ASSUME NEW w \in Values, \A i \in DOMAIN w.items : w.items[i] \in S
      PROVE  w \in S
  <2>1. CASE w.kind \notin Opening
    BY <2>1, SaysLeaf
  <2>2. CASE w.kind \in Opening /\ w.items = <<>>
    BY <2>2, SaysEmpty
  <2>3. CASE w.kind \in Opening /\ w.items # <<>>
    BY <1>1, <2>3, SaysNest
  <2> QED BY <2>1, <2>2, <2>3
<1>2. Says(text, v)
  <2>1. Values \subseteq S
    <3> HIDE DEF S
    <3> QED BY <1>1, ValueInduction
  <2> QED BY <2>1
<1> DEFINE b == Len(text) + 1
<1>3. 1 \in Places(text) /\ b \in Places(text)
  BY TextIs DEF Places
<1>4. Heard(text, 1) = <<>> /\ Heard(text, b) = Said(text)
  BY HeardIs
<1>5. Spells(text, 1, b, v)
  OBVIOUS
<1>6. Encode[v] \in Seq(HeardTokens)
  BY HeardType
<1> HIDE DEF b, S
<1>7. Heard(text, b) = <<>> \o Encode[v]
  BY <1>2, <1>3, <1>4, <1>5 DEF Says
<1>8. <<>> \o Encode[v] = Encode[v]
  BY <1>6, ConcatEmptySeq
<1> QED BY <1>4, <1>7, <1>8

(***************************************************************************)
(* The marks of a row, one by one                                          *)
(***************************************************************************)
IsOrder(T, n, f) ==
  /\ n \in Nat /\ f \in [1 .. n -> T]
  /\ \A i, j \in 1 .. n : i < j => f[i] < f[j]
  /\ \A t \in T : \E i \in 1 .. n : f[i] = t

\* Places can be counted in their order.
LEMMA InOrder ==
  ASSUME NEW N \in Nat, NEW T \in SUBSET (1 .. N)
  PROVE  \E n, f : IsOrder(T, n, f)
<1> DEFINE S == {m \in Nat : \A U \in SUBSET (1 .. m) : \E n, f : IsOrder(U, n, f)}
<1>1. 0 \in S
  <2> SUFFICES ASSUME NEW U \in SUBSET (1 .. 0) PROVE \E n, f : IsOrder(U, n, f)
    OBVIOUS
  <2>1. U = {}
    OBVIOUS
  <2> DEFINE f == [i \in 1 .. 0 |-> i]
  <2>2. IsOrder(U, 0, f)
    BY <2>1 DEF IsOrder
  <2> QED BY <2>2
<1>2. ASSUME NEW m \in Nat, m \in S PROVE m + 1 \in S
  <2> SUFFICES ASSUME NEW U \in SUBSET (1 .. m + 1) PROVE \E n, f : IsOrder(U, n, f)
    OBVIOUS
  <2> DEFINE V == U \ {m + 1}
  <2>1. V \in SUBSET (1 .. m)
    OBVIOUS
  <2>2. PICK n, f : IsOrder(V, n, f)
    BY <1>2, <2>1
  <2>3. CASE m + 1 \notin U
    <3>1. V = U
      BY <2>3
    <3> QED BY <2>2, <3>1
  <2>4. CASE m + 1 \in U
    <3> DEFINE l == n + 1
               top == m + 1
               g == [i \in 1 .. l |-> IF i = l THEN top ELSE f[i]]
    <3>0. U = V \cup {top} /\ (\A v \in V : v < top /\ v \in Nat) /\ top \in Nat
      BY <2>1, <2>4
    <3>1. n \in Nat /\ f \in [1 .. n -> V] /\ (\A i, j \in 1 .. n : i < j => f[i] < f[j])
          /\ (\A t \in V : \E i \in 1 .. n : f[i] = t)
      BY <2>2 DEF IsOrder
    <3>2. l \in Nat /\ l \in 1 .. l /\ \A i \in 1 .. l : i = l \/ (i \in 1 .. n /\ i # l)
      BY <3>1
    <3>3. \A i \in 1 .. n : i \in 1 .. l /\ i # l
      BY <3>1
    <3> HIDE DEF l, top, V
    <3>4. g[l] = top /\ \A i \in 1 .. n : g[i] = f[i] /\ f[i] \in V
      BY <3>1, <3>2, <3>3
    <3>5. g \in [1 .. l -> U]
      BY <3>0, <3>1, <3>2
    <3> HIDE DEF g
    <3>6. ASSUME NEW i \in 1 .. l, NEW j \in 1 .. l, i < j PROVE g[i] < g[j]
      <4>1. i \in 1 .. n
        <5>1. i # l
          BY <3>2, <3>6
        <5> QED BY <3>2, <5>1
      <4>2. CASE j = l
        BY <3>0, <3>4, <4>1, <4>2
      <4>3. CASE j \in 1 .. n
        BY <3>1, <3>4, <3>6, <4>1, <4>3
      <4> QED BY <3>2, <4>2, <4>3
    <3>7. ASSUME NEW t \in U PROVE \E i \in 1 .. l : g[i] = t
      <4>1. CASE t = top
        BY <3>2, <3>4, <4>1
      <4>2. CASE t \in V
        BY <3>1, <3>3, <3>4, <4>2
      <4> QED BY <3>0, <4>1, <4>2
    <3>8. IsOrder(U, l, g)
      BY <3>2, <3>5, <3>6, <3>7 DEF IsOrder
    <3> QED BY <3>8
  <2> QED BY <2>3, <2>4
<1>3. \A m \in Nat : m \in S
  <2> HIDE DEF S
  <2> QED BY <1>1, <1>2, Induction
<1>4. N \in S
  BY <1>3
<1> QED BY <1>4

\* The end of the part behind a mark, as the grammar finds it.
Until(commas, last, mark) == Min({m \in commas \cup {last} : m > mark})

\* The marks f of n parts are a bracket and commas, and another bracket.
InRow(n, f, first, last, commas) ==
  /\ n \in Nat /\ n # 0 /\ f[1] = first /\ f[n + 1] = last
  /\ \A i \in 1 .. n + 1 : f[i] \in Nat
  /\ \A i, j \in 1 .. n + 1 : i < j => f[i] < f[j]
  /\ \A i \in 1 .. n : f[i] \in commas \cup {first} /\ f[i + 1] \in commas \cup {last}
  /\ \A m \in commas \cup {first} : \E i \in 1 .. n : m = f[i]
  /\ \A m \in commas \cup {last} : \E i \in 1 .. n : m = f[i + 1]

\* The least member of a set of numbers.
LEMMA MinOnly ==
  ASSUME NEW S \in SUBSET Nat, NEW x \in S, \A m \in S : x <= m
  PROVE  Min(S) = x
<1>1. Min(S) \in S /\ \A m \in S : Min(S) <= m
  BY MinIsLeast
<1> DEFINE y == Min(S)
<1>2. y \in Nat /\ x \in Nat /\ y <= x /\ x <= y
  BY <1>1
<1> QED BY <1>2

\* A part of a row ends at the next mark.
LEMMA UntilIs ==
  ASSUME NEW n, NEW f, NEW first, NEW last, NEW commas, InRow(n, f, first, last, commas), NEW i \in 1 .. n
  PROVE  Until(commas, last, f[i]) = f[i + 1]
<1> DEFINE S == {m \in commas \cup {last} : m > f[i]}
<1>1. n \in Nat /\ i \in 1 .. n + 1 /\ i + 1 \in 1 .. n + 1 /\ i < i + 1 /\ i \in Nat
  BY DEF InRow
<1>2. ASSUME NEW m \in commas \cup {last}
      PROVE  m \in Nat /\ (m > f[i] => f[i + 1] <= m)
  <2>1. PICK j \in 1 .. n : m = f[j + 1]
    BY DEF InRow
  <2> DEFINE l == j + 1
             k == i + 1
  <2>2. l \in 1 .. n + 1 /\ l \in Nat /\ k \in Nat
    BY <1>1
  <2>3. f[l] \in Nat /\ f[k] \in Nat /\ f[i] \in Nat /\ k \in 1 .. n + 1
    BY <1>1, <2>2 DEF InRow
  <2>4. l < i => f[l] < f[i]
    BY <1>1, <2>2 DEF InRow
  <2>5. k < l => f[k] < f[l]
    BY <2>2, <2>3 DEF InRow
  <2>6. l < i \/ l = i \/ l = k \/ k < l
    BY <1>1, <2>2
  <2> HIDE DEF l, k
  <2>7. f[l] > f[i] => f[k] <= f[l]
    BY <2>3, <2>4, <2>5, <2>6
  <2> QED BY <2>1, <2>3, <2>7 DEF l, k
<1>3. f[i + 1] \in commas \cup {last} /\ f[i + 1] > f[i]
  <2>1. f[i] < f[i + 1] /\ f[i] \in Nat /\ f[i + 1] \in Nat
    BY <1>1 DEF InRow
  <2> QED BY <2>1 DEF InRow
<1>4. S \in SUBSET Nat /\ f[i + 1] \in S /\ \A m \in S : f[i + 1] <= m
  BY <1>2, <1>3
<1>5. Min(S) = f[i + 1]
  <2> HIDE DEF S
  <2> QED BY <1>4, MinOnly
<1> QED BY <1>5 DEF Until

\* Marks in their order make a row.
LEMMA RowOfMarks ==
  ASSUME NEW n \in Nat, n # 0, NEW f, \A i \in 1 .. n + 1 : f[i] \in Nat,
         \A i, j \in 1 .. n + 1 : i < j => f[i] < f[j]
  PROVE  InRow(n, f, f[1], f[n + 1], {f[i] : i \in 2 .. n})
<1> DEFINE first == f[1]
           last == f[n + 1]
           commas == {f[i] : i \in 2 .. n}
<1>1. \A i \in 1 .. n : i = 1 \/ i \in 2 .. n
  OBVIOUS
<1>2. \A i \in 1 .. n : i + 1 = n + 1 \/ i + 1 \in 2 .. n
  OBVIOUS
<1>3. \A i \in 1 .. n : f[i] \in commas \cup {first} /\ f[i + 1] \in commas \cup {last}
  BY <1>1, <1>2
<1>4. \A m \in commas \cup {first} : \E i \in 1 .. n : m = f[i]
  <2>1. 1 \in 1 .. n /\ \A i \in 2 .. n : i \in 1 .. n
    OBVIOUS
  <2> QED BY <2>1
<1>5. \A m \in commas \cup {last} : \E i \in 1 .. n : m = f[i + 1]
  <2>1. n \in 1 .. n /\ \A i \in 2 .. n : \E j \in 1 .. n : i = j + 1
    <3>1. \A i \in 2 .. n : i - 1 \in 1 .. n /\ i = (i - 1) + 1
      OBVIOUS
    <3> QED BY <3>1
  <2> QED BY <2>1
<1> HIDE DEF first, last, commas
<1>6. f[1] = first /\ f[n + 1] = last
  BY DEF first, last
<1>7. InRow(n, f, first, last, commas)
  BY <1>3, <1>4, <1>5, <1>6 DEF InRow
<1> QED BY <1>7 DEF first, last, commas

\* A row has marks in their order.
LEMMA MarksOfRow ==
  ASSUME NEW first \in Nat, NEW last \in Nat, 1 <= first, first < last, NEW commas \in SUBSET (first + 1 .. last - 1)
  PROVE  \E n, f : InRow(n, f, first, last, commas) /\ \A i \in 1 .. n : i # 1 => f[i] \in commas
<1> DEFINE T == commas \cup {first, last}
<1>1. T \in SUBSET (1 .. last) /\ (\A t \in T : t \in Nat /\ first <= t /\ t <= last)
  OBVIOUS
<1>2. PICK l, f : IsOrder(T, l, f)
  BY <1>1, InOrder
<1>3. l \in Nat /\ (\A i \in 1 .. l : f[i] \in T) /\ (\A i, j \in 1 .. l : i < j => f[i] < f[j])
      /\ (\A t \in T : \E i \in 1 .. l : f[i] = t)
  BY <1>2 DEF IsOrder
<1>4. first \in T /\ last \in T
  OBVIOUS
<1>5. \A c \in commas : c # first /\ c # last /\ c \in T
  OBVIOUS
<1>6. \A t \in T : t \in commas \/ t = first \/ t = last
  OBVIOUS
<1> HIDE DEF T
<1>7. PICK a \in 1 .. l : f[a] = first
  BY <1>3, <1>4
<1>8. PICK b \in 1 .. l : f[b] = last
  BY <1>3, <1>4
<1>9. 1 \in 1 .. l /\ l \in 1 .. l
  BY <1>3
<1>10. f[1] = first
  <2>1. ~(1 < a)
    <3>1. f[1] \in Nat /\ first <= f[1]
      BY <1>1, <1>3, <1>9
    <3>2. 1 < a => f[1] < f[a]
      BY <1>3, <1>9
    <3> QED BY <1>7, <3>1, <3>2
  <2>2. a = 1
    BY <2>1
  <2> QED BY <1>7, <2>2
<1>11. f[l] = last
  <2>1. ~(b < l)
    <3>1. f[l] \in Nat /\ f[l] <= last
      BY <1>1, <1>3, <1>9
    <3>2. b < l => f[b] < f[l]
      BY <1>3, <1>9
    <3> QED BY <1>8, <3>1, <3>2
  <2>2. b = l
    BY <1>3, <2>1
  <2> QED BY <1>8, <2>2
<1>12. l # 1 /\ l # 0
  BY <1>9, <1>10, <1>11
<1>13. PICK n \in Nat : l = n + 1 /\ n # 0
  <2>1. l - 1 \in Nat /\ l = (l - 1) + 1 /\ l - 1 # 0
    BY <1>3, <1>12
  <2> QED BY <2>1
<1>14. \A i \in 1 .. n : i \in 1 .. l /\ i + 1 \in 1 .. l /\ i < l /\ 1 < i + 1 /\ (i # 1 => 1 < i)
  BY <1>13
<1>15. ASSUME NEW i \in 1 .. n
       PROVE  f[i] # last /\ f[i + 1] # first /\ f[i] \in T /\ f[i + 1] \in T /\ (i # 1 => f[i] # first)
  <2> DEFINE k == i + 1
  <2>1. i \in 1 .. l /\ k \in 1 .. l /\ i < l /\ 1 < k /\ (i # 1 => 1 < i)
    BY <1>14
  <2> HIDE DEF k
  <2>2. f[i] < f[l] /\ f[1] < f[k] /\ (i # 1 => f[1] < f[i]) /\ f[i] \in T /\ f[k] \in T
    BY <1>3, <1>9, <2>1
  <2>3. f[i] \in Nat /\ f[k] \in Nat
    BY <1>1, <2>2
  <2> QED BY <1>10, <1>11, <2>2, <2>3 DEF k
<1>16. ASSUME NEW m \in commas \cup {first} PROVE \E i \in 1 .. n : m = f[i]
  <2>1. m \in T /\ m # last
    BY <1>4, <1>5, <1>16
  <2>2. PICK i \in 1 .. l : f[i] = m
    BY <1>3, <2>1
  <2>3. i # l
    BY <1>11, <2>1, <2>2
  <2>4. i \in 1 .. n
    BY <1>13, <2>3
  <2> QED BY <2>2, <2>4
<1>17. ASSUME NEW m \in commas \cup {last} PROVE \E i \in 1 .. n : m = f[i + 1]
  <2>1. m \in T /\ m # first
    BY <1>4, <1>5, <1>17
  <2>2. PICK i \in 1 .. l : f[i] = m
    BY <1>3, <2>1
  <2>3. i # 1
    BY <1>10, <2>1, <2>2
  <2>4. i - 1 \in 1 .. n /\ (i - 1) + 1 = i
    BY <1>13, <2>3
  <2> QED BY <2>2, <2>4
<1>18. \A i \in 1 .. n : f[i] \in commas \cup {first} /\ f[i + 1] \in commas \cup {last} /\ (i # 1 => f[i] \in commas)
  BY <1>6, <1>15
<1>19. \A i \in 1 .. l : f[i] \in Nat
  BY <1>1, <1>3
<1>20. InRow(n, f, first, last, commas)
  BY <1>3, <1>10, <1>11, <1>13, <1>16, <1>17, <1>18, <1>19 DEF InRow
<1> QED BY <1>18, <1>20

\* Where a part of a row starts, and its name.
LEMMA StartsAre ==
  ASSUME NEW text \in Seq(Tokens), NEW a \in Places(text), NEW b \in Places(text),
         NEW strings \in SUBSET Strings, NEW more \in SUBSET Strings, NEW k \in Opening,
         NEW start \in ValueStarts(strings, text, k, a, b),
         IsObject(k) => \A s \in strings : DecodedString[s] = NameOf(text, a) => s \in more
  PROVE  /\ start \in Places(text) /\ start \in ValueStarts(more, text, k, a, b)
         /\ IsObject(k) => \E s \in strings : NameOf(text, a) = DecodedString[s]
<1>1. CASE ~IsObject(k)
  <2>1. k = "["
    BY <1>1 DEF IsObject, Opening
  <2> QED BY <1>1, <2>1 DEF ValueStarts
<1>2. CASE IsObject(k)
  <2> DEFINE IsColon(c) == text[c] = ":"
  <2>1. \A c : k # "["
    BY <1>2 DEF IsObject
  <2>2. \A few : ValueStarts(few, text, k, a, b)
          = {c + 1 : c \in {d \in a .. b - 1 :
               IsColon(d) /\ \E name \in a .. d - 1 : Ink(text, a, d) = {name} /\ text[name] \in few}}
    BY <2>1 DEF ValueStarts
  <2> HIDE DEF IsColon
  <2>3. PICK c \in a .. b - 1 : start = c + 1 /\ IsColon(c)
          /\ \E name \in a .. c - 1 : Ink(text, a, c) = {name} /\ text[name] \in strings
    <3> DEFINE D == {d \in a .. b - 1 :
               IsColon(d) /\ \E name \in a .. d - 1 : Ink(text, a, d) = {name} /\ text[name] \in strings}
    <3>1. start \in {c + 1 : c \in D}
      BY <2>2
    <3> HIDE DEF D
    <3>2. PICK c \in D : start = c + 1
      BY <3>1
    <3> QED BY <3>2 DEF D
  <2>4. PICK name \in a .. c - 1 : Ink(text, a, c) = {name} /\ text[name] \in strings
    BY <2>3
  <2>5. /\ c + 1 \in Places(text) /\ name \in a .. Len(text)
        /\ Ink(text, a, name) = {} /\ text[name] \notin Whitespace
    BY <2>4, PlacesWithin
  <2>6. NameOf(text, a) = DecodedString[text[name]]
    BY <2>5, NameIs
  <2>7. text[name] \in more
    BY <1>2, <2>4, <2>6
  <2>8. start \in ValueStarts(more, text, k, a, b)
    BY <2>2, <2>3, <2>4, <2>7
  <2> QED BY <2>3, <2>4, <2>5, <2>6, <2>8
<1> QED BY <1>1, <1>2

\* A pair of brackets as the grammar has it.
LEMMA BracketedIs ==
  ASSUME NEW text \in Seq(Tokens), NEW from \in Places(text), NEW to \in Places(text), NEW k \in Opening,
         NEW first \in 1 .. Len(text), NEW last \in 1 .. Len(text), text[first] = k, text[last] = Closing(k)
  PROVE  IsBracketed(text, from, to, k, first, last) <=>
           /\ first \in Ink(text, from, to) /\ last \in Ink(text, from, to)
           /\ first < last /\ \A i \in Ink(text, from, to) : first <= i /\ i <= last
<1>0. from \in Nat /\ to \in Nat /\ 1 <= from /\ to <= Len(text) + 1 /\ Len(text) \in Nat /\ first \in Nat /\ last \in Nat
  BY TextIs DEF Places
<1>1. text[first] \notin Whitespace /\ text[last] \notin Whitespace
  BY TokensAre
<1> DEFINE Is == from <= first /\ first < last /\ last < to /\ Ink(text, from, first) = {} /\ Ink(text, last + 1, to) = {}
<1>2. IsBracketed(text, from, to, k, first, last) <=> Is
  BY DEF IsBracketed
<1>3. ASSUME Is
      PROVE  /\ first \in Ink(text, from, to) /\ last \in Ink(text, from, to)
             /\ first < last /\ \A i \in Ink(text, from, to) : first <= i /\ i <= last
  BY ONLY <1>0, <1>1, <1>3 DEF Ink
<1>4. ASSUME first \in Ink(text, from, to), last \in Ink(text, from, to),
             first < last, \A i \in Ink(text, from, to) : first <= i /\ i <= last
      PROVE  Is
  BY ONLY <1>0, <1>1, <1>4 DEF Ink
<1> QED BY <1>2, <1>3, <1>4

\* A row as the grammar has it.
IsComma(text, i) == text[i] = ","
RowAt(dialect, text, k, inner, first, last, commas) ==
  /\ commas \in SUBSET {i \in first + 1 .. last - 1 : IsComma(text, i)}
  /\ \A m \in commas \cup {first} :
       \E start \in ValueStarts(dialect.strings, text, k, m + 1, Until(commas, last, m)) :
         inner[<<start, Until(commas, last, m)>>]
  /\ IsObject(k) =>
       \A m, n \in commas \cup {first} : NameOf(text, m + 1) = NameOf(text, n + 1) => m = n

\* A row of the grammar is one for some commas.
LEMMA RowIsAt ==
  ASSUME NEW dialect, NEW text, NEW inner, NEW first, NEW last
  PROVE  IsRow(dialect, text, inner, first, last) <=>
           \E commas : RowAt(dialect, text, text[first], inner, first, last, commas)
BY DEF IsRow, RowAt, IsComma, IsObject, Until

\* A row at marks, one by one.
MarksFit(dialect, text, k, inner, n, f) ==
  /\ \A i \in 1 .. n : \E start \in ValueStarts(dialect.strings, text, k, f[i] + 1, f[i + 1]) :
                         inner[<<start, f[i + 1]>>]
  /\ IsObject(k) => \A i, j \in 1 .. n : NameOf(text, f[i] + 1) = NameOf(text, f[j] + 1) => i = j

\* The marks of a row, taken one by one, fit as they do taken together.
LEMMA RowAtMarks ==
  ASSUME NEW dialect, NEW text, NEW k, NEW inner, NEW n, NEW f, NEW first, NEW last, NEW commas,
         InRow(n, f, first, last, commas), commas \in SUBSET {i \in first + 1 .. last - 1 : IsComma(text, i)}
  PROVE  RowAt(dialect, text, k, inner, first, last, commas) <=> MarksFit(dialect, text, k, inner, n, f)
<1>1. \A i \in 1 .. n : Until(commas, last, f[i]) = f[i + 1]
  BY UntilIs
<1>2. (\A i \in 1 .. n : f[i] \in commas \cup {first}) /\ \A m \in commas \cup {first} : \E i \in 1 .. n : m = f[i]
  BY DEF InRow
<1>3. \A i, j \in 1 .. n : f[i] = f[j] => i = j
  <2> TAKE i, j \in 1 .. n
  <2>1. n \in Nat /\ i \in 1 .. n + 1 /\ j \in 1 .. n + 1
    BY DEF InRow
  <2>2. f[i] \in Nat /\ f[j] \in Nat /\ (i < j => f[i] < f[j]) /\ (j < i => f[j] < f[i])
    BY <2>1 DEF InRow
  <2> QED BY <2>1, <2>2
<1> DEFINE Fits(m, next) == \E start \in ValueStarts(dialect.strings, text, k, m + 1, next) : inner[<<start, next>>]
           PartName(m) == NameOf(text, m + 1)
           End(m) == Until(commas, last, m)
           marks == commas \cup {first}
<1>4. RowAt(dialect, text, k, inner, first, last, commas) <=>
        /\ \A m \in marks : Fits(m, End(m))
        /\ IsObject(k) => \A m, l \in marks : PartName(m) = PartName(l) => m = l
  BY DEF RowAt
<1>5. (\A i \in 1 .. n : f[i] \in marks /\ End(f[i]) = f[i + 1]) /\ \A m \in marks : \E i \in 1 .. n : m = f[i]
  BY <1>1, <1>2
<1>6. /\ (\A m \in marks : Fits(m, End(m))) <=> (\A i \in 1 .. n : Fits(f[i], f[i + 1]))
      /\ (\A m, l \in marks : PartName(m) = PartName(l) => m = l) <=> (\A i, j \in 1 .. n : PartName(f[i]) = PartName(f[j]) => i = j)
  <2> HIDE DEF Fits, PartName, End, marks
  <2>1. (\A m \in marks : Fits(m, End(m))) <=> (\A i \in 1 .. n : Fits(f[i], f[i + 1]))
    BY <1>5
  <2>2. (\A m, l \in marks : PartName(m) = PartName(l) => m = l) <=> (\A i, j \in 1 .. n : PartName(f[i]) = PartName(f[j]) => i = j)
    BY <1>3, <1>5
  <2> QED BY <2>1, <2>2
<1> QED BY <1>4, <1>6 DEF MarksFit

\* The grammar has a part with what spells it.
IsBetween(dialect, text, inner, from, to, k, first, last) ==
  /\ IsBracketed(text, from, to, k, first, last)
  /\ Ink(text, first + 1, last) = {} \/ \E commas : RowAt(dialect, text, k, inner, first, last, commas)

\* A nested value of the grammar is an atom or stands between its brackets.
LEMMA NestedIs ==
  ASSUME NEW dialect, NEW text \in Seq(Tokens), NEW inner, NEW from \in Places(text), NEW to \in Places(text)
  PROVE  IsNested(dialect, text, inner, from, to) <=>
           \/ \E i \in 1 .. Len(text) : Ink(text, from, to) = {i} /\ text[i] \in AtomsOf(dialect)
           \/ \E k \in Opening : \E first, last \in 1 .. Len(text) :
                IsBetween(dialect, text, inner, from, to, k, first, last)
<1> DEFINE ink == Ink(text, from, to)
           Inside(first, last) ==
             Ink(text, first + 1, last) = {} \/ IsRow(dialect, text, inner, first, last)
           One == \E i \in ink : ink = {i} /\ text[i] \in AtomsOf(dialect)
           Around(k, first, last) == /\ first < last /\ \A i \in ink : first <= i /\ i <= last
                                     /\ text[first] = k /\ text[last] = Closing(k)
<1>0. ink \subseteq 1 .. Len(text)
  <2>1. from \in Nat /\ to \in Nat /\ 1 <= from /\ to <= Len(text) + 1 /\ Len(text) \in Nat
    BY TextIs DEF Places
  <2> QED BY <2>1 DEF Ink
<1>1. IsNested(dialect, text, inner, from, to) <=>
        One \/ \E k \in Opening : \E first, last \in ink : Around(k, first, last) /\ Inside(first, last)
  BY DEF IsNested
<1>2. \A k, first, last : text[first] = k =>
        (Inside(first, last) <=>
           Ink(text, first + 1, last) = {} \/ \E commas : RowAt(dialect, text, k, inner, first, last, commas))
  BY RowIsAt
<1>3. \A k \in Opening : \A first, last \in 1 .. Len(text) :
        IsBracketed(text, from, to, k, first, last) <=> first \in ink /\ last \in ink /\ Around(k, first, last)
  <2> TAKE k \in Opening
  <2> TAKE first, last \in 1 .. Len(text)
  <2>1. IsBracketed(text, from, to, k, first, last) => text[first] = k /\ text[last] = Closing(k)
    BY DEF IsBracketed
  <2> QED BY <2>1, BracketedIs
<1>4. \A k, first, last : Around(k, first, last) => text[first] = k
  OBVIOUS
<1> HIDE DEF ink, Inside, Around
<1>5. One <=> \E i \in 1 .. Len(text) : ink = {i} /\ text[i] \in AtomsOf(dialect)
  BY <1>0
<1>6. \A k \in Opening : \A first, last \in 1 .. Len(text) :
        IsBetween(dialect, text, inner, from, to, k, first, last)
          <=> first \in ink /\ last \in ink /\ Around(k, first, last) /\ Inside(first, last)
  <2> TAKE k \in Opening
  <2> TAKE first, last \in 1 .. Len(text)
  <2>1. IsBracketed(text, from, to, k, first, last) <=> first \in ink /\ last \in ink /\ Around(k, first, last)
    BY <1>3
  <2>2. Around(k, first, last) =>
          (Inside(first, last) <=>
             Ink(text, first + 1, last) = {} \/ \E commas : RowAt(dialect, text, k, inner, first, last, commas))
    BY <1>2, <1>4
  <2> QED BY <2>1, <2>2 DEF IsBetween
<1> HIDE DEF One
<1>7. (\E k \in Opening : \E first, last \in ink : Around(k, first, last) /\ Inside(first, last))
        <=> \E k \in Opening : \E first, last \in 1 .. Len(text) :
              IsBetween(dialect, text, inner, from, to, k, first, last)
  BY <1>0, <1>6
<1> QED BY <1>1, <1>5, <1>7 DEF ink

\* So many levels of the grammar take what is spelled with as many.
Takes(dialect, text, n, inner) ==
  \A from, to \in Places(text) : \A v \in Values :
    Spells(text, from, to, v) /\ Allowed(dialect, v, dialect.limit + 1 - n) => inner[<<from, to>>]

\* What spells an object or a list that may be read is a part of the grammar.
LEMMA TakesRow ==
  ASSUME NEW dialect, IsDialect(dialect), NEW text \in Seq(Tokens), NEW n \in Nat, NEW inner,
         Takes(dialect, text, n, inner), NEW k, NEW names, NEW items, NEW marks,
         IsReadable(dialect, text, n, k, names, items, marks)
  PROVE  \E commas : RowAt(dialect, text, k, inner, marks[1], marks[Len(items) + 1], commas)
<1> DEFINE c == Len(items)
           first == marks[1]
           last == marks[c + 1]
           commas == {marks[i] : i \in 2 .. c}
<1>0. Len(text) \in Nat
  BY TextIs
<1>1. /\ k \in Opening /\ names \in Seq(PlainStrings) /\ items \in Seq(Values) /\ items # <<>>
      /\ NamesFit(k, names, c) /\ Rowed(text, Spelled(text), k, names, items, marks)
      /\ ToSet(names) \subseteq dialect.strings
      /\ \A i \in 1 .. c : Allowed(dialect, items[i], dialect.limit + 1 - n)
  BY DEF IsReadable
<1>2. c \in Nat /\ c # 0 /\ \A i \in 1 .. c : items[i] \in Values
  BY <1>1, SeqIs, EmptySeq
<1>3. c = Len(items)
  OBVIOUS
<1> HIDE DEF c
<1>4. /\ \A i \in 1 .. c + 1 : marks[i] \in 1 .. Len(text)
      /\ \A i, j \in 1 .. c + 1 : i < j => marks[i] < marks[j]
  BY <1>1, <1>2, <1>3, MarksAre
<1>5. \A i \in 1 .. c + 1 : marks[i] \in Nat
  BY <1>0, <1>4
<1>6. InRow(c, marks, first, last, commas)
  BY <1>2, <1>4, <1>5, RowOfMarks
<1>7. ASSUME NEW i \in 1 .. c
      PROVE  /\ i # 1 => IsComma(text, marks[i])
             /\ IsObject(k) => names[i] = NameOf(text, marks[i] + 1)
             /\ \E start \in ValueStarts(Strings, text, k, marks[i] + 1, marks[i + 1]) :
                  Spells(text, start, marks[i + 1], items[i])
  BY <1>1, <1>3 DEF Rowed, IsComma, IsObject, Spells
<1>8. commas \in SUBSET {i \in first + 1 .. last - 1 : IsComma(text, i)}
  <2> SUFFICES ASSUME NEW i \in 2 .. c
               PROVE  marks[i] \in first + 1 .. last - 1 /\ IsComma(text, marks[i])
    OBVIOUS
  <2>1. i \in 1 .. c /\ i # 1 /\ i \in 1 .. c + 1 /\ 1 \in 1 .. c + 1 /\ c + 1 \in 1 .. c + 1 /\ 1 < i /\ i < c + 1
    BY <1>2
  <2>2. first < marks[i] /\ marks[i] < last /\ first \in Nat /\ last \in Nat /\ marks[i] \in Nat
    BY <1>4, <1>5, <2>1
  <2> HIDE DEF first, last
  <2>3. marks[i] \in first + 1 .. last - 1
    BY <2>2
  <2> QED BY <1>7, <2>1, <2>3
<1> HIDE DEF first, last, commas
<1>9. ASSUME NEW i \in 1 .. c
      PROVE  \E start \in ValueStarts(dialect.strings, text, k, marks[i] + 1, marks[i + 1]) :
               inner[<<start, marks[i + 1]>>]
  <2> DEFINE mark == marks[i]
             a == mark + 1
             b == marks[i + 1]
             w == items[i]
  <2>1. mark \in 1 .. Len(text) /\ b \in 1 .. Len(text)
    <3>1. i \in 1 .. c + 1 /\ i + 1 \in 1 .. c + 1
      BY <1>2
    <3> QED BY <1>4, <3>1
  <2>2. a \in Places(text) /\ b \in Places(text)
    BY <2>1, PlacesNext
  <2>3. PICK start \in ValueStarts(Strings, text, k, a, b) : Spells(text, start, b, w)
    BY <1>7
  <2>4. w \in Values /\ Allowed(dialect, w, dialect.limit + 1 - n)
    BY <1>1, <1>2
  <2>5. IsObject(k) => NameOf(text, a) \in dialect.strings
    <3>1. ASSUME IsObject(k) PROVE names[i] \in ToSet(names)
      <4>1. Len(names) = c
        BY <1>1, <3>1 DEF NamesFit, AreNamed, IsObject
      <4> QED BY <1>1, <4>1, SeqIs DEF ToSet
    <3>2. IsObject(k) => names[i] = NameOf(text, a)
      BY <1>7
    <3> QED BY <1>1, <3>1, <3>2
  <2> HIDE DEF mark, a, b, w
  <2>6. start \in Places(text) /\ start \in ValueStarts(dialect.strings, text, k, a, b)
    <3> DEFINE few == dialect.strings
    <3>1. few \in SUBSET Strings
      BY DEF IsDialect
    <3>2. Strings \in SUBSET Strings
      OBVIOUS
    <3>3. IsObject(k) => \A s \in Strings : DecodedString[s] = NameOf(text, a) => s \in few
      BY <2>5 DEF IsDialect
    <3> HIDE DEF few
    <3>4. start \in Places(text) /\ start \in ValueStarts(few, text, k, a, b)
      BY <1>1, <2>2, <2>3, <3>1, <3>2, <3>3, StartsAre
    <3> QED BY <3>4 DEF few
  <2>7. inner[<<start, b>>]
    BY <2>2, <2>3, <2>4, <2>6 DEF Takes
  <2> QED BY <2>6, <2>7 DEF a, b, mark
<1>10. IsObject(k) =>
         \A i, j \in 1 .. c : NameOf(text, marks[i] + 1) = NameOf(text, marks[j] + 1) => i = j
  <2> SUFFICES ASSUME IsObject(k), NEW i \in 1 .. c, NEW j \in 1 .. c,
                      NameOf(text, marks[i] + 1) = NameOf(text, marks[j] + 1)
               PROVE  i = j
    OBVIOUS
  <2>1. names[i] = names[j]
    BY <1>7
  <2>2. IsInjective(names) /\ Len(names) = c
    BY <1>1 DEF NamesFit, AreNamed, IsObject
  <2>3. DOMAIN names = 1 .. c
    BY <1>1, <2>2, SeqIs
  <2> QED BY <2>1, <2>2, <2>3 DEF IsInjective
<1>11. RowAt(dialect, text, k, inner, first, last, commas)
  <2>1. MarksFit(dialect, text, k, inner, c, marks)
    BY <1>9, <1>10 DEF MarksFit
  <2> QED BY <1>6, <1>8, <2>1, RowAtMarks
<1> QED BY <1>11 DEF first, last, c

\* What spells a value with one level more is a text of the grammar with one level
\* more.
LEMMA TakesNested ==
  ASSUME NEW dialect, IsDialect(dialect), NEW text \in Seq(Tokens), NEW n \in Nat, n <= dialect.limit, NEW inner,
         Takes(dialect, text, n, inner), NEW from \in Places(text), NEW to \in Places(text),
         NEW v \in Values, Spells(text, from, to, v), Allowed(dialect, v, dialect.limit + 1 - (n + 1))
  PROVE  IsNested(dialect, text, inner, from, to)
<1>1. dialect.limit \in Nat
  BY DEF IsDialect
<1>2. PICK depth \in Nat : depth = dialect.limit + 1 - (n + 1) /\ depth + 1 = dialect.limit + 1 - n
  <2>1. dialect.limit - n \in Nat /\ dialect.limit - n = dialect.limit + 1 - (n + 1)
        /\ dialect.limit - n + 1 = dialect.limit + 1 - n
    BY <1>1
  <2> QED BY <2>1
<1>3. /\ v.kind \in Opening \cup AtomsOf(dialect) /\ ToSet(v.names) \subseteq dialect.strings
      /\ \A i \in DOMAIN v.items : Allowed(dialect, v.items[i], dialect.limit + 1 - n)
  BY <1>2, AllowedIs
<1>4. CASE v.kind \notin Opening
  <2>1. PICK i \in 1 .. Len(text) : Ink(text, from, to) = {i} /\ text[i] \in Atoms /\ v = Leaf(PlainToken(text[i]))
    BY <1>4, SpellsLeaf
  <2>2. PlainToken(text[i]) \in AtomsOf(dialect)
    BY <1>3, <1>4, <2>1 DEF Leaf, Tree
  <2>3. text[i] \in AtomsOf(dialect)
    BY <2>1, <2>2, DialectAtoms
  <2> QED BY <2>1, <2>3, NestedIs
<1>5. CASE v.kind \in Opening
  <2> DEFINE k == v.kind
  <2>1. PICK first, last \in 1 .. Len(text) :
        /\ IsBracketed(text, from, to, k, first, last)
        /\ IF v.items = <<>> THEN Ink(text, first + 1, last) = {}
           ELSE \E marks : /\ Rowed(text, Spelled(text), k, v.names, v.items, marks)
                           /\ marks[1] = first /\ marks[Len(marks)] = last
    BY ZenonT(60), <1>5, SpellsNest
  <2>2. Ink(text, first + 1, last) = {} \/ \E commas : RowAt(dialect, text, k, inner, first, last, commas)
    <3>1. CASE v.items = <<>>
      BY <2>1, <3>1
    <3>2. CASE v.items # <<>>
      <4>1. PICK marks : /\ Rowed(text, Spelled(text), k, v.names, v.items, marks)
                         /\ marks[1] = first /\ marks[Len(marks)] = last
        BY <2>1, <3>2
      <4>2. /\ v.items \in Seq(Values) /\ v.names \in Seq(PlainStrings) /\ DOMAIN v.items = 1 .. Len(v.items)
            /\ NamesFit(k, v.names, Len(v.items))
        BY TreeIs, SeqIs DEF NamesFit, AreNamed
      <4>3. Len(marks) = Len(v.items) + 1
        BY <4>1 DEF Rowed
      <4>4. text[marks[Len(v.items) + 1]] = Closing(k)
        BY <2>1, <4>1, <4>3 DEF IsBracketed
      <4>5. IsReadable(dialect, text, n, k, v.names, v.items, marks)
        BY <1>3, <1>5, <3>2, <4>1, <4>2, <4>4 DEF IsReadable
      <4>6. \E commas : RowAt(dialect, text, k, inner, marks[1], marks[Len(v.items) + 1], commas)
        BY <4>5, TakesRow
      <4> QED BY <4>1, <4>3, <4>6
    <3> QED BY <3>1, <3>2
  <2>3. k \in Opening /\ IsBetween(dialect, text, inner, from, to, k, first, last)
    BY <1>5, <2>1, <2>2 DEF IsBetween
  <2> HIDE DEF k
  <2> QED BY <2>3, NestedIs
<1> QED BY <1>4, <1>5

\* The grammar has every text that spells a value that may be read.
THEOREM TakesLevels ==
  ASSUME NEW dialect, IsDialect(dialect), NEW text \in Seq(Tokens)
  PROVE  \A n \in 0 .. dialect.limit + 1 : Takes(dialect, text, n, Grammar(dialect, text)[n])
<1> DEFINE G(n) == Grammar(dialect, text)[n]
           S == {n \in Nat : n <= dialect.limit + 1 => Takes(dialect, text, n, G(n))}
<1>0. dialect.limit \in Nat
  BY DEF IsDialect
<1>p. Places(text) \subseteq Nat
  BY TextIs DEF Places
<1>1. 0 \in S
  <2>1. ASSUME NEW v \in Values PROVE ~Allowed(dialect, v, dialect.limit + 1 - 0)
    <3>1. dialect.limit + 1 - 0 \in Nat /\ ~(dialect.limit + 1 - 0 <= dialect.limit)
      BY <1>0
    <3> QED BY <3>1, AllowedIs
  <2> HIDE DEF G
  <2> QED BY <2>1 DEF Takes
<1>2. ASSUME NEW n \in Nat, n \in S PROVE n + 1 \in S
  <2> SUFFICES ASSUME n + 1 <= dialect.limit + 1, NEW from \in Places(text), NEW to \in Places(text), NEW v \in Values,
                      Spells(text, from, to, v), Allowed(dialect, v, dialect.limit + 1 - (n + 1))
               PROVE  G(n + 1)[<<from, to>>]
    BY DEF Takes
  <2>1. n <= dialect.limit /\ n <= dialect.limit + 1
    BY <1>0
  <2>2. Takes(dialect, text, n, G(n))
    BY <1>2, <2>1
  <2>3. IsNested(dialect, text, G(n), from, to)
    <3> HIDE DEF G
    <3> QED BY <2>1, <2>2, TakesNested
  <2>4. from \in Nat /\ to \in Nat
    BY <1>p
  <2> HIDE DEF S
  <2> QED BY ONLY <2>3, <2>4, n \in Nat, GrammarIs
<1>3. \A n \in Nat : n \in S
  <2> HIDE DEF S
  <2> QED BY <1>1, <1>2, Induction
<1>4. ASSUME NEW n \in 0 .. dialect.limit + 1 PROVE Takes(dialect, text, n, G(n))
  <2>1. n \in Nat /\ n <= dialect.limit + 1
    BY <1>0
  <2>2. n \in S
    BY <1>3, <2>1
  <2> QED BY <2>1, <2>2
<1> QED BY <1>4

\* What so many levels of the grammar take spells a value with as many.
Gives(dialect, text, n, inner) ==
  \A from, to \in Places(text) : inner[<<from, to>>] => \E v : IsRead(dialect, text, n, from, to, v)

\* An object or a list that is spelled at marks from one place to another.
IsMade(dialect, text, n, k, first, last, names, items, marks) ==
  /\ names \in Seq(PlainStrings) /\ items \in Seq(ValuesOf[n]) /\ items # <<>>
  /\ NamesFit(k, names, Len(items)) /\ ToSet(names) \subseteq dialect.strings
  /\ Rowed(text, Spelled(text), k, names, items, marks)
  /\ marks[1] = first /\ marks[Len(marks)] = last
  /\ \A i \in 1 .. Len(items) : Allowed(dialect, items[i], dialect.limit + 1 - n)

\* A row of the grammar spells an object or a list.
LEMMA GivesRow ==
  ASSUME NEW dialect, IsDialect(dialect), NEW text \in Seq(Tokens), NEW n \in Nat, NEW inner,
         Gives(dialect, text, n, inner), NEW k \in Opening, NEW first \in 1 .. Len(text), NEW last \in 1 .. Len(text),
         first < last, NEW commas, RowAt(dialect, text, k, inner, first, last, commas)
  PROVE  \E names, items, marks : IsMade(dialect, text, n, k, first, last, names, items, marks)
<1>0. Len(text) \in Nat
  BY TextIs
<1>1. commas \in SUBSET {i \in first + 1 .. last - 1 : IsComma(text, i)}
  BY DEF RowAt
<1>2. PICK c, f : InRow(c, f, first, last, commas) /\ \A i \in 1 .. c : i # 1 => f[i] \in commas
  <2>1. commas \in SUBSET (first + 1 .. last - 1) /\ first \in Nat /\ last \in Nat /\ 1 <= first
    BY <1>0, <1>1
  <2> QED BY <2>1, MarksOfRow
<1>3. /\ c \in Nat /\ c # 0 /\ f[1] = first /\ f[c + 1] = last
      /\ \A i \in 1 .. c + 1 : f[i] \in Nat
      /\ \A i, j \in 1 .. c + 1 : i < j => f[i] < f[j]
  BY <1>2 DEF InRow
<1>4. /\ \A i \in 1 .. c : \E start \in ValueStarts(dialect.strings, text, k, f[i] + 1, f[i + 1]) :
                              inner[<<start, f[i + 1]>>]
      /\ IsObject(k) => \A i, j \in 1 .. c : NameOf(text, f[i] + 1) = NameOf(text, f[j] + 1) => i = j
  <2>1. InRow(c, f, first, last, commas) /\ RowAt(dialect, text, k, inner, first, last, commas)
    BY <1>2
  <2>2. MarksFit(dialect, text, k, inner, c, f)
    BY ONLY <1>1, <2>1, RowAtMarks
  <2> QED BY <2>2 DEF MarksFit
<1>5. \A i \in 1 .. c : i # 1 => IsComma(text, f[i])
  BY <1>1, <1>2
<1>6. \A i \in 1 .. c + 1 : f[i] \in 1 .. Len(text)
  <2> TAKE i \in 1 .. c + 1
  <2>1. 1 \in 1 .. c + 1 /\ c + 1 \in 1 .. c + 1 /\ (i = 1 \/ 1 < i) /\ (i = c + 1 \/ i < c + 1)
    BY <1>3
  <2>2. first \in Nat /\ last \in Nat /\ 1 <= first /\ last <= Len(text) /\ f[i] \in Nat
    BY <1>0, <1>3
  <2>3. first = f[i] \/ first < f[i]
    BY <1>3, <2>1
  <2>4. f[i] = last \/ f[i] < last
    BY <1>3, <2>1
  <2> QED BY <1>0, <2>2, <2>3, <2>4
<1>7. \A i \in 1 .. c : f[i] < f[i + 1] /\ f[i] \in 1 .. Len(text) /\ f[i + 1] \in 1 .. Len(text)
  <2> TAKE i \in 1 .. c
  <2>1. i \in 1 .. c + 1 /\ i + 1 \in 1 .. c + 1 /\ i < i + 1
    BY <1>3
  <2> QED BY <1>3, <1>6, <2>1
<1> DEFINE PartName(i) == NameOf(text, f[i] + 1)
           Is(i, v) == /\ v \in ValuesOf[n] /\ Allowed(dialect, v, dialect.limit + 1 - n)
                       /\ \E start \in ValueStarts(Strings, text, k, f[i] + 1, f[i + 1]) :
                            Spells(text, start, f[i + 1], v)
           Item(i) == CHOOSE v : Is(i, v)
<1>8. ASSUME NEW i \in 1 .. c
      PROVE  /\ \E v : Is(i, v)
             /\ IsObject(k) => PartName(i) \in PlainStrings /\ PartName(i) \in dialect.strings
  <2> DEFINE mark == f[i]
             a == mark + 1
             b == f[i + 1]
  <2>1. mark \in 1 .. Len(text) /\ b \in 1 .. Len(text)
    BY <1>7
  <2>2. a \in Places(text) /\ b \in Places(text)
    BY <2>1, PlacesNext
  <2>3. PICK start \in ValueStarts(dialect.strings, text, k, a, b) : inner[<<start, b>>]
    BY <1>4
  <2> HIDE DEF mark, a, b
  <2>4. /\ start \in Places(text) /\ start \in ValueStarts(Strings, text, k, a, b)
        /\ IsObject(k) => \E s \in dialect.strings : NameOf(text, a) = DecodedString[s]
    <3> DEFINE few == dialect.strings
    <3>1. few \in SUBSET Strings /\ Strings \in SUBSET Strings
      BY DEF IsDialect
    <3> HIDE DEF few
    <3>2. \A s \in few : DecodedString[s] = NameOf(text, a) => s \in Strings
      BY <3>1
    <3>3. start \in ValueStarts(few, text, k, a, b)
      BY <2>3 DEF few
    <3>4. /\ start \in Places(text) /\ start \in ValueStarts(Strings, text, k, a, b)
          /\ IsObject(k) => \E s \in few : NameOf(text, a) = DecodedString[s]
      BY ONLY text \in Seq(Tokens), k \in Opening, <2>2, <3>1, <3>2, <3>3, StartsAre
    <3> QED BY <3>4 DEF few
  <2>5. PICK v : IsRead(dialect, text, n, start, b, v)
    BY <2>2, <2>3, <2>4 DEF Gives
  <2>6. \E w : Is(i, w)
    <3>1. v \in ValuesOf[n] /\ Allowed(dialect, v, dialect.limit + 1 - n) /\ Spells(text, start, b, v)
      BY <2>5 DEF IsRead
    <3>2. Is(i, v)
      BY <2>4, <3>1 DEF a, b, mark
    <3> QED BY <3>2
  <2>7. IsObject(k) => NameOf(text, a) \in PlainStrings /\ NameOf(text, a) \in dialect.strings
    BY <2>4, DialectAtoms
  <2> QED BY <2>6, <2>7 DEF a, mark
<1>9. \A i \in 1 .. c : Is(i, Item(i))
  <2> HIDE DEF Is
  <2> QED BY <1>8
<1> DEFINE V == ValuesOf[n]
           items == [i \in 1 .. c |-> Item(i)]
           marks == [i \in 1 .. c + 1 |-> f[i]]
           names == IF IsObject(k) THEN [i \in 1 .. c |-> PartName(i)] ELSE <<>>
<1>10. items \in Seq(V) /\ Len(items) = c /\ items # <<>> /\ \A i \in 1 .. c : items[i] = Item(i)
  <2>1. \A i \in 1 .. c : Item(i) \in V
    BY <1>9
  <2> HIDE DEF Item, V
  <2>2. items \in Seq(V) /\ Len(items) = c /\ \A i \in 1 .. c : items[i] = Item(i)
    BY <1>3, <2>1
  <2> QED BY <1>3, <2>2
<1>11. marks \in Seq(1 .. Len(text)) /\ Len(marks) = c + 1 /\ \A i \in 1 .. c + 1 : marks[i] = f[i]
  <2> DEFINE d == c + 1
             R == 1 .. Len(text)
             M == [i \in 1 .. d |-> f[i]]
  <2>1. d \in Nat /\ \A i \in 1 .. d : f[i] \in R
    BY <1>3, <1>6
  <2> HIDE DEF d, R
  <2>2. M \in Seq(R) /\ Len(M) = d /\ \A i \in 1 .. d : M[i] = f[i]
    BY <2>1
  <2> QED BY <2>2 DEF d, R
<1>12. /\ names \in Seq(PlainStrings) /\ NamesFit(k, names, c) /\ ToSet(names) \subseteq dialect.strings
       /\ IsObject(k) => \A i \in 1 .. c : names[i] = PartName(i)
  <2>1. CASE ~IsObject(k)
    <3>1. names = <<>> /\ k = "["
      BY <2>1 DEF IsObject, Opening
    <3>2. ToSet(<<>>) = {}
      BY DEF ToSet
    <3> QED BY <2>1, <3>1, <3>2, ShortSeqs DEF NamesFit, AreNamed, IsObject
  <2>2. CASE IsObject(k)
    <3> DEFINE N == [i \in 1 .. c |-> PartName(i)]
               P == PlainStrings \cap dialect.strings
    <3>1. names = N
      BY <2>2
    <3>2. \A i \in 1 .. c : PartName(i) \in P
      BY <1>8, <2>2
    <3>3. \A i, j \in 1 .. c : PartName(i) = PartName(j) => i = j
      BY <1>4, <2>2
    <3> HIDE DEF PartName, P, names
    <3>4. N \in Seq(P) /\ Len(N) = c /\ DOMAIN N = 1 .. c /\ \A i \in 1 .. c : N[i] = PartName(i)
      BY <1>3, <3>2
    <3> HIDE DEF N
    <3>5. IsInjective(N)
      BY <3>3, <3>4 DEF IsInjective
    <3>6. N \in Seq(PlainStrings) /\ ToSet(N) \subseteq dialect.strings
      <4>1. \A i \in 1 .. c : N[i] \in PlainStrings /\ N[i] \in dialect.strings
        BY <3>2, <3>4 DEF P
      <4>2. Seq(P) \subseteq Seq(PlainStrings)
        BY DEF P
      <4> QED BY <3>4, <4>1, <4>2 DEF ToSet
    <3>7. k # "["
      BY <2>2 DEF IsObject
    <3> QED BY <2>2, <3>1, <3>4, <3>5, <3>6, <3>7 DEF NamesFit, AreNamed
  <2> QED BY <2>1, <2>2
<1> HIDE DEF items, marks, names, PartName, Item
<1>13. Rowed(text, Spelled(text), k, names, items, marks)
  <2>1. ASSUME NEW i \in 1 .. c
        PROVE  /\ marks[i] < marks[i + 1]
               /\ i # 1 => text[marks[i]] = ","
               /\ k = "{" => names[i] = NameOf(text, marks[i] + 1)
               /\ \E start \in ValueStarts(Strings, text, k, marks[i] + 1, marks[i + 1]) :
                    <<start, marks[i + 1]>> \in Spelled(text)[items[i]]
    <3>1. i \in 1 .. c + 1 /\ i + 1 \in 1 .. c + 1
      BY <1>3
    <3>2. marks[i] = f[i] /\ marks[i + 1] = f[i + 1] /\ items[i] = Item(i)
      BY <1>10, <1>11, <3>1
    <3>3. \E start \in ValueStarts(Strings, text, k, f[i] + 1, f[i + 1]) : Spells(text, start, f[i + 1], Item(i))
      BY <1>9
    <3>4. i # 1 => IsComma(text, f[i])
      BY <1>5
    <3>5. IsObject(k) => names[i] = NameOf(text, f[i] + 1)
      BY <1>12 DEF PartName
    <3> QED BY <1>7, <3>2, <3>3, <3>4, <3>5 DEF IsComma, IsObject, Spells
  <2> HIDE DEF Is
  <2> QED BY <1>10, <1>11, <2>1 DEF Rowed
<1>14. marks[1] = first /\ marks[Len(marks)] = last
  <2>1. 1 \in 1 .. c + 1 /\ c + 1 \in 1 .. c + 1
    BY <1>3
  <2> QED BY <1>3, <1>11, <2>1
<1>15. \A i \in 1 .. c : Allowed(dialect, items[i], dialect.limit + 1 - n)
  BY <1>9, <1>10
<1>16. IsMade(dialect, text, n, k, first, last, names, items, marks)
  BY <1>10, <1>12, <1>13, <1>14, <1>15 DEF IsMade
<1> QED BY <1>16

\* An object or a list of the grammar spells a value.
LEMMA GivesNest ==
  ASSUME NEW dialect, IsDialect(dialect), NEW text \in Seq(Tokens), NEW n \in Nat, n <= dialect.limit,
         ValuesOf[n + 1] \subseteq Values, ValuesOf[n] \subseteq Values,
         NEW from \in Places(text), NEW to \in Places(text), NEW k \in Opening,
         NEW first \in 1 .. Len(text), NEW last \in 1 .. Len(text),
         IsBracketed(text, from, to, k, first, last), NEW names \in Seq(PlainStrings), NEW items \in Seq(ValuesOf[n]),
         NamesFit(k, names, Len(items)), ToSet(names) \subseteq dialect.strings,
         \A i \in 1 .. Len(items) : Allowed(dialect, items[i], dialect.limit + 1 - n),
         IF items = <<>> THEN Ink(text, first + 1, last) = {}
         ELSE \E marks : /\ Rowed(text, Spelled(text), k, names, items, marks)
                         /\ marks[1] = first /\ marks[Len(marks)] = last
  PROVE  IsRead(dialect, text, n + 1, from, to, Tree(k, names, items))
<1> DEFINE v == Tree(k, names, items)
<1>1. v \in ValuesOf[n + 1] /\ v \in Values
  BY NestIs
<1>2. v.kind = k /\ v.names = names /\ v.items = items
  BY DEF Tree
<1>3. Allowed(dialect, v, dialect.limit + 1 - (n + 1))
  <2> DEFINE depth == dialect.limit - n
  <2>1. depth \in Nat /\ depth <= dialect.limit /\ depth + 1 = dialect.limit + 1 - n
        /\ depth = dialect.limit + 1 - (n + 1)
    BY SMTT(40) DEF IsDialect
  <2> HIDE DEF depth
  <2>2. items \in Seq(Values)
    OBVIOUS
  <2>3. \A i \in 1 .. Len(items) : Allowed(dialect, items[i], depth + 1)
    BY <2>1
  <2>4. Allowed(dialect, v, depth)
    BY <1>1, <2>1, <2>2, <2>3, NestAllowed
  <2> QED BY <2>1, <2>4
<1> HIDE DEF v
<1>4. Spells(text, from, to, v)
  <2>1. v.kind \in Opening
    BY <1>2
  <2>2. \E i, j \in 1 .. Len(text) :
             /\ IsBracketed(text, from, to, v.kind, i, j)
             /\ IF v.items = <<>> THEN Ink(text, i + 1, j) = {}
                ELSE \E marks : /\ Rowed(text, Spelled(text), v.kind, v.names, v.items, marks)
                                /\ marks[1] = i /\ marks[Len(marks)] = j
    BY <1>2
  <2> QED BY <1>1, <2>1, <2>2, SpellsNest
<1> QED BY <1>1, <1>3, <1>4 DEF IsRead, v

\* A text of the grammar with one level more spells a value with one level more.
LEMMA GivesNested ==
  ASSUME NEW dialect, IsDialect(dialect), NEW text \in Seq(Tokens), NEW n \in Nat, n <= dialect.limit,
         ValuesOf[n + 1] \subseteq Values, ValuesOf[n] \subseteq Values,
         NEW inner, Gives(dialect, text, n, inner),
         NEW from \in Places(text), NEW to \in Places(text), IsNested(dialect, text, inner, from, to)
  PROVE  \E v : IsRead(dialect, text, n + 1, from, to, v)
<1>1. \/ \E i \in 1 .. Len(text) : Ink(text, from, to) = {i} /\ text[i] \in AtomsOf(dialect)
      \/ \E k \in Opening : \E first, last \in 1 .. Len(text) :
           IsBetween(dialect, text, inner, from, to, k, first, last)
  BY NestedIs
<1>2. CASE \E i \in 1 .. Len(text) : Ink(text, from, to) = {i} /\ text[i] \in AtomsOf(dialect)
  <2>1. PICK i \in 1 .. Len(text) : Ink(text, from, to) = {i} /\ text[i] \in AtomsOf(dialect)
    BY <1>2
  <2> DEFINE token == PlainToken(text[i])
             v == Leaf(token)
  <2>2. text[i] \in Atoms /\ token \in AtomsOf(dialect) /\ token \in Atoms /\ token \notin Opening
    BY <2>1, DialectAtoms, TokensAre
  <2>3. v \in ValuesOf[n + 1] /\ v \in Values
    BY <2>2, LeafIs
  <2>4. v.kind = token
    BY DEF Leaf, Tree
  <2>5. Spells(text, from, to, v)
    BY <2>1, <2>2, <2>3, <2>4, SpellsLeaf
  <2>6. dialect.limit + 1 - (n + 1) \in Nat /\ dialect.limit + 1 - (n + 1) <= dialect.limit
    BY DEF IsDialect
  <2> HIDE DEF token
  <2>7. Allowed(dialect, v, dialect.limit + 1 - (n + 1))
    BY <2>2, <2>3, <2>6, LeafAllowed
  <2>8. IsRead(dialect, text, n + 1, from, to, v)
    BY <2>3, <2>5, <2>7 DEF IsRead
  <2> QED BY <2>8
<1>3. CASE \E k \in Opening : \E first, last \in 1 .. Len(text) :
             IsBetween(dialect, text, inner, from, to, k, first, last)
  <2>1. PICK k \in Opening, first \in 1 .. Len(text), last \in 1 .. Len(text) :
          IsBetween(dialect, text, inner, from, to, k, first, last)
    BY <1>3
  <2>2. IsBracketed(text, from, to, k, first, last) /\ first < last
    BY <2>1 DEF IsBetween, IsBracketed
  <2>3. CASE Ink(text, first + 1, last) = {}
    <3> DEFINE no == <<>>
    <3>1. no \in Seq(PlainStrings) /\ no \in Seq(ValuesOf[n]) /\ Len(no) = 0 /\ ToSet(no) = {} /\ 1 .. Len(no) = {}
      BY DEF ToSet
    <3>2. NamesFit(k, no, Len(no))
      BY DEF NamesFit, AreNamed, IsInjective
    <3>3. ToSet(no) \subseteq dialect.strings /\ \A i \in 1 .. Len(no) : Allowed(dialect, no[i], dialect.limit + 1 - n)
      BY <3>1
    <3>4. IF no = <<>> THEN Ink(text, first + 1, last) = {}
         ELSE \E marks : /\ Rowed(text, Spelled(text), k, no, no, marks)
                         /\ marks[1] = first /\ marks[Len(marks)] = last
      BY <2>3
    <3> HIDE DEF no
    <3>5. IsRead(dialect, text, n + 1, from, to, Tree(k, no, no))
      BY <2>2, <3>1, <3>2, <3>3, <3>4, GivesNest
    <3> QED BY <3>5
  <2>4. CASE \E commas : RowAt(dialect, text, k, inner, first, last, commas)
    <3>1. PICK names, items, marks : IsMade(dialect, text, n, k, first, last, names, items, marks)
      BY <2>2, <2>4, GivesRow
    <3>2. /\ names \in Seq(PlainStrings) /\ items \in Seq(ValuesOf[n])
          /\ NamesFit(k, names, Len(items)) /\ ToSet(names) \subseteq dialect.strings
          /\ \A i \in 1 .. Len(items) : Allowed(dialect, items[i], dialect.limit + 1 - n)
      BY <3>1 DEF IsMade
    <3>3. IF items = <<>> THEN Ink(text, first + 1, last) = {}
          ELSE \E ms : /\ Rowed(text, Spelled(text), k, names, items, ms)
                       /\ ms[1] = first /\ ms[Len(ms)] = last
      BY <3>1 DEF IsMade
    <3>4. IsRead(dialect, text, n + 1, from, to, Tree(k, names, items))
      BY <2>2, <3>2, <3>3, GivesNest
    <3> QED BY <3>4
  <2> QED BY <2>1, <2>3, <2>4 DEF IsBetween
<1> QED BY <1>1, <1>2, <1>3

\* Every part of the grammar spells a value that may be read.
THEOREM GivesLevels ==
  ASSUME NEW dialect, IsDialect(dialect), NEW text \in Seq(Tokens)
  PROVE  \A n \in 0 .. dialect.limit + 1 : Gives(dialect, text, n, Grammar(dialect, text)[n])
<1> DEFINE G(n) == Grammar(dialect, text)[n]
           S == {n \in Nat : n <= dialect.limit + 1 => Gives(dialect, text, n, G(n))}
<1>0. dialect.limit \in Nat
  BY DEF IsDialect
<1>p. Places(text) \subseteq Nat
  BY TextIs DEF Places
<1>1. 0 \in S
  <2>1. ASSUME NEW from \in Places(text), NEW to \in Places(text) PROVE ~G(0)[<<from, to>>]
    <3>1. from \in Nat /\ to \in Nat
      BY <1>p
    <3> QED BY ONLY <3>1, GrammarIs
  <2> HIDE DEF G
  <2> QED BY <2>1 DEF Gives
<1>2. ASSUME NEW n \in Nat, n \in S PROVE n + 1 \in S
  <2> SUFFICES ASSUME n + 1 <= dialect.limit + 1, NEW from \in Places(text), NEW to \in Places(text),
                      G(n + 1)[<<from, to>>]
               PROVE  \E v : IsRead(dialect, text, n + 1, from, to, v)
    BY DEF Gives
  <2>1. n <= dialect.limit /\ n <= dialect.limit + 1 /\ n + 1 \in Nat
    BY <1>0
  <2>2. ValuesOf[n + 1] \subseteq Values /\ ValuesOf[n] \subseteq Values
    BY <2>1, ValuesOfLevels
  <2>3. Gives(dialect, text, n, G(n))
    BY <1>2, <2>1
  <2>4. from \in Nat /\ to \in Nat
    BY <1>p
  <2>5. IsNested(dialect, text, G(n), from, to)
    <3>1. Grammar(dialect, text)[n + 1][<<from, to>>]
      OBVIOUS
    <3> QED BY ONLY <2>4, <3>1, n \in Nat, GrammarIs
  <2> HIDE DEF G
  <2> QED BY <2>1, <2>2, <2>3, <2>5, GivesNested
<1>3. \A n \in Nat : n \in S
  <2> HIDE DEF S
  <2> QED BY <1>1, <1>2, Induction
<1>4. ASSUME NEW n \in 0 .. dialect.limit + 1 PROVE Gives(dialect, text, n, G(n))
  <2>1. n \in Nat /\ n <= dialect.limit + 1
    BY <1>0
  <2>2. n \in S
    BY <1>3, <2>1
  <2> QED BY <2>1, <2>2
<1> QED BY <1>4

\* Each copy of the reader reads the texts of the grammar and no others.
THEOREM ReaderIsGrammar ==
  ASSUME NEW dialect, IsDialect(dialect), NEW text \in Seq(Tokens)
  PROVE  IsText(dialect, text) <=> ParseText(dialect, text).offset # 0
<1> DEFINE n == dialect.limit + 1 - dialect.start
           G == Grammar(dialect, text)[n]
           to == Len(text) + 1
           r == ParseText(dialect, text)
<1>0. Len(text) \in Nat /\ dialect.limit \in Nat /\ dialect.start \in Nat /\ dialect.start <= dialect.limit + 1
  BY TextIs DEF IsDialect
<1>1. n \in 0 .. dialect.limit + 1 /\ n \in Nat /\ n <= dialect.limit + 1 /\ dialect.limit + 1 - n = dialect.start
      /\ 1 \in Places(text) /\ to \in Places(text)
  BY <1>0 DEF Places
<1>2. IsText(dialect, text) <=> G[<<1, to>>]
  BY GrammarIs
<1> HIDE DEF n
<1>3. Gives(dialect, text, n, G) /\ Takes(dialect, text, n, G)
  BY <1>1, GivesLevels, TakesLevels
<1>4. IsReading(dialect, text, r)
  BY ReaderIs
<1>5. ValuesOf[n] \subseteq Values
  BY <1>1, ValuesOfLevels
<1> HIDE DEF G, r, to
<1>6. ASSUME G[<<1, to>>] PROVE r.offset # 0
  <2>1. PICK v : IsRead(dialect, text, n, 1, to, v)
    BY <1>1, <1>3, <1>6 DEF Gives
  <2>2. v \in Values /\ Spells(text, 1, to, v) /\ Allowed(dialect, v, dialect.start)
    BY <1>1, <1>5, <2>1 DEF IsRead
  <2> QED BY <1>4, <2>2 DEF IsReading, to
<1>7. ASSUME r.offset # 0 PROVE G[<<1, to>>]
  <2>1. r.value \in Values /\ Spells(text, 1, to, r.value) /\ Allowed(dialect, r.value, dialect.limit + 1 - n)
    BY <1>1, <1>4, <1>7 DEF IsReading, to
  <2> QED BY <1>1, <1>3, <2>1 DEF Takes
<1> QED BY <1>2, <1>6, <1>7 DEF r

\* What is written has plain tokens, which are tokens and no white space.
LEMMA PlainTokensAre ==
  PlainTokens \subseteq Tokens /\ "\n" \notin PlainTokens /\ "\n" \in Tokens
<1>1. PlainAtoms \subseteq Atoms
  BY JSONAssumption DEF PlainAtoms, PlainToken, Atoms
<1>2. "\n" \in Whitespace
  BY DEF Whitespace
<1>3. "\n" \notin Atoms
  BY <1>2, JSONAssumption
<1>4. "\n" \notin Opening \cup {"}", "]", ":", ","}
  BY DEF Opening
<1> QED BY <1>1, <1>2, <1>3, <1>4 DEF PlainTokens, Tokens

\* What the copy of the installer accepts it has parsed.
LEMMA InstallerParses ==
  ASSUME NEW text \in Seq(Tokens), InstallerReads(text) # Failed
  PROVE  /\ InstallerReads(text) = ParseText(Installer, text)
         /\ InstallerReads(text).offset # 0
         /\ InstallerReads(text).value \in Values
         /\ Spells(text, 1, Len(text) + 1, InstallerReads(text).value)
         /\ Allowed(Installer, InstallerReads(text).value, 1)
         /\ Allowed(InstallerWrites, InstallerReads(text).value, 0)
<1> DEFINE read == ParseText(Installer, text)
<1>1. InstallerReads(text) = IF read # Failed /\ ~InstallerAllows(read.value) THEN Failed ELSE read
  BY DEF InstallerReads, Validated
<1>2. IsReading(Installer, text, read)
  BY ReaderIs, Dialects
<1>3. Installer.start = 1
  BY DEF Installer
<1> HIDE DEF read
<1>4. InstallerReads(text) = read /\ read # Failed /\ InstallerAllows(read.value)
  BY <1>1
<1> QED BY <1>2, <1>3, <1>4 DEF IsReading, InstallerAllows, read

\* What is written is spelled, from the first token to the last.
LEMMA WrittenIsSpelled ==
  ASSUME NEW v \in Values
  PROVE  /\ Encode[v] \in Seq(Tokens)
         /\ Spells(Encode[v], 1, Len(Encode[v]) + 1, v)
<1>1. Encode[v] \in Seq(Tokens)
  BY EncodeIs, PlainTokensAre
<1> DEFINE text == Encode[v]
<1> HIDE DEF text
<1>2. text \in Seq(Tokens) /\ Len(text) \in Nat
  BY <1>1 DEF text
<1>3. Writes(text, v)
  BY <1>2, EncodedIsSpelled
<1>4. 1 \in Places(text) /\ Len(text) + 1 \in Places(text) /\ 1 + Len(text) = Len(text) + 1
  BY <1>2 DEF Places
<1>5. \A i \in 1 .. Len(text) : text[1 + i - 1] = text[i]
  <2>1. \A i \in 1 .. Len(text) : 1 + i - 1 = i
    BY <1>2
  <2> QED BY <2>1
<1>6. Placed(text, 1, text)
  BY <1>4, <1>5 DEF Placed
<1> QED BY <1>2, <1>3, <1>4, <1>6 DEF Writes, text

\* A part of a signed document that the reader of documents accepts is all of the
\* document, and it is read as the value that was signed.
THEOREM EnvelopeIsWhole ==
  ASSUME NEW w \in Values, NEW text, text = Encode[w] \o <<"\n">>,
         NEW n \in 0 .. Len(text), ReadEnvelope(SubSeq(text, 1, n)) # Failed
  PROVE  SubSeq(text, 1, n) = text /\ ReadEnvelope(SubSeq(text, 1, n)).value = w
<1> DEFINE e == Encode[w]
           part == SubSeq(text, 1, n)
           read == InstallerReads(part)
           c == CanonicalJSON(read.value)
           m == Len(e)
<1>1. e \in Seq(PlainTokens) /\ e \in Seq(Tokens) /\ m \in Nat /\ \A i \in 1 .. m : e[i] \in PlainTokens
  BY EncodeIs, PlainTokensAre
<1>2. <<"\n">> \in Seq(Tokens) /\ Len(<<"\n">>) = 1 /\ <<"\n">>[1] = "\n"
  BY PlainTokensAre
<1> HIDE DEF e, m
<1>3. text = e \o <<"\n">>
  BY DEF e
<1>4. /\ text \in Seq(Tokens) /\ Len(text) = m + 1
      /\ \A i \in 1 .. m : text[i] = e[i]
      /\ text[m + 1] = "\n"
  <2>1. /\ e \o <<"\n">> \in Seq(Tokens) /\ Len(e \o <<"\n">>) = m + 1
        /\ \A i \in 1 .. m : (e \o <<"\n">>)[i] = e[i]
        /\ \A i \in 1 .. 1 : (e \o <<"\n">>)[m + i] = <<"\n">>[i]
    BY <1>1, <1>2, ConcatIs DEF m
  <2>2. 1 \in 1 .. 1
    OBVIOUS
  <2> QED BY <2>1, <2>2, <1>2, <1>3
<1>5. n \in Nat /\ n <= m + 1
  BY <1>1, <1>4
<1>6. part \in Seq(Tokens) /\ Len(part) = n /\ \A i \in 1 .. n : part[i] = text[i]
  <2>1. 1 \in 1 .. Len(text) + 1 /\ n \in 1 - 1 .. Len(text)
    BY <1>1, <1>4, <1>5
  <2>2. /\ SubSeq(text, 1, n) \in Seq(Tokens)
        /\ Len(SubSeq(text, 1, n)) = n - 1 + 1
        /\ \A i \in 1 .. n - 1 + 1 : SubSeq(text, 1, n)[i] = text[1 + i - 1]
    BY <2>1, <1>4, PartIs
  <2>3. n - 1 + 1 = n /\ \A i \in 1 .. n : 1 + i - 1 = i
    BY <1>5
  <2> QED BY <2>2, <2>3
<1>7. ReadEnvelope(part) = read /\ read # Failed /\ c \o <<"\n">> = part
  BY DEF ReadEnvelope, IfCanonical
<1> HIDE DEF part
<1>8. read.value \in Values /\ Spells(part, 1, Len(part) + 1, read.value)
  BY <1>6, <1>7, InstallerParses
<1> HIDE DEF read
<1>9. c \in Seq(PlainTokens) /\ Len(c) \in Nat
  BY <1>8, CanonicalIs, EncodeIs DEF CanonicalJSON
<1> HIDE DEF c
<1>10. n = Len(c) + 1 /\ part[n] = "\n"
  <2>1. c \in Seq(Tokens)
    BY <1>9, PlainTokensAre
  <2>2. /\ Len(c \o <<"\n">>) = Len(c) + 1
        /\ \A i \in 1 .. 1 : (c \o <<"\n">>)[Len(c) + i] = <<"\n">>[i]
    BY <2>1, <1>2, ConcatIs
  <2>3. 1 \in 1 .. 1
    OBVIOUS
  <2> QED BY <2>2, <2>3, <1>2, <1>6, <1>7
<1>11. n = m + 1
  <2>1. n \in 1 .. n
    BY <1>5, <1>9, <1>10
  <2>2. n \in 1 .. m => text[n] \in PlainTokens
    BY <1>1, <1>4
  <2>3. n \notin 1 .. m
    BY <2>1, <2>2, <1>6, <1>10, PlainTokensAre
  <2> QED BY <2>1, <2>3, <1>1, <1>5
<1>12. part = text
  BY <1>4, <1>6, <1>11, SameSeq
<1>13. Spells(text, 1, m + 1, w)
  <2>1. Writes(text, w)
    BY <1>4, EncodedIsSpelled
  <2>2. 1 \in Places(text) /\ 1 + m = m + 1 /\ m + 1 \in Places(text)
    BY <1>1, <1>4 DEF Places
  <2>3. \A i \in 1 .. m : text[1 + i - 1] = e[i]
    <3>1. \A i \in 1 .. m : 1 + i - 1 = i
      BY <1>1
    <3> QED BY <3>1, <1>4
  <2>4. Placed(text, 1, e)
    BY <2>2, <2>3 DEF Placed, m
  <2> QED BY <2>1, <2>2, <2>4 DEF Writes, e, m
<1>14. Spells(text, 1, Len(text) + 1, w)
  <2> DEFINE first == 1
             end == m + 1
             last == m + 2
  <2>1. /\ first \in Places(text) /\ end \in Places(text) /\ last \in Places(text)
        /\ first <= first /\ first <= end /\ end <= last /\ last = Len(text) + 1
    BY <1>1, <1>4 DEF Places
  <2>2. Ink(text, first, first) = {}
    BY DEF Ink
  <2>3. Ink(text, end, last) = {}
    <3>1. \A i \in end .. last - 1 : i = m + 1
      BY <1>1
    <3> QED BY <3>1, <1>4 DEF Ink, Whitespace
  <2>4. Spells(text, first, end, w)
    BY <1>13
  <2> HIDE DEF first, end, last
  <2>5. text \in Seq(Tokens)
    BY <1>4
  <2>6. Spells(text, first, last, w) <=> Spells(text, first, end, w)
    BY ONLY <2>1, <2>2, <2>3, <2>5, w \in Values, SpellsPad
  <2> QED BY <2>1, <2>4, <2>6 DEF first
<1>15. read.value = w
  BY <1>4, <1>8, <1>12, <1>14, SpelledOnce
<1> QED BY <1>7, <1>12, <1>15 DEF part

(***************************************************************************)
(* Signed documents, from the first byte to the value                      *)
(***************************************************************************)
\* What is known of a document at every step: it is not read before the download
\* has accepted it, what has come is a part of it, and what is accepted is what
\* the reader makes of that part.
DocumentInv(text, from) ==
  /\ kind = "document" /\ source = from /\ body = text
  /\ IInv /\ total <= Len(text)
  /\ verdict # "unread" => outcome = "bytes"
  /\ verdict = "accepted" =>
       ReadEnvelope(Received) # Failed /\ value = ReadEnvelope(Received).value

\* Nothing is transferred any more when a download has been accepted.
LEMMA AcceptedIsOver ==
  ASSUME IInv, outcome = "bytes", Transfer
  PROVE  FALSE
<1>1. connection = "over" /\ timer = "off"
  BY DEF IInv, TypeOK
<1> QED
  BY <1>1 DEF Transfer, OnError, OnStatus, OnResponse, OnData, OnAborted, OnEnd, OnDeadline,
              OnIdle, IgnoredEnds

\* No transfer brings more than there is, and none changes what is sent.
LEMMA NoMoreThanSent ==
  ASSUME IInv, total <= Len(body), [Transfer]_vars
  PROVE  body' = body /\ total' <= Len(body)
<1> USE DEF IInv, TypeOK, requestVars
<1>1. CASE OnData
  <2>1. Deliverable <= Len(body)
    BY DownloadAssumption DEF Deliverable
  <2>2. Deliverable \in Nat
    BY DownloadAssumption DEF Deliverable
  <2>3. total \in Nat /\ total < Deliverable /\ total' = total + 1 /\ body' = body
    BY <1>1 DEF OnData
  <2> QED BY <2>1, <2>2, <2>3
<1>2. CASE UNCHANGED vars
  BY <1>2 DEF vars
<1>3. CASE OnError \/ OnStatus \/ OnAborted \/ OnEnd \/ OnDeadline \/ OnIdle \/ IgnoredEnds
  BY <1>3 DEF OnError, OnStatus, OnAborted, OnEnd, OnDeadline, OnIdle, IgnoredEnds
<1>4. CASE OnResponse
  BY <1>4 DEF OnResponse, Refuse
<1> QED BY <1>1, <1>2, <1>3, <1>4 DEF Transfer

\* A document starts in the invariant.
LEMMA DocumentGiven ==
  ASSUME NEW S, NEW text \in Seq(S), NEW from, Given("document", text, from)
  PROVE  DocumentInv(text, from)
<1>1. Request(text)
  BY DEF Given
<1>2. IInv
  BY <1>1, Initial
<1>3. total = 0 /\ body = text /\ Len(text) \in Nat
  BY <1>1 DEF Request
<1> QED BY <1>2, <1>3 DEF Given, DocumentInv

\* Every step keeps it: the transfer, the reading and, later on, none.
LEMMA DocumentKept ==
  ASSUME NEW S, NEW text \in Seq(S), NEW from, DocumentInv(text, from), [Next]_allVars
  PROVE  DocumentInv(text, from)'
<1>1. /\ kind = "document" /\ source = from /\ body = text
      /\ IInv /\ total <= Len(text)
      /\ verdict # "unread" => outcome = "bytes"
      /\ verdict = "accepted" =>
           ReadEnvelope(Received) # Failed /\ value = ReadEnvelope(Received).value
  BY DEF DocumentInv
<1>2. CASE Transfer /\ UNCHANGED inputVars
  <2>1. IInv'
    BY <1>1, <1>2, Inductive
  <2>2. body' = body /\ total' <= Len(body)
    BY <1>1, <1>2, NoMoreThanSent
  <2>3. verdict = "unread"
    BY <1>1, <1>2, AcceptedIsOver
  <2>4. kind' = kind /\ source' = source /\ verdict' = verdict
    BY <1>2 DEF inputVars
  <2> QED BY <1>1, <2>1, <2>2, <2>3, <2>4 DEF DocumentInv
<1>3. ASSUME UNCHANGED vars PROVE IInv' /\ body' = body /\ total' = total /\ outcome' = outcome
  BY <1>1, <1>3, Inductive DEF vars, requestVars
<1>4. ASSUME UNCHANGED vars PROVE Received' = Received
  BY <1>3, <1>4 DEF Received
<1>5. CASE ReadJSON
  <2> DEFINE read == ReadEnvelope(Received)
  <2>1. /\ outcome = "bytes"
        /\ IF read = Failed THEN RefuseInput ELSE Accept(read.value)
        /\ UNCHANGED vars /\ kind' = kind /\ source' = source
    BY <1>1, <1>5 DEF ReadJSON, Unread
  <2> HIDE DEF read
  <2>2. verdict' = "accepted" => read # Failed /\ value' = read.value
    BY <2>1 DEF Accept, RefuseInput
  <2>3. Received' = Received /\ IInv' /\ body' = body /\ total' = total /\ outcome' = outcome
    BY <1>3, <1>4, <2>1
  <2> QED BY <1>1, <2>1, <2>2, <2>3 DEF DocumentInv, read
<1>6. CASE UNCHANGED allVars
  <2>1. UNCHANGED vars /\ UNCHANGED inputVars
    BY <1>6 DEF allVars
  <2>2. Received' = Received /\ IInv' /\ body' = body /\ total' = total /\ outcome' = outcome
    BY <1>3, <1>4, <2>1
  <2> QED BY <1>1, <2>1, <2>2 DEF DocumentInv, inputVars
<1>7. ~FileStep
  BY <1>1 DEF FileStep, ReadFile, Import, VerifyPackage
<1> QED BY <1>2, <1>5, <1>6, <1>7 DEF Next

\* Every accepted document is whole: wherever the peer or the connection ends the
\* body of a signed document, of any size and within any limits, what the updater
\* accepts is all of it and the value that was signed.
THEOREM DocumentsAreWhole ==
  ASSUME NEW w \in Values, NEW from, w \in from
  PROVE  Taking("document", Encode[w] \o <<"\n">>, from) => []AcceptedDocumentIsWhole
<1> DEFINE text == Encode[w] \o <<"\n">>
<1>1. text \in Seq(Tokens)
  BY WrittenIsSpelled, PlainTokensAre
<1>2. DocumentInv(text, from) => AcceptedDocumentIsWhole
  <2> SUFFICES ASSUME DocumentInv(text, from), verdict = "accepted"
               PROVE  Received = body /\ value \in source
    BY DEF AcceptedDocumentIsWhole
  <2> HIDE DEF text
  <2>1. /\ body = text /\ source = from /\ total \in Nat /\ total <= Len(text)
        /\ ReadEnvelope(SubSeq(text, 1, total)) # Failed
        /\ Received = SubSeq(text, 1, total)
        /\ value = ReadEnvelope(SubSeq(text, 1, total)).value
    BY DEF DocumentInv, IInv, TypeOK, Received
  <2>2. total \in 0 .. Len(text)
    BY <2>1, <1>1
  <2>3. text = Encode[w] \o <<"\n">>
    BY DEF text
  <2>4. SubSeq(text, 1, total) = text /\ ReadEnvelope(SubSeq(text, 1, total)).value = w
    BY <2>1, <2>2, <2>3, EnvelopeIsWhole
  <2> QED BY <2>1, <2>4
<1> HIDE DEF text
<1>3. Given("document", text, from) => DocumentInv(text, from)
  BY <1>1, DocumentGiven
<1>4. DocumentInv(text, from) /\ [Next]_allVars => DocumentInv(text, from)'
  BY <1>1, DocumentKept
<1>5. Taking("document", text, from) => []AcceptedDocumentIsWhole
  BY <1>2, <1>3, <1>4, PTL DEF Taking
<1> QED BY <1>5 DEF text

(***************************************************************************)
(* JSON that the CLI, the helper or a file holds                           *)
(***************************************************************************)
\* The reader of each side, and the grammar it is compared with.
ReadBy(what, text) ==
  CASE what = "sdk" -> SDKReads(text)
    [] what = "verifier" -> VerifierReads(text)
    [] what = "installer" -> InstallerReads(text)
DialectBy(what) ==
  CASE what = "sdk" -> SDK
    [] what = "verifier" -> Verifier
    [] what = "installer" -> InstallerWrites

\* The dialects of the installer and of the SDK.
LEMMA InstallerDialects ==
  /\ Installer.limit = InstallerDepth /\ InstallerWrites.limit = InstallerDepth
  /\ Installer.start = 1 /\ InstallerWrites.start = 1
  /\ SDK.limit = SDKDepth /\ SDK.start = 0
  /\ InstallerDepth \in Nat /\ SDKDepth \in Nat /\ InstallerDepth <= SDKDepth
  /\ InstallerWrites.strings \subseteq Installer.strings
  /\ AtomsOf(InstallerWrites) \subseteq AtomsOf(Installer)
  /\ InstallerWrites.strings \subseteq SDK.strings
  /\ AtomsOf(InstallerWrites) \subseteq AtomsOf(SDK)
BY JSONAssumption DEF Installer, InstallerWrites, SDK, AtomsOf, Numbers

\* What the installer may write and its reader takes, its reader would take with
\* the strings that may be written only; and the other way round.  The SDK takes
\* it too.
LEMMA InstallerAgrees ==
  ASSUME NEW v \in Values
  PROVE  /\ Allowed(Installer, v, 1) /\ Allowed(InstallerWrites, v, 0) =>
              Allowed(InstallerWrites, v, 1) /\ Allowed(SDK, v, 0)
         /\ Allowed(InstallerWrites, v, 1) =>
              Allowed(Installer, v, 1) /\ Allowed(InstallerWrites, v, 0)
<1> DEFINE a == Installer
           b == InstallerWrites
           c == SDK
<1>1. /\ a.limit \in Nat /\ b.limit \in Nat /\ c.limit \in Nat
      /\ 1 + a.limit <= 1 + b.limit /\ 0 + a.limit <= 1 + c.limit
      /\ 1 + b.limit <= 1 + a.limit /\ 0 + b.limit <= 1 + b.limit
  BY InstallerDialects
<1>2. /\ b.strings \subseteq a.strings /\ AtomsOf(b) \subseteq AtomsOf(a)
      /\ b.strings \subseteq c.strings /\ AtomsOf(b) \subseteq AtomsOf(c)
  BY InstallerDialects
<1> HIDE DEF a, b, c
<1>3. 0 \in Nat /\ 1 \in Nat
  OBVIOUS
<1>4. \A d, e, f \in Nat :
        f + a.limit <= d + b.limit /\ Allowed(a, v, d) /\ Allowed(b, v, e) => Allowed(b, v, f)
  <2>1. AtomsOf(a) \cap AtomsOf(b) \subseteq AtomsOf(b) /\ a.strings \cap b.strings \subseteq b.strings
    OBVIOUS
  <2> QED BY ONLY <2>1, <1>1, v \in Values, AllowedBoth
<1>5. \A d, e, f \in Nat :
        f + a.limit <= d + c.limit /\ Allowed(a, v, d) /\ Allowed(b, v, e) => Allowed(c, v, f)
  <2>1. AtomsOf(a) \cap AtomsOf(b) \subseteq AtomsOf(c) /\ a.strings \cap b.strings \subseteq c.strings
    BY <1>2
  <2> QED BY ONLY <2>1, <1>1, v \in Values, AllowedBoth
<1>6. \A d, e, f \in Nat :
        f + b.limit <= d + a.limit /\ Allowed(b, v, d) /\ Allowed(b, v, e) => Allowed(a, v, f)
  <2>1. AtomsOf(b) \cap AtomsOf(b) \subseteq AtomsOf(a) /\ b.strings \cap b.strings \subseteq a.strings
    BY <1>2
  <2> QED BY ONLY <2>1, <1>1, v \in Values, AllowedBoth
<1>7. \A d, e, f \in Nat :
        f + b.limit <= d + b.limit /\ Allowed(b, v, d) /\ Allowed(b, v, e) => Allowed(b, v, f)
  <2>1. AtomsOf(b) \cap AtomsOf(b) \subseteq AtomsOf(b) /\ b.strings \cap b.strings \subseteq b.strings
    OBVIOUS
  <2> QED BY ONLY <2>1, <1>1, v \in Values, AllowedBoth
<1>8. Allowed(a, v, 1) /\ Allowed(b, v, 0) => Allowed(b, v, 1)
  BY ONLY <1>1, <1>3, <1>4
<1>9. Allowed(a, v, 1) /\ Allowed(b, v, 0) => Allowed(c, v, 0)
  BY ONLY <1>1, <1>3, <1>5
<1>10. Allowed(b, v, 1) => Allowed(a, v, 1)
  BY ONLY <1>1, <1>3, <1>6
<1>11. Allowed(b, v, 1) => Allowed(b, v, 0)
  BY ONLY <1>1, <1>3, <1>7
<1> QED BY <1>8, <1>9, <1>10, <1>11 DEF a, b, c

\* The installer's copy, with the second look at the value, reads what the parser
\* of one dialect would.
LEMMA InstallerReadsDialect ==
  ASSUME NEW text \in Seq(Tokens)
  PROVE  InstallerReads(text) # Failed <=> ParseText(InstallerWrites, text).offset # 0
<1> DEFINE read == ParseText(Installer, text)
           wide == ParseText(InstallerWrites, text)
<1>1. IsReading(Installer, text, read) /\ IsReading(InstallerWrites, text, wide)
  BY ReaderIs, Dialects
<1>2. Installer.start = 1 /\ InstallerWrites.start = 1 /\ Failed.offset = 0
  BY InstallerDialects DEF Failed
<1>3. InstallerReads(text) = IF read # Failed /\ ~Allowed(InstallerWrites, read.value, 0) THEN Failed ELSE read
  BY DEF InstallerReads, Validated, InstallerAllows
<1> HIDE DEF read, wide
<1>4. ASSUME InstallerReads(text) # Failed PROVE wide.offset # 0
  <2>1. /\ InstallerReads(text).value \in Values
        /\ Spells(text, 1, Len(text) + 1, InstallerReads(text).value)
        /\ Allowed(Installer, InstallerReads(text).value, 1)
        /\ Allowed(InstallerWrites, InstallerReads(text).value, 0)
    BY <1>4, InstallerParses
  <2>2. Allowed(InstallerWrites, InstallerReads(text).value, 1)
    BY <2>1, InstallerAgrees
  <2> QED BY <2>1, <2>2, <1>1, <1>2 DEF IsReading
<1>5. ASSUME wide.offset # 0 PROVE InstallerReads(text) # Failed
  <2>1. /\ wide.value \in Values /\ Spells(text, 1, Len(text) + 1, wide.value)
        /\ Allowed(InstallerWrites, wide.value, 1)
    BY <1>1, <1>2, <1>5 DEF IsReading
  <2>2. Allowed(Installer, wide.value, 1) /\ Allowed(InstallerWrites, wide.value, 0)
    BY <2>1, InstallerAgrees
  <2>3. read.offset # 0 /\ read.value = wide.value
    BY <2>1, <2>2, <1>1, <1>2 DEF IsReading
  <2>4. read # Failed
    BY <2>3, <1>2
  <2> QED BY <2>2, <2>3, <2>4, <1>3
<1> QED BY <1>4, <1>5 DEF wide

\* Each copy accepts exactly the texts of its grammar, as the value that the
\* grammar says.
LEMMA ReadByGrammar ==
  ASSUME NEW what \in Readers, NEW text \in Seq(Tokens)
  PROVE  /\ ReadBy(what, text) # Failed <=> IsText(DialectBy(what), text)
         /\ ReadBy(what, text) # Failed => Encode[ReadBy(what, text).value] = Said(text)
<1>1. Failed.offset = 0
  BY DEF Failed
<1>2. ASSUME NEW dialect, IsDialect(dialect)
      PROVE  /\ ParseText(dialect, text) # Failed <=> IsText(dialect, text)
             /\ ParseText(dialect, text) # Failed => Encode[ParseText(dialect, text).value] = Said(text)
  <2>1. IsReading(dialect, text, ParseText(dialect, text))
    BY <1>2, ReaderIs
  <2>2. IsText(dialect, text) <=> ParseText(dialect, text).offset # 0
    BY <1>2, ReaderIsGrammar
  <2>3. ParseText(dialect, text) # Failed <=> ParseText(dialect, text).offset # 0
    BY <2>1, <1>1 DEF IsReading
  <2>4. ASSUME ParseText(dialect, text).offset # 0
        PROVE  Encode[ParseText(dialect, text).value] = Said(text)
    <3>1. /\ ParseText(dialect, text).value \in Values
          /\ Spells(text, 1, Len(text) + 1, ParseText(dialect, text).value)
      BY <2>1, <2>4 DEF IsReading
    <3> QED BY <3>1, SpelledIsSaid
  <2> QED BY <2>2, <2>3, <2>4
<1>3. CASE what = "sdk"
  <2>1. ReadBy(what, text) = ParseText(SDK, text) /\ DialectBy(what) = SDK
    BY <1>3 DEF ReadBy, DialectBy, SDKReads
  <2> QED BY <2>1, <1>2, Dialects
<1>4. CASE what = "verifier"
  <2>1. ReadBy(what, text) = ParseText(Verifier, text) /\ DialectBy(what) = Verifier
    BY <1>4 DEF ReadBy, DialectBy, VerifierReads
  <2> QED BY <2>1, <1>2, Dialects
<1>5. CASE what = "installer"
  <2>1. ReadBy(what, text) = InstallerReads(text) /\ DialectBy(what) = InstallerWrites
    BY <1>5 DEF ReadBy, DialectBy
  <2>2. IsText(InstallerWrites, text) <=> ParseText(InstallerWrites, text).offset # 0
    BY ReaderIsGrammar, Dialects
  <2>3. InstallerReads(text) # Failed <=> ParseText(InstallerWrites, text).offset # 0
    BY InstallerReadsDialect
  <2>4. ASSUME InstallerReads(text) # Failed
        PROVE  Encode[InstallerReads(text).value] = Said(text)
    <3>1. /\ InstallerReads(text).value \in Values
          /\ Spells(text, 1, Len(text) + 1, InstallerReads(text).value)
      BY <2>4, InstallerParses
    <3> QED BY <3>1, SpelledIsSaid
  <2> QED BY <2>1, <2>2, <2>3, <2>4
<1> QED BY <1>3, <1>4, <1>5 DEF Readers

\* What the SDK may write its reader takes, and nothing else: at the limit of
\* the depth too.
THEOREM SDKReadsWhatItWrites ==
  ASSUME NEW v \in Values
  PROVE  /\ SDKAllows(v) <=> SDKReads(Encode[v]) # Failed
         /\ SDKAllows(v) => SDKReads(Encode[v]).value = v
<1> DEFINE text == Encode[v]
           read == ParseText(SDK, text)
<1>1. text \in Seq(Tokens) /\ Spells(text, 1, Len(text) + 1, v)
  BY WrittenIsSpelled
<1> HIDE DEF text
<1>2. IsReading(SDK, text, read)
  BY <1>1, ReaderIs, Dialects
<1>3. SDK.start = 0 /\ Failed.offset = 0
  BY InstallerDialects DEF Failed
<1>4. SDKAllows(v) <=> Allowed(SDK, v, 0)
  BY DEF SDKAllows
<1>5. SDKReads(Encode[v]) = read
  BY DEF SDKReads, text
<1> HIDE DEF read
<1>6. ASSUME Allowed(SDK, v, 0) PROVE read # Failed /\ read.value = v
  <2>1. read.offset # 0 /\ read.value = v
    BY <1>1, <1>2, <1>3, <1>6 DEF IsReading
  <2> QED BY <2>1, <1>3
<1>7. ASSUME read # Failed PROVE Allowed(SDK, v, 0)
  <2>1. /\ read.value \in Values /\ Spells(text, 1, Len(text) + 1, read.value)
        /\ Allowed(SDK, read.value, 0)
    BY <1>2, <1>3, <1>7 DEF IsReading
  <2>2. read.value = v
    BY <1>1, <2>1, SpelledOnce
  <2> QED BY <2>1, <2>2
<1> QED BY <1>4, <1>5, <1>6, <1>7

\* What the installer reads, it may write again as a canonical document and read
\* once more; the SDK reads the same value from it.
THEOREM InstallerRereads ==
  ASSUME NEW text \in Seq(Tokens), InstallerReads(text) # Failed
  PROVE  /\ InstallerReads(CanonicalJSON(InstallerReads(text).value)) # Failed
         /\ SDKReads(text).value = InstallerReads(text).value
<1> DEFINE v == InstallerReads(text).value
           w == CanonicalValue[v]
           again == CanonicalJSON(v)
<1>1. /\ v \in Values /\ Spells(text, 1, Len(text) + 1, v)
      /\ Allowed(Installer, v, 1) /\ Allowed(InstallerWrites, v, 0)
  BY InstallerParses
<1> HIDE DEF v
<1>2. Allowed(InstallerWrites, v, 1) /\ Allowed(SDK, v, 0)
  BY <1>1, InstallerAgrees
<1>3. Failed.offset = 0 /\ InstallerWrites.start = 1 /\ SDK.start = 0
  BY InstallerDialects DEF Failed
<1>4. SDKReads(text).value = v
  BY <1>1, <1>2, <1>3, ReaderIs, Dialects DEF SDKReads, IsReading
<1>5. w \in Values
  BY <1>1, CanonicalIs
<1>6. Allowed(InstallerWrites, w, 1)
  <2>1. 1 \in Nat
    OBVIOUS
  <2> QED BY <2>1, <1>1, <1>2, CanonicalAllowed
<1> HIDE DEF w
<1>7. again = Encode[w]
  BY DEF CanonicalJSON, w
<1>8. again \in Seq(Tokens) /\ Spells(again, 1, Len(again) + 1, w)
  BY <1>5, <1>7, WrittenIsSpelled
<1> HIDE DEF again
<1>9. ParseText(InstallerWrites, again).offset # 0
  BY <1>3, <1>5, <1>6, <1>8, ReaderIs, Dialects DEF IsReading
<1>10. InstallerReads(again) # Failed
  BY <1>8, <1>9, InstallerReadsDialect
<1> QED BY <1>4, <1>10 DEF v, again

\* What is known of JSON at every step: it is no download, nothing is read before
\* all of it is there, and the verdict is that of the reader.
JSONInv(what, text, from) ==
  /\ kind = what /\ source = from /\ body = text
  /\ connection = "over" /\ timer = "off"
  /\ outcome = "bytes" => total = Len(text)
  /\ verdict # "unread" => outcome = "bytes"
  /\ verdict # "unread" =>
       IF ReadBy(what, text) = Failed THEN verdict = "refused"
       ELSE verdict = "accepted" /\ value = ReadBy(what, text).value

\* Every step keeps it.
LEMMA JSONKept ==
  ASSUME NEW what \in Readers, NEW S, NEW text \in Seq(S), NEW from,
         JSONInv(what, text, from), [Next]_allVars
  PROVE  JSONInv(what, text, from)'
<1> USE DEF JSONInv
<1>0. what # "document" /\ what # "import" /\ what # "package"
  BY DEF Readers
<1>1. ~Transfer
  BY DEF Transfer, OnError, OnStatus, OnResponse, OnData, OnAborted, OnEnd, OnDeadline,
         OnIdle, IgnoredEnds
<1>2. CASE ReadFile
  <2>1. verdict = "unread"
    BY <1>2 DEF ReadFile
  <2> QED BY <1>2, <2>1 DEF ReadFile, requestVars, inputVars
<1>3. CASE ReadJSON
  <2> DEFINE read == ReadBy(what, text)
  <2>1. outcome = "bytes" /\ UNCHANGED <<vars, kind, source>>
    BY <1>3 DEF ReadJSON, Unread
  <2>2. Received = text
    <3>1. Received = SubSeq(text, 1, Len(text))
      BY <2>1 DEF Received
    <3>2. SubSeq(text, 1, Len(text)) = text
      OBVIOUS
    <3> QED BY <3>1, <3>2
  <2>3. IF read = Failed THEN RefuseInput ELSE Accept(read.value)
    BY <1>0, <1>3, <2>2 DEF ReadJSON, ReadBy, Readers
  <2> HIDE DEF read
  <2>4. IF read = Failed THEN verdict' = "refused" ELSE verdict' = "accepted" /\ value' = read.value
    BY <2>3 DEF Accept, RefuseInput
  <2> QED BY <2>1, <2>4 DEF vars, requestVars, read
<1>4. CASE UNCHANGED allVars
  BY <1>4 DEF allVars, vars, requestVars, inputVars
<1>5. ~Import /\ ~VerifyPackage
  BY <1>0 DEF Import, VerifyPackage
<1> QED BY <1>1, <1>2, <1>3, <1>4, <1>5 DEF Next, FileStep

\* Every copy of the reader follows the grammar, for texts of any length and any
\* depth: it accepts those within its limits, and what the writers of the same
\* side may write is what it takes.
THEOREM TextsFollowGrammar ==
  ASSUME NEW what \in Readers, NEW text \in Seq(Tokens), NEW from,
         \A w \in from : w \in Values /\ Encode[w] = text
  PROVE  Taking(what, text, from) => []ReadersFollowGrammar
<1>1. JSONInv(what, text, from) => ReadersFollowGrammar
  <2> SUFFICES ASSUME JSONInv(what, text, from), verdict # "unread"
               PROVE  FollowsGrammar /\ AgreesWithWriters
    BY DEF ReadersFollowGrammar
  <2> DEFINE read == ReadBy(what, text)
  <2>1. /\ kind = what /\ source = from /\ body = text
        /\ verdict = "accepted" <=> read # Failed
        /\ verdict = "accepted" => value = read.value
    BY DEF JSONInv
  <2>2. Dialect = DialectBy(what)
    BY <2>1 DEF Dialect, DialectBy
  <2>3. /\ read # Failed <=> IsText(DialectBy(what), text)
        /\ read # Failed => Encode[read.value] = Said(text)
    BY ReadByGrammar
  <2> HIDE DEF read
  <2>4. FollowsGrammar
    BY <2>1, <2>2, <2>3 DEF FollowsGrammar
  <2>5. ASSUME what = "sdk", NEW w \in from PROVE SDKAllows(w) <=> verdict = "accepted"
    <3>1. read = SDKReads(text)
      BY <2>5 DEF read, ReadBy
    <3>2. SDKAllows(w) <=> SDKReads(Encode[w]) # Failed
      BY SDKReadsWhatItWrites
    <3> QED BY <2>1, <3>1, <3>2
  <2>6. ASSUME what = "installer", verdict = "accepted"
        PROVE  InstallerReads(CanonicalJSON(value)) # Failed /\ SDKReads(body).value = value
    <3>1. read = InstallerReads(text)
      BY <2>6 DEF read, ReadBy
    <3> QED BY <2>1, <2>6, <3>1, InstallerRereads
  <2> QED BY <2>1, <2>4, <2>5, <2>6 DEF AgreesWithWriters
<1>2. Given(what, text, from) => JSONInv(what, text, from)
  BY DEF Given, JSONInv, Readers
<1>3. JSONInv(what, text, from) /\ [Next]_allVars => JSONInv(what, text, from)'
  BY JSONKept
<1> QED BY <1>1, <1>2, <1>3, PTL DEF Taking

=============================================================================
