---------------------------- MODULE DotEnvProofs ----------------------------
(***************************************************************************)
(* What parseImport reads, for texts and values of any length over any     *)
(* characters: the two passes over a quoted value agree, a line that is    *)
(* appended changes nothing before it, and what is exported is read as     *)
(* what it was.                                                            *)
(***************************************************************************)
EXTENDS DotEnv, Integers, FiniteSetTheorems, WellFoundedInduction, SequenceTheorems, TLAPS

(***************************************************************************)
(* Loops: induction over the natural numbers, stated for a set instead of  *)
(* a predicate, and the states of a loop whose round takes every state to  *)
(* a state                                                                 *)
(***************************************************************************)
\* A set of numbers has a least one.
LEMMA Least ==
  ASSUME NEW S \in SUBSET Nat, S # {}
  PROVE  \E n \in S : \A m \in S : n <= m
<1> DEFINE Below(n) == 1 .. n
           Family == {Below(n) : n \in S}
<1>1. \A n \in Nat : Below(n) \in FiniteSubsetsOf(Nat)
  BY FS_Interval DEF FiniteSubsetsOf
<1>2. Family \subseteq FiniteSubsetsOf(Nat) /\ Family # {}
  BY <1>1
<1>3. PICK x \in Family : \A y \in Family : ~(<<y, x>> \in StrictSubsetOrdering(Nat))
  <2> HIDE DEF Family
  <2> QED BY <1>2, FS_StrictSubsetOrderingWellFounded, WFMin
<1>4. PICK n \in S : x = Below(n)
  BY <1>3
<1>5. ASSUME NEW m \in S, m < n PROVE FALSE
  <2>1. <<Below(m), Below(n)>> \in StrictSubsetOrdering(Nat)
    BY <1>5 DEF StrictSubsetOrdering
  <2> QED BY <2>1, <1>3, <1>4
<1> QED BY <1>5

\* What holds of 0, and of n + 1 when it holds of n, holds of every number.
LEMMA Induction ==
  ASSUME NEW S, 0 \in S, \A n \in Nat : n \in S => n + 1 \in S
  PROVE  \A n \in Nat : n \in S
<1> SUFFICES ASSUME Nat \ S # {} PROVE FALSE
  OBVIOUS
<1>1. PICK n \in Nat \ S : \A m \in Nat \ S : n <= m
  BY Least
<1>2. n # 0 /\ n - 1 \in Nat
  BY <1>1
<1>3. n - 1 \in S
  BY <1>1, <1>2
<1> QED BY <1>1, <1>2, <1>3

\* The states of a loop after 0, 1, 2 ... rounds.
IsLoop(f, start, step) == f[0] = start /\ \A n \in Nat : f[n + 1] = step[f[n]]

\* There are such states.
LEMMA LoopExists ==
  ASSUME NEW T, NEW start \in T, NEW step \in [T -> T]
  PROVE  \E f \in [Nat -> T] : IsLoop(f, start, step)
<1> DEFINE Runs(n) == {g \in [0 .. n -> T] :
                         g[0] = start /\ \A i \in 0 .. n - 1 : g[i + 1] = step[g[i]]}
           Reached == {n \in Nat : Runs(n) # {}}
           Same == {n \in Nat : \A m, k \in Nat :
                      n <= m /\ n <= k => \A g \in Runs(m), h \in Runs(k) : g[n] = h[n]}
<1>1. \A n \in Nat : Runs(n) # {}
  <2>1. 0 \in Reached
    <3>1. [i \in 0 .. 0 |-> start] \in Runs(0)
      OBVIOUS
    <3> QED BY <3>1
  <2>2. ASSUME NEW n \in Nat, n \in Reached PROVE n + 1 \in Reached
    <3>1. PICK g : g \in Runs(n)
      BY <2>2
    <3> DEFINE h == [i \in 0 .. n + 1 |-> IF i <= n THEN g[i] ELSE step[g[n]]]
    <3>2. h \in [0 .. n + 1 -> T]
      BY <3>1
    <3>3. h[0] = start
      BY <3>1
    <3>4. ASSUME NEW i \in 0 .. n PROVE h[i + 1] = step[h[i]]
      <4>1. CASE i = n
        BY <4>1
      <4>2. CASE i < n
        BY <4>2, <3>1
      <4> QED BY <4>1, <4>2
    <3>5. h \in Runs(n + 1)
      <4> HIDE DEF h
      <4> QED BY <3>2, <3>3, <3>4
    <3> QED BY <3>5
  <2> HIDE DEF Reached
  <2>3. \A n \in Nat : n \in Reached
    BY <2>1, <2>2, Induction
  <2> QED BY <2>3 DEF Reached
<1>2. \A n \in Nat : n \in Same
  <2>1. 0 \in Same
    OBVIOUS
  <2>2. ASSUME NEW n \in Nat, n \in Same PROVE n + 1 \in Same
    <3>1. ASSUME NEW m \in Nat, NEW k \in Nat, n + 1 <= m, n + 1 <= k,
                 NEW g \in Runs(m), NEW h \in Runs(k)
          PROVE  g[n + 1] = h[n + 1]
      <4>1. g[n] = h[n]
        <5>1. n <= m /\ n <= k
          BY <3>1
        <5> HIDE DEF Runs
        <5> QED BY <5>1, <2>2
      <4>2. n \in 0 .. m - 1 /\ n \in 0 .. k - 1
        BY <3>1
      <4>3. g[n + 1] = step[g[n]] /\ h[n + 1] = step[h[n]]
        BY <4>2
      <4> QED BY <4>1, <4>3
    <3> HIDE DEF Runs
    <3> QED BY <3>1
  <2> HIDE DEF Same
  <2> QED BY <2>1, <2>2, Induction
<1> DEFINE Rounds(n) == CHOOSE g : g \in Runs(n)
           f == [n \in Nat |-> Rounds(n)[n]]
<1>3. ASSUME NEW n \in Nat PROVE Rounds(n) \in Runs(n)
  <2> HIDE DEF Runs
  <2> QED BY <1>1
<1>4. ASSUME NEW m \in Nat, NEW n \in Nat, n <= m PROVE Rounds(m)[n] = f[n]
  <2>1. Rounds(m) \in Runs(m) /\ Rounds(n) \in Runs(n)
    BY <1>3
  <2>2. n \in Same
    BY <1>2
  <2>3. \A g \in Runs(m), h \in Runs(n) : g[n] = h[n]
    <3> HIDE DEF Runs
    <3> QED BY <2>2, <1>4
  <2> HIDE DEF Rounds, Runs
  <2> QED BY <2>1, <2>3
<1>5. f \in [Nat -> T]
  <2>1. ASSUME NEW n \in Nat PROVE Rounds(n)[n] \in T
    <3> HIDE DEF Rounds
    <3>1. Rounds(n) \in [0 .. n -> T]
      BY <1>3
    <3> QED BY <3>1
  <2> HIDE DEF Rounds
  <2> QED BY <2>1
<1>6. f[0] = start
  <2> HIDE DEF Rounds
  <2>1. Rounds(0) \in Runs(0)
    BY <1>3
  <2> QED BY <2>1
<1>7. ASSUME NEW n \in Nat PROVE f[n + 1] = step[f[n]]
  <2>1. Rounds(n + 1)[n] = f[n] /\ Rounds(n + 1)[n + 1] = f[n + 1]
    <3> HIDE DEF Rounds, f
    <3> QED BY <1>4
  <2>2. Rounds(n + 1)[n + 1] = step[Rounds(n + 1)[n]]
    <3> HIDE DEF Rounds
    <3>1. Rounds(n + 1) \in Runs(n + 1)
      BY <1>3
    <3> QED BY <3>1
  <2> HIDE DEF Rounds, f
  <2> QED BY <2>1, <2>2
<1> HIDE DEF f
<1> QED BY <1>5, <1>6, <1>7 DEF IsLoop

\* They are those of a recursive function ...
IsRecursion(f, start, step) == \A n \in Nat : f[n] = IF n = 0 THEN start ELSE step[f[n - 1]]

\* A loop has its states also as a recursion that looks one round back, the
\* form in which the modules write their loops.
LEMMA LoopRecursion ==
  ASSUME NEW T, NEW start \in T, NEW step \in [T -> T]
  PROVE  \E f \in [Nat -> T] : IsRecursion(f, start, step)
<1>1. PICK f \in [Nat -> T] : IsLoop(f, start, step)
  BY LoopExists
<1>2. ASSUME NEW n \in Nat PROVE f[n] = IF n = 0 THEN start ELSE step[f[n - 1]]
  <2>1. CASE n = 0
    BY <2>1, <1>1 DEF IsLoop
  <2>2. CASE n # 0
    <3>1. n - 1 \in Nat /\ (n - 1) + 1 = n
      BY <2>2
    <3> QED BY <3>1, <1>1, <2>2 DEF IsLoop
  <2> QED BY <2>1, <2>2
<1> QED BY <1>2 DEF IsRecursion

\* ... and of every such function, which is total.
Follows(f, start, step, T) ==
  /\ f = [n \in Nat |-> f[n]]
  /\ f[0] = start
  /\ \A n \in Nat : f[n] \in T => f[n + 1] = step[f[n]]

\* A recursion over a step that keeps a set runs through that set.
LEMMA LoopType ==
  ASSUME NEW T, NEW start \in T, NEW step \in [T -> T], NEW f, Follows(f, start, step, T)
  PROVE  f \in [Nat -> T] /\ IsLoop(f, start, step)
<1> DEFINE S == {n \in Nat : f[n] \in T}
<1>1. 0 \in S /\ \A n \in Nat : n \in S => n + 1 \in S
  BY DEF Follows
<1>2. \A n \in Nat : n \in S
  <2> HIDE DEF S
  <2> QED BY <1>1, Induction
<1> QED BY <1>2 DEF IsLoop, Follows

\* A loop that has come to an end stays there.
LEMMA LoopStays ==
  ASSUME NEW f, NEW n \in Nat, \A k \in Nat : f[k] = f[n] => f[k + 1] = f[n],
         NEW m \in Nat, n <= m
  PROVE  f[m] = f[n]
<1> DEFINE S == {k \in Nat : f[n + k] = f[n]}
<1>1. 0 \in S
  OBVIOUS
<1>2. ASSUME NEW k \in Nat, k \in S PROVE k + 1 \in S
  <2>1. n + k \in Nat /\ (n + k) + 1 = n + (k + 1)
    OBVIOUS
  <2>2. f[(n + k) + 1] = f[n]
    BY <2>1, <1>2
  <2> QED BY <2>1, <2>2
<1>3. \A k \in Nat : k \in S
  <2> HIDE DEF S
  <2> QED BY <1>1, <1>2, Induction
<1>4. m - n \in Nat /\ n + (m - n) = m
  OBVIOUS
<1> QED BY <1>3, <1>4

(***************************************************************************)
(* Places: what Min and Max of a part of a text are                        *)
(***************************************************************************)
LEMMA MinIsLeast ==
  ASSUME NEW S \in SUBSET Nat, S # {}
  PROVE  Min(S) \in S /\ \A m \in S : Min(S) <= m
BY Least DEF Min

\* A bounded set of numbers has a greatest element.
LEMMA MaxIsGreatest ==
  ASSUME NEW S \in SUBSET Nat, S # {}, NEW b \in Nat, \A m \in S : m <= b
  PROVE  Max(S) \in S /\ \A m \in S : m <= Max(S)
<1> DEFINE R == {b - m : m \in S}
<1>1. R \in SUBSET Nat /\ R # {}
  <2>1. \A m \in S : b - m \in Nat
    OBVIOUS
  <2> QED BY <2>1
<1>2. PICK r \in R : \A q \in R : r <= q
  <2> HIDE DEF R
  <2> QED BY <1>1, Least
<1>3. PICK x \in S : r = b - x
  BY <1>2
<1>4. ASSUME NEW m \in S PROVE x >= m
  <2>1. r <= b - m
    BY <1>2
  <2> QED BY <2>1, <1>3
<1> QED BY <1>4 DEF Max

\* The first place of a part at which something is, or its end.
LEMMA FirstPlace ==
  ASSUME NEW first \in Nat, NEW end \in Nat, first <= end, NEW S \in SUBSET (first .. end - 1)
  PROVE  /\ Min(S \cup {end}) \in first .. end
         /\ \A i \in S : Min(S \cup {end}) <= i
         /\ Min(S \cup {end}) < end => Min(S \cup {end}) \in S
<1>1. S \cup {end} \in SUBSET Nat /\ S \cup {end} # {}
  OBVIOUS
<1>2. Min(S \cup {end}) \in S \cup {end} /\ \A m \in S \cup {end} : Min(S \cup {end}) <= m
  BY <1>1, MinIsLeast
<1> DEFINE m == Min(S \cup {end})
<1>3. m = end \/ m \in S
  BY <1>2
<1>5. \A i \in S : m <= i
  BY <1>2
<1> HIDE DEF m
<1>4. m \in first .. end
  <2>1. CASE m \in S
    <3>1. m \in first .. end - 1
      BY <2>1
    <3> QED BY <3>1
  <2>2. CASE m = end
    BY <2>2
  <2> QED BY <1>3, <2>1, <2>2
<1>6. m < end => m \in S
  BY <1>3
<1> QED BY <1>4, <1>5, <1>6 DEF m

\* LineEnd is the first line break at or behind the offset, or the end.
LEMMA LineEndIs ==
  ASSUME NEW S, NEW text \in Seq(S), NEW offset \in 1 .. Len(text) + 1
  PROVE  /\ LineEnd(text, offset) \in offset .. Len(text) + 1
         /\ \A i \in offset .. LineEnd(text, offset) - 1 : text[i] # "\n"
         /\ LineEnd(text, offset) <= Len(text) => text[LineEnd(text, offset)] = "\n"
<1> DEFINE N == {i \in offset .. Len(text) : text[i] = "\n"}
           end == Len(text) + 1
<1>1. offset \in Nat /\ end \in Nat /\ offset <= end /\ N \in SUBSET (offset .. end - 1)
  OBVIOUS
<1>2. LineEnd(text, offset) = Min(N \cup {end})
  BY DEF LineEnd
<1>3. /\ Min(N \cup {end}) \in offset .. end
      /\ \A i \in N : Min(N \cup {end}) <= i
      /\ Min(N \cup {end}) < end => Min(N \cup {end}) \in N
  <2> HIDE DEF N, end
  <2> QED BY <1>1, FirstPlace
<1> HIDE DEF N
<1>4. LineEnd(text, offset) \in offset .. end
  BY <1>2, <1>3
<1>5. ASSUME NEW i \in offset .. LineEnd(text, offset) - 1, text[i] = "\n" PROVE FALSE
  <2>1. i \in N
    BY <1>4, <1>5 DEF N
  <2>2. LineEnd(text, offset) <= i
    BY <2>1, <1>2, <1>3
  <2> QED BY <2>2, <1>4, <1>5
<1>6. LineEnd(text, offset) <= Len(text) => text[LineEnd(text, offset)] = "\n"
  BY <1>2, <1>3, <1>4 DEF N
<1> QED BY <1>4, <1>5, <1>6

\* There is only one such place.
LEMMA LineEndOnly ==
  ASSUME NEW S, NEW text \in Seq(S), NEW offset \in 1 .. Len(text) + 1,
         NEW end \in offset .. Len(text) + 1, \A i \in offset .. end - 1 : text[i] # "\n",
         end <= Len(text) => text[end] = "\n"
  PROVE  LineEnd(text, offset) = end
<1>1. ~(LineEnd(text, offset) < end)
  BY LineEndIs
<1>2. ~(end < LineEnd(text, offset))
  BY LineEndIs
<1> QED BY <1>1, <1>2, LineEndIs

(***************************************************************************)
(* Parts of a text, and what trim leaves of them                           *)
(***************************************************************************)
\* The first and the last character that is not white space.
LEMMA InkedEnds ==
  ASSUME NEW S, NEW text \in Seq(S), Inked(text, 1, Len(text)) # {}
  PROVE  \E a, b \in Inked(text, 1, Len(text)) :
           \A i \in Inked(text, 1, Len(text)) : a <= i /\ i <= b
<1> DEFINE inked == Inked(text, 1, Len(text))
<1>1. inked \in SUBSET Nat /\ \A i \in inked : i <= Len(text)
  BY DEF Inked
<1>2. Min(inked) \in inked /\ \A i \in inked : Min(inked) <= i
  <2> HIDE DEF inked
  <2>1. inked # {}
    BY DEF inked
  <2> QED BY <1>1, <2>1, MinIsLeast
<1>3. Max(inked) \in inked /\ \A i \in inked : i <= Max(inked)
  <2>1. Len(text) \in Nat
    OBVIOUS
  <2> HIDE DEF inked
  <2>2. inked # {}
    BY DEF inked
  <2> QED BY <1>1, <2>1, <2>2, MaxIsGreatest
<1> HIDE DEF inked
<1> QED BY <1>2, <1>3 DEF inked

\* Trimming leaves what lies between the first and the last inked character.
LEMMA TrimIs ==
  ASSUME NEW S, NEW text \in Seq(S), NEW a \in Inked(text, 1, Len(text)),
         NEW b \in Inked(text, 1, Len(text)),
         \A i \in Inked(text, 1, Len(text)) : a <= i /\ i <= b
  PROVE  /\ Trim(text) = SubSeq(text, a, b)
         /\ TrimStart(text) = SubSeq(text, a, Len(text))
<1> DEFINE inked == Inked(text, 1, Len(text))
<1>1. inked \in SUBSET (1 .. Len(text))
  BY DEF Inked
<1>2. a \in 1 .. Len(text) /\ b \in 1 .. Len(text)
  BY DEF Inked
<1> HIDE DEF inked
<1>3. Min(inked \cup {Len(text) + 1}) = a
  <2>1. inked \cup {Len(text) + 1} \in SUBSET Nat /\ inked \cup {Len(text) + 1} # {}
    <3>1. Len(text) + 1 \in Nat /\ inked \in SUBSET Nat
      BY <1>1
    <3> QED BY <3>1
  <2>2. a \in inked \cup {Len(text) + 1} /\ \A i \in inked \cup {Len(text) + 1} : a <= i
    BY <1>2 DEF inked
  <2>3. /\ Min(inked \cup {Len(text) + 1}) \in inked \cup {Len(text) + 1}
        /\ \A i \in inked \cup {Len(text) + 1} : Min(inked \cup {Len(text) + 1}) <= i
    BY <2>1, MinIsLeast
  <2>4. Min(inked \cup {Len(text) + 1}) <= a /\ a <= Min(inked \cup {Len(text) + 1})
    BY <2>2, <2>3
  <2>5. Min(inked \cup {Len(text) + 1}) \in Nat
    BY <2>1, <2>3
  <2> QED BY <2>4, <2>5, <1>2
<1>4. Max(inked \cup {0}) = b
  <2>1. inked \cup {0} \in SUBSET Nat /\ inked \cup {0} # {}
    BY <1>1
  <2>2. b \in inked \cup {0} /\ \A i \in inked \cup {0} : i <= b
    BY <1>2 DEF inked
  <2>3. b \in Nat
    BY <1>2
  <2>4. /\ Max(inked \cup {0}) \in inked \cup {0}
        /\ \A i \in inked \cup {0} : i <= Max(inked \cup {0})
    BY <2>1, <2>2, <2>3, MaxIsGreatest
  <2>5. Max(inked \cup {0}) <= b /\ b <= Max(inked \cup {0})
    BY <2>2, <2>4
  <2>6. Max(inked \cup {0}) \in Nat
    BY <2>1, <2>4
  <2> QED BY <2>5, <2>6, <2>3
<1> QED BY <1>3, <1>4 DEF Trim, TrimStart, From, inked

\* Nothing is left of a text of white space.
LEMMA TrimBlank ==
  ASSUME NEW S, NEW text \in Seq(S), Inked(text, 1, Len(text)) = {}
  PROVE  Trim(text) = <<>> /\ TrimStart(text) = <<>>
<1>1. Min({Len(text) + 1}) = Len(text) + 1
  <2>1. {Len(text) + 1} \in SUBSET Nat /\ {Len(text) + 1} # {}
    OBVIOUS
  <2> QED BY <2>1, MinIsLeast
<1>2. Max({0}) = 0
  <2>1. {0} \in SUBSET Nat /\ {0} # {} /\ \A m \in {0} : m <= 0
    OBVIOUS
  <2>2. Max({0}) \in {0}
    BY <2>1, MaxIsGreatest
  <2> QED BY <2>2
<1>3. Trim(text) = SubSeq(text, Len(text) + 1, 0) /\ TrimStart(text) = SubSeq(text, Len(text) + 1, Len(text))
  <2>1. {} \cup {Len(text) + 1} = {Len(text) + 1} /\ {} \cup {0} = {0}
    OBVIOUS
  <2> QED BY <1>1, <1>2, <2>1 DEF Trim, TrimStart, From
<1>4. SubSeq(text, Len(text) + 1, 0) = <<>> /\ SubSeq(text, Len(text) + 1, Len(text)) = <<>>
  <2>1. Len(text) + 1 \in Int /\ 0 \in Int /\ 0 < Len(text) + 1 /\ Len(text) \in Int /\ Len(text) < Len(text) + 1
    OBVIOUS
  <2> QED BY <2>1, SubSeqEmpty
<1> QED BY <1>3, <1>4

\* The characters of a part of a text.
LEMMA PartIs ==
  ASSUME NEW S, NEW text \in Seq(S), NEW a \in 1 .. Len(text) + 1, NEW b \in a - 1 .. Len(text)
  PROVE  /\ SubSeq(text, a, b) \in Seq(S)
         /\ Len(SubSeq(text, a, b)) = b - a + 1
         /\ \A i \in 1 .. b - a + 1 : SubSeq(text, a, b)[i] = text[a + i - 1]
<1>1. a \in Int /\ b \in Int /\ \A i \in a .. b : text[i] \in S
  OBVIOUS
<1>2. /\ SubSeq(text, a, b) \in Seq(S)
      /\ Len(SubSeq(text, a, b)) = IF a <= b THEN b - a + 1 ELSE 0
      /\ \A i \in 1 .. b - a + 1 : SubSeq(text, a, b)[i] = text[a + i - 1]
  BY <1>1, SubSeqProperties
<1> QED BY <1>2

\* The characters of two texts put together.
LEMMA ConcatIs ==
  ASSUME NEW S, NEW s \in Seq(S), NEW t \in Seq(S)
  PROVE  /\ s \o t \in Seq(S)
         /\ Len(s \o t) = Len(s) + Len(t)
         /\ \A i \in 1 .. Len(s) : (s \o t)[i] = s[i]
         /\ \A i \in 1 .. Len(t) : (s \o t)[Len(s) + i] = t[i]
OBVIOUS

\* Texts with the same characters are the same text.
LEMMA SameSeq ==
  ASSUME NEW S, NEW s \in Seq(S), NEW t \in Seq(S), Len(s) = Len(t),
         \A i \in 1 .. Len(s) : s[i] = t[i]
  PROVE  s = t
OBVIOUS

\* Trimming adds no character.
LEMMA TrimType ==
  ASSUME NEW S, NEW text \in Seq(S)
  PROVE  Trim(text) \in Seq(S) /\ TrimStart(text) \in Seq(S)
<1>1. CASE Inked(text, 1, Len(text)) = {}
  <2>1. <<>> \in Seq(S)
    OBVIOUS
  <2> QED BY <1>1, <2>1, TrimBlank
<1>2. CASE Inked(text, 1, Len(text)) # {}
  <2>1. PICK a, b \in Inked(text, 1, Len(text)) : \A i \in Inked(text, 1, Len(text)) : a <= i /\ i <= b
    BY <1>2, InkedEnds
  <2>2. a \in 1 .. Len(text) /\ b \in 1 .. Len(text) /\ a <= b
    BY <2>1 DEF Inked
  <2>3. SubSeq(text, a, b) \in Seq(S) /\ SubSeq(text, a, Len(text)) \in Seq(S)
    <3>1. a \in 1 .. Len(text) + 1 /\ b \in a - 1 .. Len(text) /\ Len(text) \in a - 1 .. Len(text)
      BY <2>2
    <3> QED BY <3>1, PartIs
  <2> QED BY <2>1, <2>3, TrimIs
<1> QED BY <1>1, <1>2

\* Trimming leaves a text alone that neither starts nor ends with white space.
LEMMA TrimSelf ==
  ASSUME NEW S, NEW text \in Seq(S), text # <<>>, text[1] \notin Space, text[Len(text)] \notin Space
  PROVE  Trim(text) = text
<1>1. Len(text) \in Nat \ {0}
  OBVIOUS
<1>2. 1 \in Inked(text, 1, Len(text)) /\ Len(text) \in Inked(text, 1, Len(text))
  BY <1>1 DEF Inked
<1>3. \A i \in Inked(text, 1, Len(text)) : 1 <= i /\ i <= Len(text)
  BY DEF Inked
<1>4. Trim(text) = SubSeq(text, 1, Len(text))
  BY <1>2, <1>3, TrimIs
<1> QED BY <1>4, SubSeqFull

\* Trimming the start leaves a text alone that starts with an inked character.
LEMMA TrimStartSelf ==
  ASSUME NEW S, NEW text \in Seq(S), text # <<>>, text[1] \notin Space
  PROVE  TrimStart(text) = text
<1>1. Len(text) \in Nat \ {0}
  OBVIOUS
<1>2. 1 \in Inked(text, 1, Len(text))
  BY <1>1 DEF Inked
<1>3. PICK a, b \in Inked(text, 1, Len(text)) : \A i \in Inked(text, 1, Len(text)) : a <= i /\ i <= b
  BY <1>2, InkedEnds
<1>4. a = 1
  BY <1>2, <1>3 DEF Inked
<1> QED BY <1>3, <1>4, TrimIs, SubSeqFull

\* White space at the end makes no difference.
LEMMA TrimLonger ==
  ASSUME NEW S, NEW text \in Seq(S), NEW c \in S \cap Space
  PROVE  /\ Trim(text \o <<c>>) = Trim(text)
         /\ TrimStart(text \o <<c>>) = IF Inked(text, 1, Len(text)) = {} THEN <<>>
                                       ELSE TrimStart(text) \o <<c>>
<1> DEFINE longer == text \o <<c>>
<1>1. /\ longer \in Seq(S) /\ Len(longer) = Len(text) + 1 /\ longer[Len(text) + 1] = c
      /\ \A i \in 1 .. Len(text) : longer[i] = text[i]
  OBVIOUS
<1> HIDE DEF longer
<1>2. Inked(longer, 1, Len(longer)) = Inked(text, 1, Len(text))
  <2>1. ASSUME NEW i \in Inked(longer, 1, Len(longer)) PROVE i \in Inked(text, 1, Len(text))
    BY <1>1 DEF Inked
  <2>2. ASSUME NEW i \in Inked(text, 1, Len(text)) PROVE i \in Inked(longer, 1, Len(longer))
    BY <1>1 DEF Inked
  <2> QED BY <2>1, <2>2
<1>3. CASE Inked(text, 1, Len(text)) = {}
  BY <1>1, <1>2, <1>3, TrimBlank DEF longer
<1>4. CASE Inked(text, 1, Len(text)) # {}
  <2>1. PICK a, b \in Inked(text, 1, Len(text)) : \A i \in Inked(text, 1, Len(text)) : a <= i /\ i <= b
    BY <1>4, InkedEnds
  <2>2. a \in 1 .. Len(text) /\ b \in 1 .. Len(text) /\ a <= b
    BY <2>1 DEF Inked
  <2>3. /\ Trim(text) = SubSeq(text, a, b) /\ TrimStart(text) = SubSeq(text, a, Len(text))
        /\ Trim(longer) = SubSeq(longer, a, b) /\ TrimStart(longer) = SubSeq(longer, a, Len(longer))
    BY <2>1, <1>1, <1>2, TrimIs
  <2>4. SubSeq(longer, a, b) = SubSeq(text, a, b)
    BY <2>2, SubSeqOfConcat1 DEF longer
  <2>5. SubSeq(longer, a, Len(longer)) = SubSeq(longer, a, Len(text)) \o <<longer[Len(longer)]>>
    <3>1. a \in 1 .. Len(longer) /\ Len(longer) \in a .. Len(longer) /\ Len(longer) - 1 = Len(text)
      BY <2>2, <1>1
    <3> QED BY <3>1, <1>1, SubSeqRecursiveSecond
  <2>6. SubSeq(longer, a, Len(text)) = SubSeq(text, a, Len(text))
    BY <2>2, SubSeqOfConcat1 DEF longer
  <2>7. TrimStart(longer) = TrimStart(text) \o <<c>>
    BY <2>3, <2>5, <2>6, <1>1
  <2> QED BY <2>3, <2>4, <2>7, <1>4 DEF longer
<1> QED BY <1>3, <1>4

(***************************************************************************)
(* The loop of statementEnd: where a quote is closed                       *)
(***************************************************************************)
ScanState == [offset : Nat, escaped : BOOLEAN]
ScanStart(first) == [offset |-> first, escaped |-> FALSE]
ScanStep(text, quote) == [state \in ScanState |-> Scan(text, quote, state)]
Scanned(text, quote, first) ==
  CHOOSE f : f = [n \in Nat |-> IF n = 0 THEN [offset |-> first, escaped |-> FALSE]
                                ELSE Scan(text, quote, f[n - 1])]

\* A round of the search for the closing quote keeps the shape of its state.
LEMMA ScanType ==
  ASSUME NEW text, NEW quote, NEW state \in ScanState
  PROVE  Scan(text, quote, state) \in ScanState
BY DEF Scan, ScanState

\* ClosingQuote is the offset after as many rounds as the text has characters.
LEMMA ScanLoop ==
  ASSUME NEW text, NEW quote, NEW first \in Nat
  PROVE  /\ Scanned(text, quote, first) \in [Nat -> ScanState]
         /\ IsLoop(Scanned(text, quote, first), ScanStart(first), ScanStep(text, quote))
         /\ ClosingQuote(text, quote, first) = Scanned(text, quote, first)[Len(text)].offset
<1> DEFINE start == ScanStart(first)
           step == ScanStep(text, quote)
           r == Scanned(text, quote, first)
<1>1. start \in ScanState
  BY DEF ScanStart, ScanState
<1>2. /\ step \in [ScanState -> ScanState]
      /\ \A state \in ScanState : step[state] = Scan(text, quote, state)
  BY ScanType DEF ScanStep
<1>3. ClosingQuote(text, quote, first) = r[Len(text)].offset
  BY DEF ClosingQuote, Scanned
<1> HIDE DEF step, start
<1>4. \E f : f = [n \in Nat |-> IF n = 0 THEN start ELSE Scan(text, quote, f[n - 1])]
  <2>1. PICK f \in [Nat -> ScanState] : IsRecursion(f, start, step)
    BY <1>1, <1>2, LoopRecursion
  <2>2. \A n \in Nat \ {0} : n - 1 \in Nat
    OBVIOUS
  <2> QED BY <1>2, <2>1, <2>2 DEF IsRecursion
<1>5. r = [n \in Nat |-> IF n = 0 THEN start ELSE Scan(text, quote, r[n - 1])]
  BY <1>4 DEF Scanned, ScanStart, start
<1> HIDE DEF r
<1>6. /\ r = [n \in Nat |-> r[n]] /\ r[0] = start
      /\ \A n \in Nat : r[n + 1] = Scan(text, quote, r[n])
  <2>1. \A n \in Nat : n + 1 \in Nat /\ n + 1 # 0 /\ (n + 1) - 1 = n
    OBVIOUS
  <2> QED BY <1>5, <2>1
<1>7. Follows(r, start, step, ScanState)
  BY <1>2, <1>6 DEF Follows
<1>8. r \in [Nat -> ScanState] /\ IsLoop(r, start, step)
  BY <1>1, <1>2, <1>7, LoopType
<1> QED BY <1>3, <1>8 DEF r, start, step

\* The characters of a value: those of the text and what an escape stands for.
Decodable(S) == S \cup {"\n", "\r", Backslash}

DecodeState(S) == [index : Nat \ {0}, value : Seq(Decodable(S))]
DecodeStart == [index |-> 2, value |-> <<>>]
DecodeStep(S, source, quote) == [state \in DecodeState(S) |-> Decode(source, quote, state)]
Decoded(source, quote) ==
  CHOOSE f : f = [n \in Nat |-> IF n = 0 THEN [index |-> 2, value |-> <<>>]
                                ELSE Decode(source, quote, f[n - 1])]

\* A round of the decoder keeps the shape of its state.
LEMMA DecodeType ==
  ASSUME NEW S, NEW source \in Seq(S), NEW quote, NEW state \in DecodeState(S)
  PROVE  Decode(source, quote, state) \in DecodeState(S)
<1>1. state.index \in Nat \ {0} /\ state.value \in Seq(Decodable(S))
  BY DEF DecodeState
<1>2. CASE Decode(source, quote, state) = state
  BY <1>2
<1>3. CASE /\ state.index < Len(source)
           /\ Decode(source, quote, state) =
                [index |-> state.index + 2, value |-> state.value \o Unescaped(source[state.index + 1])]
  <2>1. source[state.index + 1] \in S
    BY <1>1, <1>3
  <2> DEFINE c == source[state.index + 1]
             C == Decodable(S)
  <2> HIDE DEF c, C
  <2>a. c \in C /\ "\n" \in C /\ "\r" \in C /\ Backslash \in C
    BY <2>1 DEF c, C, Decodable
  <2>b. <<"\n">> \in Seq(C) /\ <<"\r">> \in Seq(C) /\ <<c>> \in Seq(C) /\ <<Backslash, c>> \in Seq(C)
    BY <2>a
  <2>c. \/ Unescaped(c) = <<"\n">> \/ Unescaped(c) = <<"\r">>
        \/ Unescaped(c) = <<c>> \/ Unescaped(c) = <<Backslash, c>>
    BY DEF Unescaped
  <2>2. Unescaped(source[state.index + 1]) \in Seq(Decodable(S))
    BY <2>b, <2>c DEF c, C
  <2>3. state.value \o Unescaped(source[state.index + 1]) \in Seq(Decodable(S))
    BY <1>1, <2>2, ConcatIs
  <2> QED BY <1>1, <1>3, <2>3 DEF DecodeState
<1>4. CASE /\ state.index <= Len(source)
           /\ Decode(source, quote, state) =
                [index |-> state.index + 1, value |-> Append(state.value, source[state.index])]
  <2>1. source[state.index] \in Decodable(S)
    BY <1>1, <1>4 DEF Decodable
  <2>2. Append(state.value, source[state.index]) \in Seq(Decodable(S))
    BY <1>1, <2>1, AppendProperties
  <2> QED BY <1>1, <1>4, <2>2 DEF DecodeState
<1> QED BY <1>1, <1>2, <1>3, <1>4 DEF Decode

\* The decoder is a loop over such rounds.
LEMMA DecodeLoop ==
  ASSUME NEW S, NEW source \in Seq(S), NEW quote
  PROVE  /\ Decoded(source, quote) \in [Nat -> DecodeState(S)]
         /\ IsLoop(Decoded(source, quote), DecodeStart, DecodeStep(S, source, quote))
<1> DEFINE start == DecodeStart
           step == DecodeStep(S, source, quote)
           Typed == DecodeState(S)
           r == Decoded(source, quote)
<1>1. start \in Typed
  BY DEF DecodeStart, DecodeState, Decodable
<1>2. /\ step \in [Typed -> Typed]
      /\ \A state \in Typed : step[state] = Decode(source, quote, state)
  BY DecodeType DEF DecodeStep
<1> HIDE DEF step, start, Typed
<1>3. \E f : f = [n \in Nat |-> IF n = 0 THEN start ELSE Decode(source, quote, f[n - 1])]
  <2>1. PICK f \in [Nat -> Typed] : IsRecursion(f, start, step)
    BY <1>1, <1>2, LoopRecursion
  <2>2. \A n \in Nat \ {0} : n - 1 \in Nat
    OBVIOUS
  <2> QED BY <1>2, <2>1, <2>2 DEF IsRecursion
<1>4. r = [n \in Nat |-> IF n = 0 THEN start ELSE Decode(source, quote, r[n - 1])]
  BY <1>3 DEF Decoded, DecodeStart, start
<1> HIDE DEF r
<1>5. /\ r = [n \in Nat |-> r[n]] /\ r[0] = start
      /\ \A n \in Nat : r[n + 1] = Decode(source, quote, r[n])
  <2>1. \A n \in Nat : n + 1 \in Nat /\ n + 1 # 0 /\ (n + 1) - 1 = n
    OBVIOUS
  <2> QED BY <1>4, <2>1
<1>6. Follows(r, start, step, Typed)
  BY <1>2, <1>5 DEF Follows
<1>7. r \in [Nat -> Typed] /\ IsLoop(r, start, step)
  BY <1>1, <1>2, <1>6, LoopType
<1> QED BY <1>7 DEF r, start, step, Typed

\* What is decoded counts when the loop stops at the quote and only a comment
\* follows.
LEMMA DecodeQuotedIs ==
  ASSUME NEW source, NEW quote
  PROVE  DecodeQuoted(source, quote) =
           LET last == Decoded(source, quote)[Len(source)]
               remainder == Trim(From(source, last.index + 1))
           IN  IF /\ last.index <= Len(source) /\ source[last.index] = quote
                  /\ remainder = <<>> \/ remainder[1] = "#"
               THEN [valid |-> TRUE, value |-> last.value] ELSE Malformed
BY DEF DecodeQuoted, Decoded

\* Where a quote is closed, told without the loop: escaped[i] says that the
\* character at i is escaped.
Closes(text, quote, first, closing, escaped) ==
  /\ escaped[first] = FALSE
  /\ \A i \in first .. closing - 1 :
       /\ ~(text[i] = quote /\ ~escaped[i])
       /\ escaped[i + 1] = (quote = Double /\ ~escaped[i] /\ text[i] = Backslash)
  /\ closing <= Len(text) => text[closing] = quote /\ ~escaped[closing]

\* The search stays where the text ends or an unescaped quote stands.
LEMMA ScanStops ==
  ASSUME NEW text, NEW quote, NEW state \in ScanState,
         state.offset > Len(text) \/ (text[state.offset] = quote /\ ~state.escaped)
  PROVE  Scan(text, quote, state) = state
BY DEF Scan, ScanState

\* Elsewhere it goes on by one character and notes an escape.
LEMMA ScanGoesOn ==
  ASSUME NEW text, NEW quote, NEW state \in ScanState,
         ~(state.offset > Len(text)), ~(text[state.offset] = quote /\ ~state.escaped)
  PROVE  /\ Scan(text, quote, state).offset = state.offset + 1
         /\ Scan(text, quote, state).escaped =
              (quote = Double /\ ~state.escaped /\ text[state.offset] = Backslash)
         /\ Scan(text, quote, state) # state
<1>1. Scan(text, quote, state) =
        [offset |-> state.offset + 1,
         escaped |-> quote = Double /\ ~state.escaped /\ text[state.offset] = Backslash]
  BY DEF Scan
<1>2. state.offset \in Nat
  BY DEF ScanState
<1> QED BY <1>1, <1>2

\* The states of the search, as a function that starts behind the opening quote.
LEMMA ScanRuns ==
  ASSUME NEW text, NEW quote, NEW first \in Nat
  PROVE  \E r \in [Nat -> ScanState] :
           /\ r[0] = ScanStart(first)
           /\ \A n \in Nat : r[n + 1] = Scan(text, quote, r[n])
           /\ ClosingQuote(text, quote, first) = r[Len(text)].offset
<1> DEFINE r == Scanned(text, quote, first)
<1>1. /\ r \in [Nat -> ScanState]
      /\ IsLoop(r, ScanStart(first), ScanStep(text, quote))
      /\ ClosingQuote(text, quote, first) = r[Len(text)].offset
  BY ScanLoop
<1> HIDE DEF r
<1>2. r[0] = ScanStart(first)
  BY <1>1 DEF IsLoop
<1>3. ASSUME NEW n \in Nat PROVE r[n + 1] = Scan(text, quote, r[n])
  <2>1. r[n] \in ScanState
    BY <1>1
  <2>2. r[n + 1] = ScanStep(text, quote)[r[n]]
    BY <1>1 DEF IsLoop
  <2> QED BY <2>1, <2>2 DEF ScanStep
<1> QED BY <1>1, <1>2, <1>3

\* A round in which the loop has stopped decides where the quote is closed.
LEMMA ScanSettles ==
  ASSUME NEW text, Len(text) \in Nat, NEW quote, NEW first \in Nat, NEW r \in [Nat -> ScanState],
         \A k \in Nat : r[k + 1] = Scan(text, quote, r[k]),
         ClosingQuote(text, quote, first) = r[Len(text)].offset,
         NEW n \in Nat, n <= Len(text), Scan(text, quote, r[n]) = r[n]
  PROVE  ClosingQuote(text, quote, first) = r[n].offset
<1>1. \A k \in Nat : r[k] = r[n] => r[k + 1] = r[n]
  OBVIOUS
<1>2. r[Len(text)] = r[n]
  <2> DEFINE L == Len(text)
  <2>1. L \in Nat /\ n <= L
    OBVIOUS
  <2> HIDE DEF L
  <2>2. r[L] = r[n]
    BY <1>1, <2>1, LoopStays
  <2> QED BY <2>2 DEF L
<1> QED BY <1>2

\* The search ends at the closing quote, with the escapes that say so.
LEMMA ScanIs ==
  ASSUME NEW S, NEW text \in Seq(S), NEW quote, NEW first \in 1 .. Len(text) + 1
  PROVE  /\ ClosingQuote(text, quote, first) \in first .. Len(text) + 1
         /\ \E escaped \in [Nat -> BOOLEAN] :
              Closes(text, quote, first, ClosingQuote(text, quote, first), escaped)
<1> DEFINE L == Len(text)
<1>1. L \in Nat /\ first \in Nat /\ first # 0 /\ first <= L + 1
  OBVIOUS
<1>2. PICK r \in [Nat -> ScanState] :
        /\ r[0] = ScanStart(first)
        /\ \A n \in Nat : r[n + 1] = Scan(text, quote, r[n])
        /\ ClosingQuote(text, quote, first) = r[L].offset
  BY <1>1, ScanRuns
<1> HIDE DEF L
<1> DEFINE Stopped(n) == Scan(text, quote, r[n]) = r[n]
           Onwards == {n \in Nat : \/ r[n].offset = first + n
                                   \/ \E m \in Nat : m <= n /\ Stopped(m)}
<1>3. ASSUME NEW n \in Nat, ~Stopped(n)
      PROVE  /\ r[n].offset <= L /\ ~(text[r[n].offset] = quote /\ ~r[n].escaped)
             /\ r[n + 1].offset = r[n].offset + 1
             /\ r[n + 1].escaped = (quote = Double /\ ~r[n].escaped /\ text[r[n].offset] = Backslash)
  <2>1. r[n] \in ScanState /\ r[n + 1] = Scan(text, quote, r[n])
    BY <1>2
  <2>2. ~(r[n].offset > Len(text)) /\ ~(text[r[n].offset] = quote /\ ~r[n].escaped)
    BY <2>1, <1>3, ScanStops
  <2>3. r[n].offset \in Nat
    BY <2>1 DEF ScanState
  <2> QED BY <2>1, <2>2, <2>3, <1>1, ScanGoesOn DEF L
<1>4. \A n \in Nat : n \in Onwards
  <2>1. 0 \in Onwards
    BY <1>1, <1>2 DEF ScanStart
  <2>2. ASSUME NEW n \in Nat, n \in Onwards PROVE n + 1 \in Onwards
    <3>1. CASE \E m \in Nat : m <= n /\ Stopped(m)
      <4>1. PICK m \in Nat : m <= n /\ Stopped(m)
        BY <3>1
      <4>2. m <= n + 1
        BY <4>1
      <4> QED BY <4>1, <4>2
    <3>2. CASE r[n].offset = first + n /\ ~Stopped(n)
      <4>1. r[n + 1].offset = r[n].offset + 1
        BY <3>2, <1>3
      <4> QED BY <4>1, <3>2, <1>1
    <3> QED BY <3>1, <3>2, <2>2
  <2> HIDE DEF Onwards
  <2> QED BY <2>1, <2>2, Induction
<1> DEFINE Ends == {m \in Nat : Stopped(m)}
<1>5. \E m \in Nat : m <= L /\ Stopped(m)
  <2>1. L \in Onwards
    BY <1>1, <1>4
  <2>2. CASE r[L].offset = first + L
    <3>1. r[L].offset > Len(text) /\ r[L] \in ScanState
      BY <2>2, <1>1, <1>2 DEF L
    <3> QED BY <3>1, <1>1, ScanStops
  <2> QED BY <2>1, <2>2
<1>6. PICK z \in Ends : \A m \in Ends : z <= m
  <2>1. Ends \in SUBSET Nat /\ Ends # {}
    BY <1>5
  <2> HIDE DEF Ends
  <2> QED BY <2>1, Least
<1>7. z \in Nat /\ z <= L /\ Stopped(z) /\ \A m \in 0 .. z - 1 : ~Stopped(m)
  <2>1. z \in Nat /\ Stopped(z)
    BY <1>6
  <2>2. PICK m \in Nat : m <= L /\ Stopped(m)
    BY <1>5
  <2>3. z <= m
    BY <1>6, <2>2
  <2> QED BY <1>1, <1>6, <2>1, <2>2, <2>3
<1> HIDE DEF Stopped, Ends, Onwards
<1>8. \A m \in 0 .. z : r[m].offset = first + m
  <2>1. ASSUME NEW m \in 0 .. z, ~(r[m].offset = first + m) PROVE FALSE
    <3>1. m \in Nat
      BY <2>1, <1>7
    <3>2. PICK k \in Nat : k <= m /\ Stopped(k)
      BY <3>1, <2>1, <1>4 DEF Onwards
    <3>3. k = z
      BY <3>1, <3>2, <2>1, <1>7
    <3>0. r[0].offset = first + 0
      BY <1>1, <1>2 DEF ScanStart
    <3>4. m = z /\ z # 0
      <4>1. m = z
        BY <3>3, <3>2, <2>1, <1>7
      <4> QED BY <4>1, <3>0, <2>1
    <3>5. z - 1 \in Nat /\ z - 1 \in 0 .. z - 1 /\ (z - 1) + 1 = z
      BY <3>4, <1>7
    <3>6. ~Stopped(z - 1)
      BY <3>5, <1>7
    <3>7. r[z].offset = r[z - 1].offset + 1
      BY <3>5, <3>6, <1>3 DEF Stopped
    <3>8. r[z - 1].offset = first + (z - 1)
      <4>1. ~\E j \in Nat : j <= z - 1 /\ Stopped(j)
        BY <1>7
      <4> QED BY <4>1, <3>5, <1>4 DEF Onwards
    <3> QED BY <3>4, <3>7, <3>8, <2>1, <1>1, <1>7
  <2> QED BY <2>1
<1>9. ClosingQuote(text, quote, first) = r[z].offset
  <2>1. Len(text) \in Nat /\ z <= Len(text) /\ z \in Nat /\ first \in Nat
        /\ ClosingQuote(text, quote, first) = r[Len(text)].offset
    BY <1>1, <1>2, <1>7 DEF L
  <2>2. \A n \in Nat : r[n + 1] = Scan(text, quote, r[n])
    BY <1>2
  <2>3. Scan(text, quote, r[z]) = r[z]
    BY <1>7 DEF Stopped
  <2> QED BY <2>1, <2>2, <2>3, ScanSettles
<1> DEFINE c == first + z
           e == [i \in Nat |-> IF i - first \in Nat THEN r[i - first].escaped ELSE FALSE]
<1>10. ClosingQuote(text, quote, first) = c
  BY <1>7, <1>8, <1>9
<1>11. c \in first .. L + 1
  <2>1. CASE z = 0
    BY <2>1, <1>1
  <2>2. CASE z # 0
    <3>1. z - 1 \in Nat /\ z - 1 \in 0 .. z - 1 /\ z - 1 \in 0 .. z
      BY <2>2, <1>7
    <3>2. r[z - 1].offset <= L /\ r[z - 1].offset = first + (z - 1)
      BY <3>1, <1>3, <1>7, <1>8 DEF Stopped
    <3> QED BY <3>2, <1>1, <1>7
  <2> QED BY <2>1, <2>2
<1>12. e \in [Nat -> BOOLEAN]
  <2>1. \A n \in Nat : r[n].escaped \in BOOLEAN
    BY <1>2 DEF ScanState
  <2> QED BY <2>1
<1>13. \A m \in Nat : e[first + m] = r[m].escaped
  <2>1. \A m \in Nat : first + m \in Nat /\ (first + m) - first = m
    BY <1>1
  <2> QED BY <2>1
<1> HIDE DEF e
<1>14. e[first] = FALSE
  <2>1. e[first + 0] = r[0].escaped /\ first + 0 = first
    <3>1. 0 \in Nat /\ first + 0 = first
      BY <1>1
    <3> QED BY <3>1, <1>13
  <2>2. r[0].escaped = FALSE
    BY <1>2 DEF ScanStart
  <2> QED BY <2>1, <2>2
<1>15. ASSUME NEW i \in first .. c - 1
       PROVE  /\ ~(text[i] = quote /\ ~e[i])
              /\ e[i + 1] = (quote = Double /\ ~e[i] /\ text[i] = Backslash)
  <2>1. /\ i - first \in Nat /\ i - first \in 0 .. z - 1 /\ i - first \in 0 .. z
        /\ first + (i - first) = i /\ first + ((i - first) + 1) = i + 1 /\ (i - first) + 1 \in Nat
    BY <1>1, <1>7, <1>15
  <2> DEFINE m == i - first
  <2>2. r[m].offset = i
    BY <2>1, <1>8
  <2>3. e[i] = r[m].escaped /\ e[i + 1] = r[m + 1].escaped
    BY <2>1, <1>13
  <2>4. ~Stopped(m)
    BY <2>1, <1>7
  <2> HIDE DEF m
  <2>5. m \in Nat
    BY <2>1 DEF m
  <2>6. /\ ~(text[r[m].offset] = quote /\ ~r[m].escaped)
        /\ r[m + 1].escaped = (quote = Double /\ ~r[m].escaped /\ text[r[m].offset] = Backslash)
    BY <2>4, <2>5, <1>3 DEF Stopped
  <2> QED BY <2>2, <2>3, <2>6
<1>16. ASSUME c <= L PROVE text[c] = quote /\ ~e[c]
  <2>1. r[z].offset = c /\ e[c] = r[z].escaped /\ r[z] \in ScanState
    <3>1. z \in 0 .. z /\ z \in Nat
      BY <1>7
    <3>2. r[z].offset = first + z
      BY <3>1, <1>8
    <3>3. e[first + z] = r[z].escaped
      BY <3>1, <1>13
    <3> QED BY <3>1, <3>2, <3>3, <1>2
  <2>2. ~(r[z].offset > Len(text))
    BY <2>1, <1>1, <1>7, <1>16 DEF L
  <2>3. text[r[z].offset] = quote /\ ~r[z].escaped
    BY <2>1, <2>2, <1>7, ScanGoesOn DEF Stopped
  <2> QED BY <2>1, <2>3
<1> HIDE DEF c
<1>17. Closes(text, quote, first, c, e)
  BY <1>14, <1>15, <1>16 DEF Closes, L
<1> QED BY <1>10, <1>11, <1>12, <1>17 DEF L

\* There is only one such place.
LEMMA ScanOnly ==
  ASSUME NEW S, NEW text \in Seq(S), NEW quote, NEW first \in 1 .. Len(text) + 1,
         NEW closing \in first .. Len(text) + 1, NEW escaped \in [Nat -> BOOLEAN],
         Closes(text, quote, first, closing, escaped)
  PROVE  ClosingQuote(text, quote, first) = closing
<1> DEFINE L == Len(text)
<1>1. L \in Nat /\ first \in Nat /\ first # 0 /\ closing \in Nat /\ first <= closing /\ closing <= L + 1
  OBVIOUS
<1>2. PICK r \in [Nat -> ScanState] :
        /\ r[0] = ScanStart(first)
        /\ \A n \in Nat : r[n + 1] = Scan(text, quote, r[n])
        /\ ClosingQuote(text, quote, first) = r[Len(text)].offset
  <2>1. first \in Nat
    OBVIOUS
  <2> QED BY <2>1, ScanRuns
<1> HIDE DEF L
<1> DEFINE Same == {n \in Nat : n <= closing - first =>
                      r[n].offset = first + n /\ r[n].escaped = escaped[first + n]}
<1>3. \A n \in Nat : n \in Same
  <2>1. 0 \in Same
    <3>1. r[0].offset = first + 0 /\ r[0].escaped = FALSE /\ first + 0 = first
      BY <1>1, <1>2 DEF ScanStart
    <3> QED BY <3>1 DEF Closes
  <2>2. ASSUME NEW n \in Nat, n \in Same PROVE n + 1 \in Same
    <3> SUFFICES ASSUME n + 1 <= closing - first
                 PROVE  r[n + 1].offset = first + (n + 1) /\ r[n + 1].escaped = escaped[first + (n + 1)]
      OBVIOUS
    <3>1. r[n].offset = first + n /\ r[n].escaped = escaped[first + n]
      BY <2>2, <1>1
    <3>2. first + n \in first .. closing - 1 /\ first + n <= L /\ (first + n) + 1 = first + (n + 1)
      BY <1>1
    <3>3. /\ ~(text[first + n] = quote /\ ~escaped[first + n])
          /\ escaped[first + (n + 1)] =
               (quote = Double /\ ~escaped[first + n] /\ text[first + n] = Backslash)
      BY <3>2 DEF Closes
    <3>4. r[n] \in ScanState /\ r[n + 1] = Scan(text, quote, r[n])
      BY <1>2
    <3>5. ~(r[n].offset > Len(text)) /\ ~(text[r[n].offset] = quote /\ ~r[n].escaped)
      BY <3>1, <3>2, <3>3, <1>1 DEF L
    <3>6. /\ r[n + 1].offset = r[n].offset + 1
          /\ r[n + 1].escaped = (quote = Double /\ ~r[n].escaped /\ text[r[n].offset] = Backslash)
      BY <3>4, <3>5, ScanGoesOn
    <3>7. r[n + 1].escaped = escaped[first + (n + 1)]
      BY <3>1, <3>3, <3>6
    <3> QED BY <3>1, <3>2, <3>6, <3>7
  <2> HIDE DEF Same
  <2> QED BY <2>1, <2>2, Induction
<1> DEFINE z == closing - first
<1>4. z \in Nat /\ z <= L /\ first + z = closing
  BY <1>1
<1> HIDE DEF z
<1>5. r[z].offset = closing /\ r[z].escaped = escaped[closing]
  BY <1>3, <1>4 DEF z
<1>6. r[z].offset > Len(text) \/ (text[r[z].offset] = quote /\ ~r[z].escaped)
  BY <1>1, <1>5 DEF Closes, L
<1>7. r[z] \in ScanState
  BY <1>2, <1>4
<1>8. Scan(text, quote, r[z]) = r[z]
  BY <1>6, <1>7, ScanStops
<1>9. ClosingQuote(text, quote, first) = r[z].offset
  <2>1. Len(text) \in Nat /\ z <= Len(text) /\ z \in Nat /\ first \in Nat
        /\ ClosingQuote(text, quote, first) = r[Len(text)].offset
    BY <1>1, <1>2, <1>4 DEF L
  <2>2. \A n \in Nat : r[n + 1] = Scan(text, quote, r[n])
    BY <1>2
  <2> QED BY <2>1, <2>2, <1>8, ScanSettles
<1> QED BY <1>5, <1>9

(***************************************************************************)
(* The loop of decodeQuotedValue, and that the two passes agree            *)
(***************************************************************************)
IsEscape(source, quote, index) == source[index] = Backslash /\ quote = Double

\* The decoder stays at the end, at a quote and at an escape of nothing.
LEMMA DecodeStops ==
  ASSUME NEW source, NEW quote, NEW state,
         \/ state.index > Len(source) \/ source[state.index] = quote
         \/ IsEscape(source, quote, state.index) /\ state.index = Len(source)
  PROVE  Decode(source, quote, state) = state
BY DEF Decode, IsEscape

\* The decoder copies a character that is neither.
LEMMA DecodeCopies ==
  ASSUME NEW source, NEW quote, NEW state,
         ~(state.index > Len(source)), source[state.index] # quote,
         ~IsEscape(source, quote, state.index)
  PROVE  Decode(source, quote, state) =
           [index |-> state.index + 1, value |-> Append(state.value, source[state.index])]
BY DEF Decode, IsEscape

\* The decoder takes an escape and what it escapes in one round.
LEMMA DecodeUnescapes ==
  ASSUME NEW source, NEW quote, NEW state,
         ~(state.index > Len(source)), source[state.index] # quote,
         IsEscape(source, quote, state.index), state.index # Len(source)
  PROVE  Decode(source, quote, state) =
           [index |-> state.index + 2, value |-> state.value \o Unescaped(source[state.index + 1])]
BY DEF Decode, IsEscape

\* The states of the decoder, one after the other.
LEMMA DecodeRuns ==
  ASSUME NEW S, NEW source \in Seq(S), NEW quote
  PROVE  /\ Decoded(source, quote) \in [Nat -> DecodeState(S)]
         /\ Decoded(source, quote)[0] = DecodeStart
         /\ \A n \in Nat : Decoded(source, quote)[n + 1] = Decode(source, quote, Decoded(source, quote)[n])
<1> DEFINE d == Decoded(source, quote)
<1>1. d \in [Nat -> DecodeState(S)] /\ IsLoop(d, DecodeStart, DecodeStep(S, source, quote))
  BY DecodeLoop
<1> HIDE DEF d
<1>2. ASSUME NEW n \in Nat PROVE d[n + 1] = Decode(source, quote, d[n])
  <2>1. d[n] \in DecodeState(S) /\ d[n + 1] = DecodeStep(S, source, quote)[d[n]]
    BY <1>1 DEF IsLoop
  <2> QED BY <2>1 DEF DecodeStep
<1>3. d[0] = DecodeStart
  BY <1>1 DEF IsLoop
<1> QED BY <1>1, <1>2, <1>3 DEF d

\* A round goes on, or the loop has stopped; it goes on from the second character.
LEMMA DecodeGoesOn ==
  ASSUME NEW S, NEW source \in Seq(S), NEW quote, NEW n \in Nat,
         Decode(source, quote, Decoded(source, quote)[n]) # Decoded(source, quote)[n]
  PROVE  /\ Decoded(source, quote)[n].index \in Nat
         /\ Decoded(source, quote)[n].index <= Len(source)
         /\ source[Decoded(source, quote)[n].index] # quote
         /\ \/ /\ ~IsEscape(source, quote, Decoded(source, quote)[n].index)
               /\ Decoded(source, quote)[n + 1].index = Decoded(source, quote)[n].index + 1
            \/ /\ IsEscape(source, quote, Decoded(source, quote)[n].index)
               /\ Decoded(source, quote)[n].index < Len(source)
               /\ Decoded(source, quote)[n + 1].index = Decoded(source, quote)[n].index + 2
<1> DEFINE state == Decoded(source, quote)[n]
<1>1. state \in DecodeState(S) /\ Decoded(source, quote)[n + 1] = Decode(source, quote, state)
  BY DecodeRuns
<1>2. state.index \in Nat /\ Len(source) \in Nat
  BY <1>1 DEF DecodeState
<1>3. Decode(source, quote, state) # state
  OBVIOUS
<1> HIDE DEF state
<1>4. ~(state.index > Len(source))
  BY <1>3, DecodeStops
<1>5. source[state.index] # quote
  BY <1>3, DecodeStops
<1>6. ~(IsEscape(source, quote, state.index) /\ state.index = Len(source))
  BY <1>3, DecodeStops
<1>7. CASE IsEscape(source, quote, state.index)
  <2>1. state.index # Len(source)
    BY <1>6, <1>7
  <2>2. Decode(source, quote, state) =
          [index |-> state.index + 2, value |-> state.value \o Unescaped(source[state.index + 1])]
    BY <2>1, <1>4, <1>5, <1>7, DecodeUnescapes
  <2>3. Decode(source, quote, state).index = state.index + 2
    BY <2>2
  <2>4. state.index < Len(source)
    BY <2>1, <1>2, <1>4
  <2> QED BY <2>3, <2>4, <1>1, <1>2, <1>5, <1>7 DEF state
<1>8. CASE ~IsEscape(source, quote, state.index)
  <2>1. Decode(source, quote, state) =
          [index |-> state.index + 1, value |-> Append(state.value, source[state.index])]
    BY <1>4, <1>5, <1>8, DecodeCopies
  <2>2. Decode(source, quote, state).index = state.index + 1
    BY <2>1
  <2>3. state.index <= Len(source)
    BY <1>2, <1>4
  <2> QED BY <2>2, <2>3, <1>1, <1>2, <1>5, <1>8 DEF state
<1> QED BY <1>7, <1>8

\* There are rounds enough: the loop stops before as many as there are characters.
LEMMA DecodeSettles ==
  ASSUME NEW S, NEW source \in Seq(S), NEW quote
  PROVE  /\ \A n \in Nat : Decoded(source, quote)[n].index \in Nat /\ Decoded(source, quote)[n].index >= 2
         /\ \A m \in Nat : Len(source) <= m => Decoded(source, quote)[m] = Decoded(source, quote)[Len(source)]
<1> DEFINE d == Decoded(source, quote)
           L == Len(source)
           Stopped(n) == Decode(source, quote, d[n]) = d[n]
<1>1. /\ d \in [Nat -> DecodeState(S)] /\ d[0] = DecodeStart
      /\ \A n \in Nat : d[n + 1] = Decode(source, quote, d[n])
  BY DecodeRuns
<1>2. L \in Nat
  OBVIOUS
<1>3. ASSUME NEW n \in Nat PROVE d[n].index \in Nat
  <2>1. d[n] \in DecodeState(S)
    BY <1>1
  <2> QED BY <2>1 DEF DecodeState
<1>4. ASSUME NEW n \in Nat, ~Stopped(n)
      PROVE  d[n].index <= L /\ (d[n + 1].index = d[n].index + 1 \/ d[n + 1].index = d[n].index + 2)
  BY <1>4, DecodeGoesOn
<1>5. ASSUME NEW n \in Nat, d[n].index > L PROVE Stopped(n)
  BY <1>5, DecodeStops
<1>6. ASSUME NEW n \in Nat, Stopped(n) PROVE d[n + 1] = d[n]
  BY <1>1, <1>6
<1>7. d[0].index = 2
  BY <1>1 DEF DecodeStart
<1> HIDE DEF d, L, Stopped
<1> DEFINE Past == {n \in Nat : d[n].index >= 2 /\ (Stopped(n) \/ d[n].index >= n + 2)}
<1>8. \A n \in Nat : n \in Past
  <2>1. 0 \in Past
    BY <1>7
  <2>2. ASSUME NEW n \in Nat, n \in Past PROVE n + 1 \in Past
    <3>1. CASE Stopped(n)
      <4>1. d[n + 1] = d[n]
        BY <3>1, <1>6
      <4>2. Stopped(n + 1)
        BY <4>1, <3>1, <1>1 DEF Stopped
      <4> QED BY <4>1, <4>2, <2>2
    <3>2. CASE ~Stopped(n)
      <4>1. d[n + 1].index = d[n].index + 1 \/ d[n + 1].index = d[n].index + 2
        BY <3>2, <1>4
      <4>2. d[n].index \in Nat /\ d[n].index >= n + 2
        BY <3>2, <2>2, <1>3
      <4> QED BY <4>1, <4>2
    <3> QED BY <3>1, <3>2
  <2> HIDE DEF Past
  <2> QED BY <2>1, <2>2, Induction
<1>9. Stopped(L)
  <2>1. CASE d[L].index >= L + 2
    <3>1. d[L].index > L
      BY <2>1, <1>2, <1>3
    <3> QED BY <3>1, <1>2, <1>5
  <2> QED BY <2>1, <1>2, <1>8
<1>10. \A k \in Nat : d[k] = d[L] => d[k + 1] = d[L]
  BY <1>1, <1>9 DEF Stopped
<1>11. \A m \in Nat : L <= m => d[m] = d[L]
  BY <1>2, <1>10, LoopStays
<1>12. \A n \in Nat : d[n].index \in Nat /\ d[n].index >= 2
  BY <1>3, <1>8
<1> QED BY <1>11, <1>12 DEF d, L

\* A value that is accepted is closed by its quote, behind the first character.
LEMMA DecodeCloses ==
  ASSUME NEW S, NEW source \in Seq(S), NEW quote, DecodeQuoted(source, quote).valid
  PROVE  /\ Decoded(source, quote)[Len(source)].index \in 2 .. Len(source)
         /\ source[Decoded(source, quote)[Len(source)].index] = quote
<1> DEFINE last == Decoded(source, quote)[Len(source)]
<1>1. last.index \in Nat /\ last.index >= 2 /\ Len(source) \in Nat
  <2>1. Len(source) \in Nat
    OBVIOUS
  <2> QED BY <2>1, DecodeSettles
<1>2. last.index <= Len(source) /\ source[last.index] = quote
  BY DecodeQuotedIs DEF Malformed
<1> QED BY <1>1, <1>2

\* Where decodeQuotedValue closes a value, statementEnd closes it.
THEOREM PassesAgree ==
  ASSUME NEW S, NEW text \in Seq(S), NEW v \in 1 .. Len(text), NEW end \in v + 1 .. Len(text) + 1,
         NEW quote, DecodeQuoted(SubSeq(text, v, end - 1), quote).valid
  PROVE  ClosingQuote(text, quote, v + 1) \in v + 1 .. end - 1
<1> DEFINE source == SubSeq(text, v, end - 1)
           d == Decoded(source, quote)
           L == Len(source)
           closing == ClosingQuote(text, quote, v + 1)
<1>1. source \in Seq(S) /\ L = end - v /\ \A k \in 1 .. L : source[k] = text[v + k - 1]
  <2>1. v \in 1 .. Len(text) + 1 /\ end - 1 \in v - 1 .. Len(text) /\ end - v = (end - 1) - v + 1
    OBVIOUS
  <2> QED BY <2>1, PartIs
<1>2. DecodeQuoted(source, quote).valid
  OBVIOUS
<1> HIDE DEF source
<1>3. d[0].index = 2 /\ \A n \in Nat : d[n].index \in Nat /\ d[n].index >= 2
  <2>1. d[0] = DecodeStart
    BY <1>1, DecodeRuns
  <2>2. d[0].index = 2
    BY <2>1 DEF DecodeStart
  <2>3. \A n \in Nat : d[n].index \in Nat /\ d[n].index >= 2
    BY <1>1, DecodeSettles
  <2> QED BY <2>2, <2>3
<1>4. d[L].index \in 2 .. L /\ source[d[L].index] = quote
  BY <1>1, <1>2, DecodeCloses
<1>5. /\ closing \in v + 1 .. Len(text) + 1
      /\ \E escaped \in [Nat -> BOOLEAN] : Closes(text, quote, v + 1, closing, escaped)
  <2>1. v + 1 \in 1 .. Len(text) + 1
    OBVIOUS
  <2> QED BY <2>1, ScanIs
<1>6. PICK escaped \in [Nat -> BOOLEAN] : Closes(text, quote, v + 1, closing, escaped)
  BY <1>5
<1>7. /\ escaped[v + 1] = FALSE
      /\ \A i \in v + 1 .. closing - 1 :
           ~(text[i] = quote /\ ~escaped[i])
           /\ escaped[i + 1] = (quote = Double /\ ~escaped[i] /\ text[i] = Backslash)
      /\ closing <= Len(text) => text[closing] = quote /\ ~escaped[closing]
  BY <1>6 DEF Closes
<1>8. v \in Nat /\ end \in Nat /\ end <= Len(text) + 1 /\ Len(text) \in Nat /\ L \in Nat
  BY <1>1
<1>9. ASSUME NEW n \in Nat, Decode(source, quote, d[n]) # d[n]
      PROVE  /\ d[n].index <= L /\ source[d[n].index] # quote
             /\ \/ ~IsEscape(source, quote, d[n].index) /\ d[n + 1].index = d[n].index + 1
                \/ /\ IsEscape(source, quote, d[n].index) /\ d[n].index < L
                   /\ d[n + 1].index = d[n].index + 2
  BY <1>1, <1>9, DecodeGoesOn
<1>10. ASSUME NEW n \in Nat, Decode(source, quote, d[n]) = d[n] PROVE d[n + 1] = d[n]
  BY <1>1, <1>10, DecodeRuns
<1> HIDE DEF d, L, closing
<1> DEFINE Place(n) == v + d[n].index - 1
           Met == {n \in Nat : Place(n) <= closing /\ escaped[Place(n)] = FALSE}
<1>11. \A n \in Nat : n \in Met
  <2>1. 0 \in Met
    <3>1. Place(0) = v + 1 /\ v + 1 <= closing
      BY <1>3, <1>5, <1>8
    <3> QED BY <3>1, <1>7
  <2>2. ASSUME NEW n \in Nat, n \in Met PROVE n + 1 \in Met
    <3>1. CASE Decode(source, quote, d[n]) = d[n]
      <4>1. d[n + 1] = d[n]
        BY <3>1, <1>10
      <4> QED BY <4>1, <2>2
    <3>2. CASE Decode(source, quote, d[n]) # d[n]
      <4> DEFINE i == Place(n)
      <4>a. d[n].index <= L /\ source[d[n].index] # quote
        BY <3>2, <1>9
      <4>1. d[n].index \in 1 .. L /\ d[n].index >= 2 /\ source[d[n].index] # quote
        <5>1. d[n].index \in Nat /\ d[n].index >= 2
          BY <1>3
        <5> QED BY <5>1, <4>a, <1>8
      <4>b. text[v + d[n].index - 1] = source[d[n].index]
        <5>1. \A k \in 1 .. L : source[k] = text[v + k - 1]
          BY <1>1
        <5> QED BY <5>1, <4>1
      <4>2. i \in Nat /\ text[i] = source[d[n].index] /\ i <= Len(text) /\ i >= v + 1
        <5>1. L = end - v
          BY <1>1
        <5>2. i \in Nat /\ i <= Len(text) /\ i >= v + 1
          BY <5>1, <4>1, <1>8
        <5> QED BY <5>2, <4>b
      <4>3. i <= closing /\ escaped[i] = FALSE
        BY <2>2
      <4> HIDE DEF i
      <4>4. i # closing
        <5>1. text[i] # quote
          BY <4>1, <4>2
        <5> QED BY <5>1, <4>2, <4>3, <1>7
      <4>5. i \in v + 1 .. closing - 1
        BY <4>2, <4>3, <4>4, <1>5, <1>8
      <4>6. escaped[i + 1] = (quote = Double /\ text[i] = Backslash)
        BY <4>3, <4>5, <1>7
      <4>7. i + 1 <= closing
        BY <4>5, <1>5, <1>8
      <4>8. CASE ~IsEscape(source, quote, d[n].index) /\ d[n + 1].index = d[n].index + 1
        <5>1. Place(n + 1) = i + 1
          BY <4>8, <4>1, <1>8 DEF i
        <5>2. escaped[i + 1] = FALSE
          BY <4>2, <4>6, <4>8 DEF IsEscape
        <5> QED BY <5>1, <5>2, <4>7
      <4>9. CASE /\ IsEscape(source, quote, d[n].index) /\ d[n].index < L
                 /\ d[n + 1].index = d[n].index + 2
        <5>1. Place(n + 1) = i + 2
          BY <4>9, <4>1, <1>8 DEF i
        <5>2. escaped[i + 1] = TRUE
          BY <4>2, <4>6, <4>9 DEF IsEscape
        <5>3. i + 1 <= Len(text)
          <6> DEFINE k == d[n].index
          <6>1. L = end - v
            BY <1>1
          <6>2. k \in 1 .. L
            BY <4>1
          <6>3. k < L
            BY <4>9
          <6>4. i = v + k - 1
            BY DEF i
          <6> HIDE DEF k
          <6> QED BY <6>1, <6>2, <6>3, <6>4, <1>8
        <5>4. i + 1 # closing
          BY <5>2, <5>3, <1>7
        <5>5. i + 1 \in v + 1 .. closing - 1
          BY <5>4, <4>2, <4>7, <1>5, <1>8
        <5>6. escaped[(i + 1) + 1] = FALSE
          BY <5>2, <5>5, <1>7
        <5>7. (i + 1) + 1 = i + 2 /\ i + 2 <= closing
          BY <5>4, <4>2, <4>7, <1>5
        <5> QED BY <5>1, <5>6, <5>7
      <4> QED BY <3>2, <4>8, <4>9, <1>9
    <3> QED BY <3>1, <3>2
  <2> HIDE DEF Met
  <2> QED BY <2>1, <2>2, Induction
<1>12. /\ Place(L) \in v + 1 .. end - 1 /\ text[Place(L)] = quote
       /\ Place(L) <= closing /\ escaped[Place(L)] = FALSE
  <2>1. d[L].index \in 1 .. L /\ d[L].index >= 2
    BY <1>4, <1>8
  <2>2. text[v + d[L].index - 1] = quote
    BY <2>1, <1>1, <1>4 DEF L
  <2>3. Place(L) \in v + 1 .. end - 1
    BY <2>1, <1>1, <1>8 DEF L
  <2> QED BY <2>2, <2>3, <1>8, <1>11
<1> HIDE DEF Place
<1>13. ~(Place(L) \in v + 1 .. closing - 1)
  BY <1>7, <1>12
<1> QED BY <1>5, <1>8, <1>12, <1>13 DEF closing

(***************************************************************************)
(* Assignments                                                             *)
(***************************************************************************)
LEMMA PartType ==
  ASSUME NEW S, NEW text \in Seq(S), NEW a \in Nat, a # 0, NEW b \in Int, b <= Len(text)
  PROVE  SubSeq(text, a, b) \in Seq(S)
<1>1. \A i \in a .. b : text[i] \in S
  OBVIOUS
<1> QED BY <1>1, SubSeqProperties

\* A decoded value holds only characters of the source or those an escape writes.
LEMMA DecodeQuotedType ==
  ASSUME NEW S, NEW source \in Seq(S), NEW quote
  PROVE  /\ DecodeQuoted(source, quote).valid \in BOOLEAN
         /\ DecodeQuoted(source, quote).valid =>
              /\ DecodeQuoted(source, quote) =
                   [valid |-> TRUE, value |-> Decoded(source, quote)[Len(source)].value]
              /\ DecodeQuoted(source, quote).value \in Seq(Decodable(S))
<1> DEFINE last == Decoded(source, quote)[Len(source)]
           Accepts == [valid |-> TRUE, value |-> last.value]
<1>1. last.value \in Seq(Decodable(S))
  <2>1. Len(source) \in Nat
    OBVIOUS
  <2>2. last \in DecodeState(S)
    BY <2>1, DecodeRuns
  <2> QED BY <2>2 DEF DecodeState
<1>2. DecodeQuoted(source, quote) = Accepts \/ DecodeQuoted(source, quote) = Malformed
  BY DecodeQuotedIs
<1>3. Accepts.valid = TRUE /\ Accepts.value = last.value /\ Malformed.valid = FALSE
  BY DEF Malformed
<1> HIDE DEF last
<1> QED BY <1>1, <1>2, <1>3 DEF last

\* The parts of an assignment.
Separator(statement) ==
  Min({i \in 1 .. LineEnd(statement, 1) - 1 : statement[i] = "="} \cup {Len(statement) + 1})
Name(statement) == Trim(SubSeq(statement, 1, Separator(statement) - 1))
Key(statement) ==
  IF IsPrefix(ExportPrefix, Name(statement)) THEN Trim(From(Name(statement), Len(ExportPrefix) + 1))
  ELSE Name(statement)
Value(statement) == TrimStart(From(statement, Separator(statement) + 1))

\* ParseAssignment, over its separator, key and value.
LEMMA AssignmentIs ==
  ASSUME NEW statement
  PROVE  ParseAssignment(statement) =
           IF \/ Separator(statement) > Len(statement)
              \/ ~IsKey(Key(statement)) \/ ~ParseValue(Value(statement)).valid
           THEN Malformed
           ELSE [valid |-> TRUE, key |-> Key(statement), value |-> ParseValue(Value(statement)).value]
BY DEF ParseAssignment, Separator, Name, Key, Value

\* The separator is the first equals sign of the first line, if it has one.
LEMMA SeparatorIs ==
  ASSUME NEW S, NEW statement \in Seq(S)
  PROVE  /\ Separator(statement) \in 1 .. Len(statement) + 1
         /\ Separator(statement) <= Len(statement) =>
              Separator(statement) < LineEnd(statement, 1) /\ statement[Separator(statement)] = "="
         /\ \A i \in 1 .. LineEnd(statement, 1) - 1 : statement[i] = "=" => Separator(statement) <= i
<1> DEFINE E == {i \in 1 .. LineEnd(statement, 1) - 1 : statement[i] = "="}
           end == Len(statement) + 1
           line == LineEnd(statement, 1)
           m == Min(E \cup {end})
<1>1. 1 \in Nat /\ end \in Nat /\ 1 <= end /\ end - 1 = Len(statement) /\ Len(statement) \in Nat
  OBVIOUS
<1>2. line \in 1 .. end
  <2>1. 1 \in 1 .. Len(statement) + 1
    OBVIOUS
  <2> QED BY <2>1, LineEndIs
<1> HIDE DEF line
<1>3. E \in SUBSET (1 .. end - 1) /\ \A i \in E : i < line /\ statement[i] = "="
  BY <1>1, <1>2 DEF line
<1>4. \A i \in 1 .. line - 1 : statement[i] = "=" => i \in E
  BY DEF line
<1> HIDE DEF E, end
<1>5. m \in 1 .. end /\ (\A i \in E : m <= i) /\ (m < end => m \in E)
  BY <1>1, <1>3, FirstPlace
<1>6. Separator(statement) = m
  BY DEF Separator, E, end
<1> HIDE DEF m
<1>7. m <= Len(statement) => m < line /\ statement[m] = "="
  BY <1>1, <1>3, <1>5
<1>8. \A i \in 1 .. line - 1 : statement[i] = "=" => m <= i
  BY <1>4, <1>5
<1> QED BY <1>5, <1>6, <1>7, <1>8 DEF end, line

\* The name, key and value of a statement are texts over its characters.
LEMMA ValueType ==
  ASSUME NEW S, NEW statement \in Seq(S)
  PROVE  Name(statement) \in Seq(S) /\ Key(statement) \in Seq(S) /\ Value(statement) \in Seq(S)
<1>1. Separator(statement) \in 1 .. Len(statement) + 1 /\ Len(statement) \in Nat
  BY SeparatorIs
<1>2. SubSeq(statement, 1, Separator(statement) - 1) \in Seq(S)
  BY <1>1, PartType
<1>3. Name(statement) \in Seq(S)
  BY <1>2, TrimType DEF Name
<1>4. From(statement, Separator(statement) + 1) \in Seq(S)
  BY <1>1, PartType DEF From
<1>5. Value(statement) \in Seq(S)
  BY <1>4, TrimType DEF Value
<1>6. Key(statement) \in Seq(S)
  <2> DEFINE name == Name(statement)
             next == Len(ExportPrefix) + 1
  <2>1. next \in Nat /\ next # 0
    BY DEF ExportPrefix
  <2>2. name \in Seq(S) /\ Len(name) \in Int
    BY <1>3
  <2> HIDE DEF name, next
  <2>3. From(name, next) \in Seq(S)
    BY <2>1, <2>2, PartType DEF From
  <2>4. Trim(From(name, next)) \in Seq(S)
    BY <2>3, TrimType
  <2> QED BY <2>2, <2>4 DEF Key, name, next
<1> QED BY <1>3, <1>5, <1>6

\* A comment starts at its first possible place, or there is none.
LEMMA CommentStartsIs ==
  ASSUME NEW S, NEW source \in Seq(S)
  PROVE  /\ Min(CommentStarts(source) \cup {Len(source) + 1}) \in 1 .. Len(source) + 1
         /\ \A i \in CommentStarts(source) : Min(CommentStarts(source) \cup {Len(source) + 1}) <= i
         /\ Min(CommentStarts(source) \cup {Len(source) + 1}) < Len(source) + 1 =>
              Min(CommentStarts(source) \cup {Len(source) + 1}) \in CommentStarts(source)
<1> DEFINE C == CommentStarts(source)
           end == Len(source) + 1
<1>1. 1 \in Nat /\ end \in Nat /\ 1 <= end /\ C \in SUBSET (1 .. end - 1)
  BY DEF CommentStarts
<1> HIDE DEF C, end
<1>2. /\ Min(C \cup {end}) \in 1 .. end /\ \A i \in C : Min(C \cup {end}) <= i
      /\ Min(C \cup {end}) < end => Min(C \cup {end}) \in C
  BY <1>1, FirstPlace
<1> QED BY <1>2 DEF C, end

\* A parsed value is a text over what can be decoded.
LEMMA ParseValueType ==
  ASSUME NEW S, NEW source \in Seq(S)
  PROVE  /\ ParseValue(source).valid \in BOOLEAN
         /\ ParseValue(source).valid => ParseValue(source).value \in Seq(Decodable(S))
<1>1. CASE source # <<>> /\ source[1] \in Quotes
  <2>1. ParseValue(source) = DecodeQuoted(source, source[1])
    BY <1>1 DEF ParseValue
  <2> QED BY <2>1, DecodeQuotedType
<1>2. CASE ~(source # <<>> /\ source[1] \in Quotes)
  <2> DEFINE b == Min(CommentStarts(source) \cup {Len(source) + 1}) - 1
             text == Trim(SubSeq(source, 1, b))
  <2>1. ParseValue(source) = [valid |-> TRUE, value |-> text]
    BY <1>2 DEF ParseValue
  <2>2. b \in Int /\ b <= Len(source)
    <3>1. Min(CommentStarts(source) \cup {Len(source) + 1}) \in 1 .. Len(source) + 1
      BY CommentStartsIs
    <3> QED BY <3>1
  <2> HIDE DEF b
  <2>3. source \in Seq(Decodable(S))
    <3>1. S \subseteq Decodable(S)
      BY DEF Decodable
    <3> QED BY <3>1, SeqMonotonic
  <2>4. SubSeq(source, 1, b) \in Seq(Decodable(S))
    BY <2>2, <2>3, PartType
  <2>5. text \in Seq(Decodable(S))
    BY <2>4, TrimType
  <2> HIDE DEF text
  <2> QED BY <2>1, <2>5
<1> QED BY <1>1, <1>2

\* A parsed assignment has a separator, the key and a valid value.
LEMMA AssignmentType ==
  ASSUME NEW S, NEW statement \in Seq(S)
  PROVE  /\ ParseAssignment(statement).valid \in BOOLEAN
         /\ ParseAssignment(statement).valid =>
              /\ Separator(statement) <= Len(statement)
              /\ ParseValue(Value(statement)).valid
              /\ ParseAssignment(statement).key = Key(statement)
              /\ ParseAssignment(statement).key \in Seq(S)
              /\ ParseAssignment(statement).value \in Seq(Decodable(S))
<1> DEFINE Fails == \/ Separator(statement) > Len(statement)
                    \/ ~IsKey(Key(statement)) \/ ~ParseValue(Value(statement)).valid
           key == Key(statement)
           value == ParseValue(Value(statement)).value
<1>1. CASE Fails
  <2>1. ParseAssignment(statement) = Malformed
    BY <1>1, AssignmentIs
  <2> QED BY <2>1 DEF Malformed
<1>2. CASE ~Fails
  <2>1. ParseAssignment(statement) = [valid |-> TRUE, key |-> key, value |-> value]
    BY <1>2, AssignmentIs
  <2>2. key \in Seq(S) /\ value \in Seq(Decodable(S))
    BY <1>2, ValueType, ParseValueType
  <2>3. Separator(statement) <= Len(statement) /\ ParseValue(Value(statement)).valid
    BY <1>2, SeparatorIs
  <2>4. /\ ParseAssignment(statement).valid = TRUE /\ ParseAssignment(statement).key = key
        /\ ParseAssignment(statement).value = value
    BY <2>1
  <2> QED BY <2>2, <2>3, <2>4
<1> QED BY <1>1, <1>2

(***************************************************************************)
(* A statement within its text: it ends where the second pass ends it      *)
(***************************************************************************)
LEMMA TrimStartIs ==
  ASSUME NEW S, NEW text \in Seq(S), NEW a \in Inked(text, 1, Len(text)),
         \A i \in Inked(text, 1, Len(text)) : a <= i
  PROVE  TrimStart(text) = SubSeq(text, a, Len(text))
<1>1. PICK c, b \in Inked(text, 1, Len(text)) : \A i \in Inked(text, 1, Len(text)) : c <= i /\ i <= b
  BY InkedEnds
<1>2. c = a
  BY <1>1 DEF Inked
<1> QED BY <1>1, <1>2, TrimIs

\* What a part of a part is.
LEMMA PartOfPart ==
  ASSUME NEW S, NEW text \in Seq(S), NEW a \in 1 .. Len(text) + 1, NEW b \in a - 1 .. Len(text),
         NEW c \in 1 .. b - a + 2, NEW d \in c - 1 .. b - a + 1
  PROVE  SubSeq(SubSeq(text, a, b), c, d) = SubSeq(text, a + c - 1, a + d - 1)
<1> DEFINE part == SubSeq(text, a, b)
           left == SubSeq(part, c, d)
           right == SubSeq(text, a + c - 1, a + d - 1)
<1>1. /\ part \in Seq(S) /\ Len(part) = b - a + 1
      /\ \A i \in 1 .. b - a + 1 : part[i] = text[a + i - 1]
  BY PartIs
<1>2. c \in 1 .. Len(part) + 1 /\ d \in c - 1 .. Len(part)
  BY <1>1
<1> HIDE DEF part
<1>3. left \in Seq(S) /\ Len(left) = d - c + 1 /\ \A i \in 1 .. d - c + 1 : left[i] = part[c + i - 1]
  BY <1>1, <1>2, PartIs
<1>4. a + c - 1 \in 1 .. Len(text) + 1 /\ a + d - 1 \in (a + c - 1) - 1 .. Len(text)
      /\ (a + d - 1) - (a + c - 1) + 1 = d - c + 1
  OBVIOUS
<1>5. /\ right \in Seq(S) /\ Len(right) = d - c + 1
      /\ \A i \in 1 .. d - c + 1 : right[i] = text[(a + c - 1) + i - 1]
  BY <1>4, PartIs
<1>6. ASSUME NEW i \in 1 .. d - c + 1 PROVE left[i] = right[i]
  <2>1. c + i - 1 \in 1 .. b - a + 1 /\ a + (c + i - 1) - 1 = (a + c - 1) + i - 1
    BY <1>6
  <2>2. part[c + i - 1] = text[a + (c + i - 1) - 1]
    BY <2>1, <1>1
  <2> QED BY <2>1, <2>2, <1>3, <1>5
<1> HIDE DEF left, right
<1>7. left = right
  BY <1>3, <1>5, <1>6, SameSeq
<1> QED BY <1>7 DEF left, right, part

\* The parts of a statement in a text.
SeparatorAt(text, start) ==
  Min({i \in start .. LineEnd(text, start) - 1 : text[i] = "="} \cup {LineEnd(text, start)})
ValueAt(text, start) ==
  Min(Inked(text, SeparatorAt(text, start) + 1, LineEnd(text, start) - 1) \cup {LineEnd(text, start)})
IsQuoted(text, start) ==
  ValueAt(text, start) < LineEnd(text, start) /\ text[ValueAt(text, start)] \in Quotes
QuoteEnd(text, start) == ClosingQuote(text, text[ValueAt(text, start)], ValueAt(text, start) + 1)

\* A statement ends with the line, or with the line of its closing quote.
LEMMA StatementEndIs ==
  ASSUME NEW text, NEW start
  PROVE  StatementEnd(text, start) =
           IF IsQuoted(text, start) THEN LineEnd(text, QuoteEnd(text, start)) ELSE LineEnd(text, start)
BY DEF StatementEnd, IsQuoted, QuoteEnd, ValueAt, SeparatorAt

\* The separator and the value of a statement, as places in the whole text.
LEMMA PlacesIn ==
  ASSUME NEW S, NEW text \in Seq(S), NEW start \in 1 .. Len(text) + 1
  PROVE  /\ SeparatorAt(text, start) \in start .. LineEnd(text, start)
         /\ SeparatorAt(text, start) < LineEnd(text, start) => text[SeparatorAt(text, start)] = "="
         /\ \A i \in start .. LineEnd(text, start) - 1 : text[i] = "=" => SeparatorAt(text, start) <= i
         /\ ValueAt(text, start) \in start .. LineEnd(text, start)
         /\ ValueAt(text, start) < LineEnd(text, start) =>
              SeparatorAt(text, start) < ValueAt(text, start) /\ text[ValueAt(text, start)] \notin Space
         /\ \A i \in SeparatorAt(text, start) + 1 .. LineEnd(text, start) - 1 :
              text[i] \notin Space => ValueAt(text, start) <= i
<1> DEFINE end == LineEnd(text, start)
           E == {i \in start .. end - 1 : text[i] = "="}
           sep == Min(E \cup {end})
           I == Inked(text, sep + 1, end - 1)
           val == Min(I \cup {end})
<1>1. start \in Nat /\ start # 0 /\ end \in Nat /\ start <= end /\ end <= Len(text) + 1
  BY LineEndIs
<1>2. sep = SeparatorAt(text, start) /\ val = ValueAt(text, start)
  BY DEF SeparatorAt, ValueAt
<1> HIDE DEF end
<1>3. E \in SUBSET (start .. end - 1)
  OBVIOUS
<1>4. \A i \in start .. end - 1 : text[i] = "=" <=> i \in E
  OBVIOUS
<1> HIDE DEF E
<1>5. sep \in start .. end /\ (\A i \in E : sep <= i) /\ (sep < end => sep \in E)
  BY <1>1, <1>3, FirstPlace
<1> HIDE DEF sep
<1>6. \A i \in sep + 1 .. end - 1 : i \in I <=> text[i] \notin Space
  BY DEF Inked
<1>7. I \in SUBSET (sep + 1 .. end - 1)
  BY DEF Inked
<1> HIDE DEF I
<1>8. /\ val \in start .. end /\ (\A i \in I : val <= i) /\ (val < end => val \in I)
  <2>1. I \in SUBSET (start .. end - 1)
    BY <1>1, <1>5, <1>7
  <2> QED BY <2>1, <1>1, FirstPlace
<1> HIDE DEF val
<1>9. sep < end => text[sep] = "="
  BY <1>1, <1>3, <1>4, <1>5
<1>10. val < end => sep < val /\ text[val] \notin Space
  <2> SUFFICES ASSUME val < end PROVE sep < val /\ text[val] \notin Space
    OBVIOUS
  <2>1. val \in I /\ val \in sep + 1 .. end - 1
    BY <1>7, <1>8
  <2> QED BY <2>1, <1>1, <1>5, <1>6
<1>11. \A i \in start .. end - 1 : text[i] = "=" => sep <= i
  BY <1>4, <1>5
<1>12. \A i \in sep + 1 .. end - 1 : text[i] \notin Space => val <= i
  BY <1>6, <1>8
<1> QED BY <1>2, <1>5, <1>8, <1>9, <1>10, <1>11, <1>12 DEF end

\* The opening quote lies in the text and the search ends behind it.
LEMMA QuoteEndIn ==
  ASSUME NEW S, NEW text \in Seq(S), NEW start \in 1 .. Len(text) + 1, IsQuoted(text, start)
  PROVE  /\ ValueAt(text, start) \in start .. Len(text)
         /\ QuoteEnd(text, start) \in ValueAt(text, start) + 1 .. Len(text) + 1
<1> DEFINE value == ValueAt(text, start)
<1>1. value \in start .. Len(text)
  BY PlacesIn, LineEndIs DEF IsQuoted
<1> HIDE DEF value
<1>2. value + 1 \in 1 .. Len(text) + 1
  BY <1>1
<1>3. ClosingQuote(text, text[value], value + 1) \in value + 1 .. Len(text) + 1
  BY <1>2, ScanIs
<1> QED BY <1>1, <1>3 DEF value, QuoteEnd

\* A statement ends at a line break or at the end of the text.
LEMMA StatementEndIn ==
  ASSUME NEW S, NEW text \in Seq(S), NEW start \in 1 .. Len(text) + 1
  PROVE  /\ StatementEnd(text, start) \in LineEnd(text, start) .. Len(text) + 1
         /\ StatementEnd(text, start) <= Len(text) => text[StatementEnd(text, start)] = "\n"
<1> DEFINE end == LineEnd(text, start)
<1>1. /\ end \in start .. Len(text) + 1 /\ \A i \in start .. end - 1 : text[i] # "\n"
      /\ end <= Len(text) => text[end] = "\n"
  BY LineEndIs
<1>2. CASE IsQuoted(text, start)
  <2> DEFINE closing == QuoteEnd(text, start)
             after == LineEnd(text, closing)
  <2>1. closing \in start .. Len(text) + 1 /\ closing \in 1 .. Len(text) + 1
    BY <1>2, QuoteEndIn
  <2> HIDE DEF closing
  <2>2. after \in closing .. Len(text) + 1 /\ (after <= Len(text) => text[after] = "\n")
    BY <2>1, LineEndIs
  <2>3. StatementEnd(text, start) = after
    BY <1>2, StatementEndIs DEF closing
  <2> HIDE DEF after, end
  <2>4. after >= end
    BY <2>1, <2>2, <1>1
  <2> QED BY <2>2, <2>3, <2>4, <1>1 DEF end
<1>3. CASE ~IsQuoted(text, start)
  <2>1. StatementEnd(text, start) = end
    BY <1>3, StatementEndIs
  <2> HIDE DEF end
  <2>2. end \in end .. Len(text) + 1
    BY <1>1
  <2> QED BY <2>1, <2>2, <1>1 DEF end
<1> QED BY <1>2, <1>3

\* The first line of a part that starts with a line and holds all of it.
LEMMA FirstLine ==
  ASSUME NEW S, NEW text \in Seq(S), NEW start \in 1 .. Len(text) + 1,
         NEW after \in LineEnd(text, start) .. Len(text) + 1
  PROVE  LineEnd(SubSeq(text, start, after - 1), 1) = LineEnd(text, start) - start + 1
<1> DEFINE end == LineEnd(text, start)
           part == SubSeq(text, start, after - 1)
<1>1. /\ end \in start .. Len(text) + 1 /\ \A i \in start .. end - 1 : text[i] # "\n"
      /\ end <= Len(text) => text[end] = "\n"
  BY LineEndIs
<1>2. after \in end .. Len(text) + 1 /\ start \in 1 .. Len(text) + 1
  OBVIOUS
<1> HIDE DEF end
<1>3. /\ part \in Seq(S) /\ Len(part) = after - start
      /\ \A i \in 1 .. after - start : part[i] = text[start + i - 1]
  <2>1. after - 1 \in start - 1 .. Len(text) /\ (after - 1) - start + 1 = after - start
    BY <1>1, <1>2
  <2> QED BY <2>1, <1>2, PartIs
<1> HIDE DEF part
<1> DEFINE line == end - start + 1
<1>4. 1 \in 1 .. Len(part) + 1 /\ line \in 1 .. Len(part) + 1
  BY <1>1, <1>2, <1>3
<1>5. ASSUME NEW i \in 1 .. line - 1 PROVE part[i] # "\n"
  <2>1. i \in 1 .. after - start /\ start + i - 1 \in start .. end - 1
    BY <1>1, <1>2
  <2> QED BY <2>1, <1>1, <1>3
<1>6. ASSUME line <= Len(part) PROVE part[line] = "\n"
  <2>1. line \in 1 .. after - start /\ start + line - 1 = end /\ end <= Len(text)
    BY <1>1, <1>2, <1>3, <1>6
  <2>2. part[line] = text[start + line - 1]
    BY <2>1, <1>3
  <2> QED BY <2>1, <2>2, <1>1
<1> HIDE DEF line
<1>7. LineEnd(part, 1) = line
  BY <1>3, <1>4, <1>5, <1>6, LineEndOnly
<1> QED BY <1>7 DEF line, part, end

\* The statement that starts at a place.
StatementAt(text, start) == SubSeq(text, start, StatementEnd(text, start) - 1)

\* The characters of a statement, and where its first line ends.
LEMMA StatementIs ==
  ASSUME NEW S, NEW text \in Seq(S), NEW start \in 1 .. Len(text) + 1
  PROVE  /\ StatementAt(text, start) \in Seq(S)
         /\ Len(StatementAt(text, start)) = StatementEnd(text, start) - start
         /\ \A i \in 1 .. StatementEnd(text, start) - start :
              StatementAt(text, start)[i] = text[start + i - 1]
         /\ LineEnd(StatementAt(text, start), 1) = LineEnd(text, start) - start + 1
<1> DEFINE after == StatementEnd(text, start)
<1>1. after \in LineEnd(text, start) .. Len(text) + 1
  BY StatementEndIn
<1>2. LineEnd(text, start) \in start .. Len(text) + 1
  BY LineEndIs
<1> HIDE DEF after
<1>3. after - 1 \in start - 1 .. Len(text) /\ (after - 1) - start + 1 = after - start
  BY <1>1, <1>2
<1>4. /\ SubSeq(text, start, after - 1) \in Seq(S)
      /\ Len(SubSeq(text, start, after - 1)) = after - start
      /\ \A i \in 1 .. after - start : SubSeq(text, start, after - 1)[i] = text[start + i - 1]
  BY <1>3, PartIs
<1>5. LineEnd(SubSeq(text, start, after - 1), 1) = LineEnd(text, start) - start + 1
  BY <1>1, FirstLine
<1> QED BY <1>4, <1>5 DEF StatementAt, after

\* The statement has its separator and its value where they are in the text.
LEMMA QuotedValue ==
  ASSUME NEW S, NEW text \in Seq(S), NEW start \in 1 .. Len(text) + 1, IsQuoted(text, start)
  PROVE  /\ Separator(StatementAt(text, start)) = SeparatorAt(text, start) - start + 1
         /\ Value(StatementAt(text, start)) =
              SubSeq(text, ValueAt(text, start), StatementEnd(text, start) - 1)
<1> DEFINE end == LineEnd(text, start)
           after == StatementEnd(text, start)
           sep == SeparatorAt(text, start)
           val == ValueAt(text, start)
           statement == StatementAt(text, start)
           found == Separator(statement)
<1>1. /\ statement \in Seq(S) /\ Len(statement) = after - start
      /\ \A i \in 1 .. after - start : statement[i] = text[start + i - 1]
      /\ LineEnd(statement, 1) = end - start + 1
  BY StatementIs
<1>2. after \in end .. Len(text) + 1 /\ end \in start .. Len(text) + 1 /\ start \in 1 .. Len(text) + 1
  BY StatementEndIn, LineEndIs
<1>3. /\ sep \in start .. end /\ sep < val /\ text[sep] = "="
      /\ \A i \in start .. end - 1 : text[i] = "=" => sep <= i
      /\ val \in start .. end - 1 /\ text[val] \notin Space
      /\ \A i \in sep + 1 .. end - 1 : text[i] \notin Space => val <= i
  <2>1. /\ sep \in start .. end /\ val \in start .. end
        /\ sep < end => text[sep] = "="
        /\ val < end => sep < val /\ text[val] \notin Space
    BY PlacesIn
  <2>2. \A i \in start .. end - 1 : text[i] = "=" => sep <= i
    BY PlacesIn
  <2>3. \A i \in sep + 1 .. end - 1 : text[i] \notin Space => val <= i
    BY PlacesIn
  <2>4. val < end
    BY DEF IsQuoted
  <2> HIDE DEF sep, val, end
  <2>5. sep < val /\ text[val] \notin Space
    BY <2>1, <2>4
  <2>6. sep < end /\ val \in start .. end - 1
    BY <1>2, <2>1, <2>4, <2>5
  <2>7. text[sep] = "="
    BY <2>1, <2>6
  <2> QED BY <2>1, <2>2, <2>3, <2>5, <2>6, <2>7
<1>4. /\ found \in 1 .. Len(statement) + 1
      /\ found <= Len(statement) => found < LineEnd(statement, 1) /\ statement[found] = "="
      /\ \A i \in 1 .. LineEnd(statement, 1) - 1 : statement[i] = "=" => found <= i
  BY <1>1, SeparatorIs
<1>a. statement = SubSeq(text, start, after - 1)
  BY DEF StatementAt
<1> HIDE DEF end, after, sep, val, statement, found
<1>5. found = sep - start + 1
  <2> DEFINE i == sep - start + 1
  <2>1. i \in 1 .. LineEnd(statement, 1) - 1 /\ i \in 1 .. after - start /\ start + i - 1 = sep
    BY <1>1, <1>2, <1>3
  <2>2. statement[i] = text[start + i - 1]
    BY <2>1, <1>1
  <2>3. found <= i
    BY <2>1, <2>2, <1>3, <1>4
  <2>4. found \in 1 .. after - start /\ found < end - start + 1 /\ statement[found] = "="
    BY <2>1, <2>3, <1>1, <1>4
  <2>5. text[start + found - 1] = "=" /\ start + found - 1 \in start .. end - 1
    BY <2>4, <1>1, <1>2
  <2>6. sep <= start + found - 1
    BY <2>5, <1>3
  <2> QED BY <2>3, <2>4, <2>6, <1>2, <1>3
<1> DEFINE rest == SubSeq(text, sep + 1, after - 1)
           a == val - sep
<1>6. From(statement, found + 1) = rest
  <2>1. Len(statement) = after - start /\ start \in 1 .. Len(text) + 1
    BY <1>1
  <2>2. after - 1 \in start - 1 .. Len(text) /\ found + 1 \in 1 .. (after - 1) - start + 2
        /\ after - start \in (found + 1) - 1 .. (after - 1) - start + 1
    BY <1>2, <1>3, <1>5
  <2>3. start + (found + 1) - 1 = sep + 1 /\ start + (after - start) - 1 = after - 1
    BY <1>2, <1>3, <1>5
  <2>4. SubSeq(SubSeq(text, start, after - 1), found + 1, after - start)
          = SubSeq(text, start + (found + 1) - 1, start + (after - start) - 1)
    <3> DEFINE b == after - 1
               c == found + 1
               d == after - start
    <3>1. b \in start - 1 .. Len(text) /\ c \in 1 .. b - start + 2 /\ d \in c - 1 .. b - start + 1
      BY <2>2
    <3> HIDE DEF b, c, d
    <3>2. SubSeq(SubSeq(text, start, b), c, d) = SubSeq(text, start + c - 1, start + d - 1)
      BY <3>1, PartOfPart
    <3> QED BY <3>2 DEF b, c, d
  <2> QED BY <2>1, <2>3, <2>4, <1>a DEF From
<1>7. /\ rest \in Seq(S) /\ Len(rest) = after - 1 - sep
      /\ \A i \in 1 .. after - 1 - sep : rest[i] = text[sep + i]
  <2>1. sep + 1 \in 1 .. Len(text) + 1 /\ after - 1 \in (sep + 1) - 1 .. Len(text)
        /\ (after - 1) - (sep + 1) + 1 = after - 1 - sep
    BY <1>2, <1>3
  <2>2. \A i \in 1 .. after - 1 - sep : (sep + 1) + i - 1 = sep + i
    BY <1>3
  <2>3. /\ rest \in Seq(S) /\ Len(rest) = (after - 1) - (sep + 1) + 1
        /\ \A i \in 1 .. (after - 1) - (sep + 1) + 1 : rest[i] = text[(sep + 1) + i - 1]
    BY <2>1, PartIs
  <2> HIDE DEF rest
  <2> QED BY <2>1, <2>2, <2>3
<1>8. a \in Inked(rest, 1, Len(rest)) /\ \A i \in Inked(rest, 1, Len(rest)) : a <= i
  <2>1. a \in 1 .. after - 1 - sep /\ sep + a = val
    BY <1>2, <1>3
  <2>2. rest[a] = text[val]
    BY <2>1, <1>7
  <2>3. a \in Inked(rest, 1, Len(rest))
    BY <2>1, <2>2, <1>3, <1>7 DEF Inked
  <2>4. ASSUME NEW i \in Inked(rest, 1, Len(rest)), ~(a <= i) PROVE FALSE
    <3>1. i \in 1 .. after - 1 - sep /\ rest[i] \notin Space /\ i < a
      BY <2>4, <2>1, <1>7 DEF Inked
    <3>2. text[sep + i] \notin Space /\ sep + i \in sep + 1 .. end - 1
      BY <3>1, <2>1, <1>2, <1>3, <1>7
    <3>3. val <= sep + i
      BY <3>2, <1>3
    <3> QED BY <3>1, <3>3, <2>1, <1>3
  <2> QED BY <2>3, <2>4
<1>9. TrimStart(rest) = SubSeq(rest, a, Len(rest))
  <2> HIDE DEF rest, a
  <2> QED BY <1>7, <1>8, TrimStartIs
<1>10. SubSeq(rest, a, Len(rest)) = SubSeq(text, val, after - 1)
  <2>1. /\ sep + 1 \in 1 .. Len(text) + 1 /\ after - 1 \in (sep + 1) - 1 .. Len(text)
        /\ a \in 1 .. (after - 1) - (sep + 1) + 2
        /\ after - 1 - sep \in a - 1 .. (after - 1) - (sep + 1) + 1
    BY <1>2, <1>3
  <2>2. (sep + 1) + a - 1 = val /\ (sep + 1) + (after - 1 - sep) - 1 = after - 1
    BY <1>2, <1>3
  <2>3. Len(rest) = after - 1 - sep
    BY <1>7
  <2> HIDE DEF a
  <2>4. SubSeq(SubSeq(text, sep + 1, after - 1), a, after - 1 - sep)
          = SubSeq(text, (sep + 1) + a - 1, (sep + 1) + (after - 1 - sep) - 1)
    <3> DEFINE o == sep + 1
               b == after - 1
               d == after - 1 - sep
    <3>1. /\ o \in 1 .. Len(text) + 1 /\ b \in o - 1 .. Len(text)
          /\ a \in 1 .. b - o + 2 /\ d \in a - 1 .. b - o + 1
      BY <2>1
    <3> HIDE DEF o, b, d
    <3>2. SubSeq(SubSeq(text, o, b), a, d) = SubSeq(text, o + a - 1, o + d - 1)
      BY <3>1, PartOfPart
    <3> QED BY <3>2 DEF o, b, d
  <2> QED BY <2>2, <2>3, <2>4
<1>11. Value(statement) = SubSeq(text, val, after - 1)
  BY <1>6, <1>9, <1>10 DEF Value, found
<1> QED BY <1>5, <1>11 DEF sep, val, after, statement, found

\* An assignment that is accepted has closed its quote.
LEMMA AcceptedCloses ==
  ASSUME NEW S, NEW text \in Seq(S), NEW start \in 1 .. Len(text) + 1, IsQuoted(text, start),
         ParseAssignment(StatementAt(text, start)).valid
  PROVE  QuoteEnd(text, start) \in ValueAt(text, start) + 1 .. StatementEnd(text, start) - 1
<1> DEFINE val == ValueAt(text, start)
           after == StatementEnd(text, start)
           quote == text[val]
           source == SubSeq(text, val, after - 1)
<1>1. Value(StatementAt(text, start)) = source
  BY QuotedValue
<1>2. ParseValue(source).valid
  <2>1. StatementAt(text, start) \in Seq(S)
    BY StatementIs
  <2> QED BY <2>1, <1>1, AssignmentType
<1>3. val \in start .. Len(text) /\ val < LineEnd(text, start)
  BY QuoteEndIn DEF IsQuoted
<1>4. after \in LineEnd(text, start) .. Len(text) + 1 /\ LineEnd(text, start) \in start .. Len(text) + 1
  BY StatementEndIn, LineEndIs
<1>5. val \in 1 .. Len(text) /\ after \in val + 1 .. Len(text) + 1
  BY <1>3, <1>4
<1>6. quote \in Quotes
  BY DEF IsQuoted
<1> HIDE DEF val, after
<1>7. source # <<>> /\ source[1] = quote
  <2>1. val \in 1 .. Len(text) + 1 /\ after - 1 \in val - 1 .. Len(text)
        /\ 1 \in 1 .. (after - 1) - val + 1
    BY <1>5
  <2>2. Len(source) = (after - 1) - val + 1 /\ source[1] = text[val + 1 - 1]
    BY <2>1, PartIs
  <2>3. val + 1 - 1 = val /\ (after - 1) - val + 1 # 0
    BY <1>5
  <2> QED BY <2>2, <2>3
<1>8. DecodeQuoted(source, quote).valid
  BY <1>2, <1>6, <1>7 DEF ParseValue
<1>9. ClosingQuote(text, quote, val + 1) \in val + 1 .. after - 1
  BY <1>5, <1>8, PassesAgree
<1> QED BY <1>9 DEF val, after, QuoteEnd

(***************************************************************************)
(* The loop of parseImport                                                 *)
(***************************************************************************)
Secret(S) == [key : Seq(S), value : Seq(Decodable(S)), environment : Seq(S)]
ReadState(S) == [start : Nat, environment : Seq(S), secrets : Seq(Secret(S)), valid : BOOLEAN]
ReadStart == [start |-> 1, environment |-> <<>>, secrets |-> <<>>, valid |-> TRUE]

LineAt(text, start) == Trim(SubSeq(text, start, LineEnd(text, start) - 1))
Skips(text, start) == LineAt(text, start) = <<>> \/ LineAt(text, start)[1] \in {"#", ";"}
Brackets(text, start) == ~Skips(text, start) /\ LineAt(text, start)[1] = "["
AssignmentAt(text, start) == ParseAssignment(StatementAt(text, start))
SecretAt(text, state) ==
  [key |-> AssignmentAt(text, state.start).key, value |-> AssignmentAt(text, state.start).value,
   environment |-> state.environment]

State(start, environment, secrets, valid) ==
  [start |-> start, environment |-> environment, secrets |-> secrets, valid |-> valid]

\* A state of the reader is the record of its four parts.
LEMMA StateIs ==
  ASSUME NEW S, NEW state \in ReadState(S)
  PROVE  /\ state = State(state.start, state.environment, state.secrets, state.valid)
         /\ state.start \in Nat /\ state.environment \in Seq(S)
         /\ state.secrets \in Seq(Secret(S)) /\ state.valid \in BOOLEAN
BY DEF ReadState, State

\* The states the updates of ReadStatement lead to.
LEMMA StateExcept ==
  ASSUME NEW S, NEW r \in ReadState(S), NEW s, NEW e
  PROVE  /\ [r EXCEPT !.start = s] = State(s, r.environment, r.secrets, r.valid)
         /\ [r EXCEPT !.valid = e] = State(r.start, r.environment, r.secrets, e)
         /\ [r EXCEPT !.start = s, !.environment = e] = State(s, e, r.secrets, r.valid)
         /\ [r EXCEPT !.start = s, !.secrets = e] = State(s, r.environment, e, r.valid)
<1> DEFINE fields == {"start", "environment", "secrets", "valid"}
<1>1. r = [k \in fields |-> r[k]]
  BY DEF ReadState
<1>2. ASSUME NEW f, f = [k \in fields |-> f[k]]
      PROVE  f = State(f.start, f.environment, f.secrets, f.valid)
  BY <1>2 DEF State
<1>3. [r EXCEPT !.start = s] = State(s, r.environment, r.secrets, r.valid)
  BY <1>1 DEF State
<1>4. [r EXCEPT !.valid = e] = State(r.start, r.environment, r.secrets, e)
  BY <1>1 DEF State
<1>5. [r EXCEPT !.start = s, !.environment = e] = State(s, e, r.secrets, r.valid)
  <2> DEFINE f == [r EXCEPT !.start = s, !.environment = e]
  <2>1. f.start = s
    BY <1>1
  <2>2. f.environment = e
    BY <1>1
  <2>3. f.secrets = r.secrets
    BY <1>1
  <2>4. f.valid = r.valid
    BY <1>1
  <2>5. f = [k \in fields |-> f[k]]
    BY <1>1
  <2> HIDE DEF f
  <2> QED BY <2>1, <2>2, <2>3, <2>4, <2>5, <1>2 DEF f
<1>6. [r EXCEPT !.start = s, !.secrets = e] = State(s, r.environment, e, r.valid)
  <2> DEFINE f == [r EXCEPT !.start = s, !.secrets = e]
  <2>1. f.start = s
    BY <1>1
  <2>2. f.environment = r.environment
    BY <1>1
  <2>3. f.secrets = e
    BY <1>1
  <2>4. f.valid = r.valid
    BY <1>1
  <2>5. f = [k \in fields |-> f[k]]
    BY <1>1
  <2> HIDE DEF f
  <2> QED BY <2>1, <2>2, <2>3, <2>4, <2>5, <1>2 DEF f
<1> QED BY <1>3, <1>4, <1>5, <1>6

\* A round changes nothing once the text is refused or read.
LEMMA RoundStops ==
  ASSUME NEW text, NEW state, ~state.valid \/ state.start > Len(text) + 1
  PROVE  ReadStatement(text, state) = state
BY DEF ReadStatement

Round1(text, state) ==
  LET start == state.start
      end == LineEnd(text, start)
      line == LineAt(text, start)
  IN  IF Skips(text, start) THEN [state EXCEPT !.start = end + 1]
      ELSE IF line[1] = "[" THEN
        IF IsSection(line) THEN [state EXCEPT !.start = end + 1, !.environment = Section(line)]
        ELSE [state EXCEPT !.valid = FALSE]
      ELSE IF AssignmentAt(text, start).valid THEN
        [state EXCEPT !.start = StatementEnd(text, start) + 1,
                      !.secrets = Append(state.secrets, SecretAt(text, state))]
      ELSE [state EXCEPT !.valid = FALSE]

\* Otherwise a round reads the statement at its start.
LEMMA RoundIs ==
  ASSUME NEW text, NEW state, state.valid, ~(state.start > Len(text) + 1)
  PROVE  ReadStatement(text, state) = Round1(text, state)
BY DEF ReadStatement, Round1, Skips, LineAt, AssignmentAt, StatementAt, SecretAt

\* A blank line or a comment is skipped.
LEMMA RoundSkips ==
  ASSUME NEW S, NEW text, NEW state \in ReadState(S), state.valid, ~(state.start > Len(text) + 1),
         Skips(text, state.start)
  PROVE  ReadStatement(text, state) =
           State(LineEnd(text, state.start) + 1, state.environment, state.secrets, TRUE)
<1>1. ReadStatement(text, state) = [state EXCEPT !.start = LineEnd(text, state.start) + 1]
  BY RoundIs DEF Round1
<1>2. state.valid = TRUE
  BY StateIs
<1> QED BY <1>1, <1>2, StateExcept

\* A section header names the environment of what follows.
LEMMA RoundSection ==
  ASSUME NEW S, NEW text, NEW state \in ReadState(S), state.valid, ~(state.start > Len(text) + 1),
         Brackets(text, state.start), IsSection(LineAt(text, state.start))
  PROVE  ReadStatement(text, state) =
           State(LineEnd(text, state.start) + 1, Section(LineAt(text, state.start)), state.secrets, TRUE)
<1>1. ReadStatement(text, state) =
        [state EXCEPT !.start = LineEnd(text, state.start) + 1,
                      !.environment = Section(LineAt(text, state.start))]
  BY RoundIs DEF Round1, Brackets
<1>2. state.valid = TRUE
  BY StateIs
<1>3. \A s, e : [state EXCEPT !.start = s, !.environment = e] = State(s, e, state.secrets, state.valid)
  BY StateExcept
<1> QED BY <1>1, <1>2, <1>3

\* A valid assignment adds its secret and goes on behind the statement.
LEMMA RoundAssigns ==
  ASSUME NEW S, NEW text, NEW state \in ReadState(S), state.valid, ~(state.start > Len(text) + 1),
         ~Skips(text, state.start), ~Brackets(text, state.start),
         AssignmentAt(text, state.start).valid
  PROVE  ReadStatement(text, state) =
           State(StatementEnd(text, state.start) + 1, state.environment,
                 Append(state.secrets, SecretAt(text, state)), TRUE)
<1>1. ReadStatement(text, state) =
        [state EXCEPT !.start = StatementEnd(text, state.start) + 1,
                      !.secrets = Append(state.secrets, SecretAt(text, state))]
  BY RoundIs DEF Round1, Brackets
<1>2. state.valid = TRUE
  BY StateIs
<1>3. \A s, e : [state EXCEPT !.start = s, !.secrets = e] = State(s, state.environment, e, state.valid)
  BY StateExcept
<1> QED BY <1>1, <1>2, <1>3

\* A malformed header or assignment refuses the whole text.
LEMMA RoundFails ==
  ASSUME NEW S, NEW text, NEW state \in ReadState(S), state.valid, ~(state.start > Len(text) + 1),
         ~Skips(text, state.start),
         IF Brackets(text, state.start) THEN ~IsSection(LineAt(text, state.start))
         ELSE ~AssignmentAt(text, state.start).valid
  PROVE  ReadStatement(text, state) =
           State(state.start, state.environment, state.secrets, FALSE)
<1>1. ReadStatement(text, state) = [state EXCEPT !.valid = FALSE]
  BY RoundIs DEF Round1, Brackets
<1> QED BY <1>1, StateExcept

\* A round goes on to a later line, is at the end, or fails.
LEMMA RoundType ==
  ASSUME NEW S, NEW text \in Seq(S), NEW state \in ReadState(S), state.start # 0
  PROVE  /\ ReadStatement(text, state) \in ReadState(S)
         /\ state.start <= ReadStatement(text, state).start
         /\ ~state.valid => ~ReadStatement(text, state).valid
         /\ ReadStatement(text, state).valid /\ state.start <= Len(text) + 1 =>
              state.start < ReadStatement(text, state).start
<1> DEFINE next == ReadStatement(text, state)
           start == state.start
<1>1. start \in Nat /\ state.environment \in Seq(S) /\ state.secrets \in Seq(Secret(S)) /\ state.valid \in BOOLEAN
  BY StateIs
<1> HIDE DEF next
<1>3. ASSUME NEW s \in Nat, NEW e \in Seq(S), NEW secrets \in Seq(Secret(S)), NEW v \in BOOLEAN,
             next = State(s, e, secrets, v)
      PROVE  next \in ReadState(S) /\ next.start = s /\ next.valid = v
  BY <1>3 DEF ReadState, State
<1>4. CASE ~state.valid \/ start > Len(text) + 1
  BY <1>1, <1>4, RoundStops DEF next
<1>5. CASE state.valid /\ ~(start > Len(text) + 1)
  <2>1. start \in 1 .. Len(text) + 1
    BY <1>1, <1>5
  <2> DEFINE end == LineEnd(text, start)
             after == StatementEnd(text, start)
             line == LineAt(text, start)
  <2>2. end \in start .. Len(text) + 1 /\ after \in end .. Len(text) + 1
    BY <2>1, LineEndIs, StatementEndIn
  <2>3. line \in Seq(S)
    <3>1. end - 1 \in Int /\ end - 1 <= Len(text) /\ start \in Nat /\ start # 0
      BY <2>1, <2>2
    <3> HIDE DEF end
    <3>2. SubSeq(text, start, end - 1) \in Seq(S)
      BY <3>1, PartType
    <3> QED BY <3>2, TrimType DEF LineAt, end
  <2> HIDE DEF end, after, line
  <2>9. end + 1 \in Nat /\ after + 1 \in Nat /\ TRUE \in BOOLEAN
    BY <2>1, <2>2
  <2>4. CASE Skips(text, start)
    <3>1. next = State(end + 1, state.environment, state.secrets, TRUE)
      BY <1>5, <2>4, RoundSkips DEF next, end
    <3>2. next \in ReadState(S) /\ next.start = end + 1
      BY <3>1, <2>9, <1>1, <1>3
    <3> QED BY <3>2, <2>1, <2>2, <1>5 DEF next
  <2>5. CASE Brackets(text, start) /\ IsSection(line)
    <3>1. next = State(end + 1, Section(line), state.secrets, TRUE)
      BY <1>5, <2>5, RoundSection DEF next, end, line
    <3>2. Section(line) \in Seq(S)
      <4>1. SubSeq(line, 2, Len(line) - 1) \in Seq(S)
        BY <2>3, PartType
      <4>2. Trim(SubSeq(line, 2, Len(line) - 1)) \in Seq(S)
        BY <4>1, TrimType
      <4>3. <<>> \in Seq(S)
        OBVIOUS
      <4> QED BY <4>2, <4>3 DEF Section
    <3>3. next \in ReadState(S) /\ next.start = end + 1
      BY <3>1, <3>2, <2>9, <1>1, <1>3
    <3> QED BY <3>3, <2>1, <2>2, <1>5 DEF next
  <2>6. CASE ~Skips(text, start) /\ ~Brackets(text, start) /\ AssignmentAt(text, start).valid
    <3>1. next = State(after + 1, state.environment, Append(state.secrets, SecretAt(text, state)), TRUE)
      BY <1>5, <2>6, RoundAssigns DEF next, after
    <3>2. StatementAt(text, start) \in Seq(S)
      BY <2>1, StatementIs
    <3>3. /\ AssignmentAt(text, start).key \in Seq(S)
          /\ AssignmentAt(text, start).value \in Seq(Decodable(S))
      BY <3>2, <2>6, AssignmentType DEF AssignmentAt
    <3>4. SecretAt(text, state) \in Secret(S)
      BY <3>3, <1>1 DEF SecretAt, Secret
    <3>5. Append(state.secrets, SecretAt(text, state)) \in Seq(Secret(S))
      BY <3>4, <1>1, AppendProperties
    <3>6. next \in ReadState(S) /\ next.start = after + 1
      BY <3>1, <3>5, <2>9, <1>1, <1>3
    <3> QED BY <3>6, <2>1, <2>2, <1>5 DEF next
  <2>7. CASE ~Skips(text, start) /\ IF Brackets(text, start) THEN ~IsSection(line)
                                    ELSE ~AssignmentAt(text, start).valid
    <3>1. next = State(start, state.environment, state.secrets, FALSE)
      BY <1>5, <2>7, RoundFails DEF next, line
    <3>2. next \in ReadState(S) /\ next.start = start /\ next.valid = FALSE
      BY <3>1, <1>1, <1>3
    <3> QED BY <3>2, <1>1, <1>5 DEF next
  <2>8. Skips(text, start) => ~Brackets(text, start)
    BY DEF Brackets
  <2> QED BY <2>4, <2>5, <2>6, <2>7, <2>8
<1> QED BY <1>1, <1>4, <1>5

Read(text) ==
  CHOOSE f : f = [n \in Nat |-> IF n = 0 THEN [start |-> 1, environment |-> <<>>, secrets |-> <<>>, valid |-> TRUE]
                                ELSE ReadStatement(text, f[n - 1])]
Reads(S) == {state \in ReadState(S) : state.start # 0}
ReadStep(S, text) == [state \in Reads(S) |-> ReadStatement(text, state)]

\* The states of the reader, one after the other.
LEMMA ReadRuns ==
  ASSUME NEW S, NEW text \in Seq(S)
  PROVE  /\ Read(text) \in [Nat -> Reads(S)]
         /\ Read(text)[0] = ReadStart
         /\ \A n \in Nat : Read(text)[n + 1] = ReadStatement(text, Read(text)[n])
         /\ Statements(text) = Read(text)[Len(text) + 1]
<1> DEFINE start == ReadStart
           step == ReadStep(S, text)
           Typed == Reads(S)
           r == Read(text)
<1>0. Statements(text) = r[Len(text) + 1]
  BY DEF Statements, Read
<1>1. start \in Typed
  <2>1. <<>> \in Seq(S) /\ <<>> \in Seq(Secret(S)) /\ 1 \in Nat
    OBVIOUS
  <2> QED BY <2>1 DEF ReadStart, Reads, ReadState
<1>2. /\ step \in [Typed -> Typed]
      /\ \A state \in Typed : step[state] = ReadStatement(text, state)
  <2>1. ASSUME NEW state \in Typed PROVE ReadStatement(text, state) \in Typed
    <3>1. state \in ReadState(S) /\ state.start # 0
      BY DEF Reads
    <3>2. ReadStatement(text, state) \in ReadState(S) /\ state.start <= ReadStatement(text, state).start
      BY <3>1, RoundType
    <3>3. ReadStatement(text, state).start # 0
      BY <3>1, <3>2 DEF ReadState
    <3> QED BY <3>2, <3>3 DEF Reads
  <2> HIDE DEF Typed
  <2> QED BY <2>1 DEF ReadStep, Typed
<1> HIDE DEF step, start, Typed
<1>3. \E f : f = [n \in Nat |-> IF n = 0 THEN start ELSE ReadStatement(text, f[n - 1])]
  <2>1. PICK f \in [Nat -> Typed] : IsRecursion(f, start, step)
    BY <1>1, <1>2, LoopRecursion
  <2>2. \A n \in Nat \ {0} : n - 1 \in Nat
    OBVIOUS
  <2> QED BY <1>2, <2>1, <2>2 DEF IsRecursion
<1>4. r = [n \in Nat |-> IF n = 0 THEN start ELSE ReadStatement(text, r[n - 1])]
  BY <1>3 DEF Read, ReadStart, start
<1> HIDE DEF r
<1>5. /\ r = [n \in Nat |-> r[n]] /\ r[0] = start
      /\ \A n \in Nat : r[n + 1] = ReadStatement(text, r[n])
  <2>1. \A n \in Nat : n + 1 \in Nat /\ n + 1 # 0 /\ (n + 1) - 1 = n
    OBVIOUS
  <2> QED BY <1>4, <2>1
<1>6. Follows(r, start, step, Typed)
  BY <1>2, <1>5 DEF Follows
<1>7. r \in [Nat -> Typed] /\ IsLoop(r, start, step)
  BY <1>1, <1>2, <1>6, LoopType
<1> QED BY <1>0, <1>5, <1>7 DEF r, start, Typed

\* Once the loop is at the end, the result is there.
LEMMA ReadEnds ==
  ASSUME NEW S, NEW text \in Seq(S), NEW n \in Nat, n <= Len(text) + 1,
         Read(text)[n].start > Len(text) + 1
  PROVE  Statements(text) = Read(text)[n]
<1> DEFINE r == Read(text)
           m == Len(text) + 1
<1>1. /\ \A k \in Nat : r[k + 1] = ReadStatement(text, r[k])
      /\ Statements(text) = r[m]
  BY ReadRuns
<1>2. ASSUME NEW k \in Nat, r[k] = r[n] PROVE r[k + 1] = r[n]
  <2>1. ReadStatement(text, r[k]) = r[k]
    BY <1>2, RoundStops
  <2> QED BY <2>1, <1>1, <1>2
<1>3. m \in Nat /\ n <= m
  OBVIOUS
<1> HIDE DEF r, m
<1>4. r[m] = r[n]
  BY <1>2, <1>3, LoopStays
<1> QED BY <1>1, <1>4 DEF r

\* A text that is accepted: no round fails, and it is read to its end.
LEMMA ReadAccepts ==
  ASSUME NEW S, NEW text \in Seq(S), Statements(text).valid
  PROVE  /\ \A n \in Nat : Read(text)[n].valid
         /\ Statements(text).start > Len(text) + 1
<1> DEFINE r == Read(text)
           m == Len(text) + 1
<1>1. /\ \A k \in Nat : r[k] \in ReadState(S) /\ r[k].start \in Nat /\ r[k].start # 0
      /\ \A k \in Nat : r[k + 1] = ReadStatement(text, r[k])
      /\ Statements(text) = r[m] /\ r[m].valid
  <2>1. r \in [Nat -> Reads(S)]
    BY ReadRuns
  <2>2. ASSUME NEW k \in Nat PROVE r[k] \in ReadState(S) /\ r[k].start \in Nat /\ r[k].start # 0
    BY <2>1 DEF Reads, ReadState
  <2>3. /\ \A k \in Nat : r[k + 1] = ReadStatement(text, r[k])
        /\ Statements(text) = r[m]
    BY ReadRuns
  <2> QED BY <2>2, <2>3
<1>2. m \in Nat /\ Len(text) \in Nat /\ m > 0
  OBVIOUS
<1>3. ASSUME NEW k \in Nat, r[k].start > Len(text) + 1 PROVE r[k + 1] = r[k]
  BY <1>1, <1>3, RoundStops
<1>4. ASSUME NEW k \in Nat, ~r[k].valid PROVE r[k + 1] = r[k]
  BY <1>1, <1>4, RoundStops
<1>5. ASSUME NEW k \in Nat, r[k + 1].valid, r[k].start <= Len(text) + 1
      PROVE  r[k].start < r[k + 1].start
  <2>1. r[k] \in ReadState(S) /\ r[k].start # 0 /\ ReadStatement(text, r[k]) = r[k + 1]
    BY <1>1
  <2> QED BY <2>1, <1>5, RoundType
<1>a. r[0].start = 1
  <2>1. r[0] = ReadStart
    BY ReadRuns
  <2> QED BY <2>1 DEF ReadStart
<1> HIDE DEF r, m
<1>6. ASSUME NEW n \in Nat, n <= m PROVE r[n].valid
  <2> SUFFICES ASSUME ~r[n].valid PROVE FALSE
    OBVIOUS
  <2>1. ASSUME NEW k \in Nat, r[k] = r[n] PROVE r[k + 1] = r[n]
    BY <2>1, <1>4
  <2>2. r[m] = r[n]
    BY <2>1, <1>2, <1>6, LoopStays
  <2> QED BY <2>2, <1>1
<1> DEFINE On == {n \in Nat : n <= m => r[n].start > Len(text) + 1 \/ r[n].start >= n + 1}
<1>7. \A n \in Nat : n \in On
  <2>1. 0 \in On
    BY <1>a
  <2>2. ASSUME NEW n \in Nat, n \in On PROVE n + 1 \in On
    <3> SUFFICES ASSUME n + 1 <= m
                 PROVE  r[n + 1].start > Len(text) + 1 \/ r[n + 1].start >= (n + 1) + 1
      OBVIOUS
    <3>1. r[n + 1].valid /\ n <= m /\ r[n].start \in Nat /\ r[n + 1].start \in Nat
      <4>1. n + 1 \in Nat /\ n <= m
        BY <1>2
      <4>2. r[n + 1].valid
        BY <4>1, <1>6
      <4> QED BY <4>1, <4>2, <1>1
    <3>2. CASE r[n].start > Len(text) + 1
      BY <3>2, <1>3
    <3>3. CASE ~(r[n].start > Len(text) + 1)
      <4>1. r[n].start <= Len(text) + 1 /\ r[n].start >= n + 1
        BY <3>1, <3>3, <2>2, <1>2
      <4>2. r[n].start < r[n + 1].start
        BY <3>1, <4>1, <1>5
      <4> QED BY <4>1, <4>2, <3>1
    <3> QED BY <3>2, <3>3
  <2> HIDE DEF On
  <2> QED BY <2>1, <2>2, Induction
<1>8. r[m].start > Len(text) + 1
  <2>1. r[m].start > Len(text) + 1 \/ r[m].start >= m + 1
    BY <1>2, <1>7
  <2>2. m + 1 > Len(text) + 1 /\ r[m].start \in Nat
    BY <1>1, <1>2 DEF m
  <2> QED BY <2>1, <2>2, <1>2
<1>9. ASSUME NEW n \in Nat, m <= n PROVE r[n].valid
  <2>1. ASSUME NEW k \in Nat, r[k] = r[m] PROVE r[k + 1] = r[m]
    BY <2>1, <1>3, <1>8
  <2>2. r[n] = r[m]
    BY <2>1, <1>2, <1>9, LoopStays
  <2> QED BY <2>2, <1>1
<1>10. \A n \in Nat : r[n].valid
  BY <1>2, <1>6, <1>9
<1> QED BY <1>1, <1>8, <1>10 DEF r

(***************************************************************************)
(* Two texts that are the same but for what follows their last line        *)
(***************************************************************************)
\* Two texts that are the same up to a length: behind it the one ends, but for a
\* carriage return, and the other goes on with a newline.
Twins(S, short, long, length) ==
  /\ short \in Seq(S) /\ long \in Seq(S) /\ length \in Nat
  /\ \A i \in 1 .. length : short[i] = long[i]
  /\ Len(short) = length \/ (Len(short) = length + 1 /\ short[length + 1] = "\r")
  /\ Len(long) >= length + 1 /\ long[length + 1] = "\n"

\* Places in either behind which a line, or a statement, ends.
Ends(short, length, a, b) == (a = b /\ b <= length) \/ (a = Len(short) + 1 /\ b = length + 1)

\* The facts about twin texts that the lemmas below use.
LEMMA TwinsAre ==
  ASSUME NEW S, NEW short, NEW long, NEW length, Twins(S, short, long, length)
  PROVE  /\ short \in Seq(S) /\ long \in Seq(S) /\ length \in Nat
         /\ Len(short) \in Nat /\ Len(long) \in Nat
         /\ length <= Len(short) /\ Len(short) <= length + 1 /\ length + 1 <= Len(long)
         /\ \A i \in 1 .. length : short[i] = long[i]
         /\ Len(short) = length + 1 => short[length + 1] = "\r"
         /\ long[length + 1] = "\n"
BY DEF Twins

\* Lines of twin texts end together, up to the carriage return.
LEMMA LineEndTwins ==
  ASSUME NEW S, NEW short, NEW long, NEW length, Twins(S, short, long, length),
         NEW offset \in 1 .. length + 1
  PROVE  Ends(short, length, LineEnd(short, offset), LineEnd(long, offset))
<1> DEFINE a == LineEnd(short, offset)
           b == LineEnd(long, offset)
<1>1. /\ short \in Seq(S) /\ long \in Seq(S) /\ length \in Nat
      /\ Len(short) \in Nat /\ Len(long) \in Nat
      /\ length <= Len(short) /\ Len(short) <= length + 1 /\ length + 1 <= Len(long)
      /\ \A i \in 1 .. length : short[i] = long[i]
      /\ Len(short) = length + 1 => short[length + 1] = "\r"
      /\ long[length + 1] = "\n"
  BY TwinsAre
<1>2. offset \in 1 .. Len(short) + 1 /\ offset \in 1 .. Len(long) + 1
  BY <1>1
<1>3. /\ b \in offset .. Len(long) + 1 /\ \A i \in offset .. b - 1 : long[i] # "\n"
      /\ b <= Len(long) => long[b] = "\n"
  BY <1>1, <1>2, LineEndIs
<1> HIDE DEF b
<1>4. b <= length + 1
  <2> SUFFICES ASSUME b > length + 1 PROVE FALSE
    BY <1>1, <1>3
  <2>1. length + 1 \in offset .. b - 1
    BY <1>1, <1>3
  <2> QED BY <2>1, <1>1, <1>3
<1>5. CASE b <= length
  <2>1. b \in offset .. Len(short) + 1
    BY <1>1, <1>3, <1>5
  <2>2. ASSUME NEW i \in offset .. b - 1 PROVE short[i] # "\n"
    BY <2>2, <1>1, <1>3, <1>5
  <2>3. short[b] = "\n"
    BY <1>1, <1>2, <1>3, <1>5
  <2>4. a = b
    BY <2>1, <2>2, <2>3, <1>1, <1>2, LineEndOnly
  <2> QED BY <2>4, <1>5 DEF Ends, b
<1>6. CASE b = length + 1
  <2> DEFINE end == Len(short) + 1
  <2>1. end \in offset .. Len(short) + 1
    BY <1>1, <1>2
  <2>2. ASSUME NEW i \in offset .. end - 1 PROVE short[i] # "\n"
    <3>1. CASE i <= length
      <4>1. i \in offset .. b - 1 /\ i \in 1 .. length
        BY <3>1, <2>2, <1>1, <1>6
      <4> QED BY <4>1, <1>1, <1>3
    <3>2. CASE ~(i <= length)
      <4>1. i = length + 1 /\ Len(short) = length + 1
        BY <3>2, <2>2, <1>1
      <4> QED BY <4>1, <1>1
    <3> QED BY <3>1, <3>2
  <2>3. ~(end <= Len(short))
    BY <1>1
  <2> HIDE DEF end
  <2>4. a = end
    BY <2>1, <2>2, <2>3, <1>1, <1>2, LineEndOnly
  <2> QED BY <2>4, <1>6 DEF Ends, b, end
<1> QED BY <1>1, <1>3, <1>4, <1>5, <1>6

\* The same, or the same with a carriage return at its end.
Alike(s, t) == s = t \/ s = t \o <<"\r">>

\* What twin texts hold up to such ends is alike.
LEMMA PartTwins ==
  ASSUME NEW S, NEW short, NEW long, NEW length, Twins(S, short, long, length),
         NEW start \in 1 .. length + 1, NEW a, NEW b \in Nat, start <= b, Ends(short, length, a, b)
  PROVE  /\ Alike(SubSeq(short, start, a - 1), SubSeq(long, start, b - 1))
         /\ SubSeq(short, start, a - 1) \in Seq(S) /\ SubSeq(long, start, b - 1) \in Seq(S)
<1> DEFINE s == SubSeq(short, start, a - 1)
           t == SubSeq(long, start, b - 1)
<1>1. /\ short \in Seq(S) /\ long \in Seq(S) /\ length \in Nat
      /\ Len(short) \in Nat /\ Len(long) \in Nat
      /\ length <= Len(short) /\ Len(short) <= length + 1 /\ length + 1 <= Len(long)
      /\ \A i \in 1 .. length : short[i] = long[i]
      /\ Len(short) = length + 1 => short[length + 1] = "\r"
  BY TwinsAre
<1>2. a \in Nat /\ a >= b /\ a <= Len(short) + 1 /\ b <= length + 1
  BY <1>1 DEF Ends
<1>3. /\ s \in Seq(S) /\ Len(s) = a - start /\ \A i \in 1 .. a - start : s[i] = short[start + i - 1]
  <2>1. start \in 1 .. Len(short) + 1 /\ a - 1 \in start - 1 .. Len(short) /\ (a - 1) - start + 1 = a - start
    BY <1>1, <1>2
  <2> QED BY <2>1, <1>1, PartIs
<1>4. /\ t \in Seq(S) /\ Len(t) = b - start /\ \A i \in 1 .. b - start : t[i] = long[start + i - 1]
  <2>1. start \in 1 .. Len(long) + 1 /\ b - 1 \in start - 1 .. Len(long) /\ (b - 1) - start + 1 = b - start
    BY <1>1, <1>2
  <2> QED BY <2>1, <1>1, PartIs
<1> HIDE DEF s, t
<1>5. \A i \in 1 .. b - start : s[i] = t[i]
  <2>1. ASSUME NEW i \in 1 .. b - start PROVE s[i] = t[i]
    <3>1. i \in 1 .. a - start /\ start + i - 1 \in 1 .. length
      BY <1>1, <1>2
    <3> QED BY <3>1, <1>1, <1>3, <1>4
  <2> QED BY <2>1
<1>6. CASE a = b
  <2>1. s = t
    BY <1>3, <1>4, <1>5, <1>6, SameSeq
  <2> QED BY <2>1, <1>3, <1>4 DEF Alike, s, t
<1>7. CASE a # b
  <2>1. a = length + 2 /\ b = length + 1 /\ Len(short) = length + 1
    BY <1>1, <1>7 DEF Ends
  <2>2. "\r" \in S
    <3>1. short[length + 1] \in S
      BY <2>1, <1>1
    <3> QED BY <3>1, <2>1, <1>1
  <2> DEFINE w == t \o <<"\r">>
  <2>3. /\ w \in Seq(S) /\ Len(w) = Len(t) + 1 /\ w[Len(t) + 1] = "\r"
        /\ \A i \in 1 .. Len(t) : w[i] = t[i]
    BY <2>2, <1>4
  <2> HIDE DEF w
  <2>4. Len(t) = length + 1 - start /\ Len(s) = Len(t) + 1 /\ Len(t) \in Nat
    BY <2>1, <1>1, <1>3, <1>4
  <2>5. s[Len(t) + 1] = "\r"
    <3>1. Len(t) + 1 \in 1 .. a - start /\ start + (Len(t) + 1) - 1 = length + 1
      BY <2>1, <2>4, <1>1
    <3>2. s[Len(t) + 1] = short[start + (Len(t) + 1) - 1]
      BY <3>1, <1>3
    <3> QED BY <3>1, <3>2, <2>1, <1>1
  <2>6. ASSUME NEW i \in 1 .. Len(s) PROVE s[i] = w[i]
    <3>1. CASE i = Len(t) + 1
      BY <3>1, <2>3, <2>5
    <3>2. CASE i # Len(t) + 1
      <4>1. i \in 1 .. Len(t) /\ i \in 1 .. b - start
        BY <3>2, <2>4, <1>4
      <4> QED BY <4>1, <2>3, <1>5
    <3> QED BY <3>1, <3>2
  <2>7. s = w
    BY <2>3, <2>4, <2>6, <1>3, SameSeq
  <2> QED BY <2>7, <1>3, <1>4 DEF Alike, s, t, w
<1> QED BY <1>6, <1>7

\* The trimmed lines of twin texts are the same.
LEMMA LineTwins ==
  ASSUME NEW S, NEW short, NEW long, NEW length, Twins(S, short, long, length),
         NEW start \in 1 .. length + 1
  PROVE  LineAt(short, start) = LineAt(long, start)
<1> DEFINE a == LineEnd(short, start)
           b == LineEnd(long, start)
           s == SubSeq(short, start, a - 1)
           t == SubSeq(long, start, b - 1)
<1>1. Ends(short, length, a, b)
  BY LineEndTwins
<1>2. b \in Nat /\ start <= b
  <2>1. long \in Seq(S) /\ start \in 1 .. Len(long) + 1
    BY TwinsAre
  <2> QED BY <2>1, LineEndIs
<1> HIDE DEF a, b
<1>3. Alike(s, t) /\ s \in Seq(S) /\ t \in Seq(S)
  BY <1>1, <1>2, PartTwins
<1> HIDE DEF s, t
<1>4. Trim(s) = Trim(t)
  <2>1. CASE s = t
    BY <2>1
  <2>2. CASE s = t \o <<"\r">>
    <3>1. "\r" \in S \cap Space
      <4>1. s[Len(t) + 1] = "\r" /\ Len(t) + 1 \in 1 .. Len(s)
        BY <2>2, <1>3
      <4> QED BY <4>1, <1>3 DEF Space
    <3> QED BY <3>1, <2>2, <1>3, TrimLonger
  <2> QED BY <2>1, <2>2, <1>3 DEF Alike
<1> QED BY <1>4 DEF LineAt, s, t, a, b

\* Texts that have the same lines up to a length find the same quoted value in it.
LEMMA QuotedTwins ==
  ASSUME NEW S, NEW a \in Seq(S), NEW b \in Seq(S), NEW length \in Nat, NEW start \in 1 .. length + 1,
         length <= Len(a), length <= Len(b), \A i \in 1 .. length : a[i] = b[i],
         \A i \in 1 .. length : i < LineEnd(a, start) <=> i < LineEnd(b, start),
         \A i \in start .. LineEnd(a, start) - 1 : a[i] \notin Space => i <= length,
         \A i \in start .. LineEnd(b, start) - 1 : b[i] \notin Space => i <= length,
         IsQuoted(a, start)
  PROVE  /\ IsQuoted(b, start)
         /\ ValueAt(b, start) = ValueAt(a, start) /\ ValueAt(a, start) \in start .. length
<1> DEFINE ea == LineEnd(a, start)
           eb == LineEnd(b, start)
           sa == SeparatorAt(a, start)
           sb == SeparatorAt(b, start)
           va == ValueAt(a, start)
           vb == ValueAt(b, start)
<1>1. start \in 1 .. Len(a) + 1 /\ start \in 1 .. Len(b) + 1
  OBVIOUS
<1>2. ea \in start .. Len(a) + 1 /\ eb \in start .. Len(b) + 1
  BY <1>1, LineEndIs
<1>3. sa \in start .. ea /\ va \in start .. ea /\ (sa < ea => a[sa] = "=")
      /\ (va < ea => sa < va /\ a[va] \notin Space)
  BY <1>1, PlacesIn
<1>4. \A i \in start .. ea - 1 : a[i] = "=" => sa <= i
  BY <1>1, PlacesIn
<1>5. \A i \in sa + 1 .. ea - 1 : a[i] \notin Space => va <= i
  BY <1>1, PlacesIn
<1>6. sb \in start .. eb /\ vb \in start .. eb /\ (sb < eb => b[sb] = "=")
      /\ (vb < eb => sb < vb /\ b[vb] \notin Space)
  BY <1>1, PlacesIn
<1>7. \A i \in start .. eb - 1 : b[i] = "=" => sb <= i
  BY <1>1, PlacesIn
<1>8. \A i \in sb + 1 .. eb - 1 : b[i] \notin Space => vb <= i
  BY <1>1, PlacesIn
<1>9. va < ea /\ a[va] \in Quotes
  BY DEF IsQuoted
<1>10. \A i \in 1 .. length : i < ea <=> i < eb
  OBVIOUS
<1>11. \A i \in start .. ea - 1 : a[i] \notin Space => i <= length
  OBVIOUS
<1>12. \A i \in start .. eb - 1 : b[i] \notin Space => i <= length
  OBVIOUS
<1>13. start \in Nat /\ start >= 1
  OBVIOUS
<1> HIDE DEF ea, eb, sa, sb, va, vb
<1>14. va \in start .. length /\ sa < va /\ a[va] \notin Space
  BY <1>2, <1>3, <1>9, <1>11
<1>15. sa \in start .. length /\ sa \in 1 .. length /\ sa < ea /\ a[sa] = "=" /\ b[sa] = "=" /\ sa < eb
  <2>1. sa \in start .. length /\ sa \in 1 .. length /\ sa < ea
    BY <1>2, <1>3, <1>9, <1>13, <1>14
  <2> QED BY <2>1, <1>3, <1>10
<1>16. sb <= sa
  BY <1>2, <1>7, <1>13, <1>15
<1>17. sb = sa
  <2>1. sb \in start .. length /\ sb \in 1 .. length /\ sb < eb /\ sb < ea /\ sb \in start .. ea - 1
    BY <1>2, <1>6, <1>13, <1>15, <1>16
  <2>2. a[sb] = "="
    BY <2>1, <1>6
  <2>3. sa <= sb
    BY <2>1, <2>2, <1>4
  <2> QED BY <2>1, <2>3, <1>15, <1>16
<1>18. va < eb /\ b[va] = a[va] /\ va \in 1 .. length
  BY <1>9, <1>10, <1>13, <1>14
<1>19. vb <= va
  <2>1. va \in sb + 1 .. eb - 1
    BY <1>2, <1>14, <1>15, <1>17, <1>18
  <2> QED BY <2>1, <1>8, <1>14, <1>18
<1>20. vb < eb /\ vb \in 1 .. length /\ b[vb] \notin Space /\ sb < vb
  BY <1>2, <1>6, <1>13, <1>14, <1>18, <1>19
<1>21. va <= vb
  <2>1. vb < ea /\ a[vb] = b[vb]
    BY <1>10, <1>20
  <2>2. vb \in sa + 1 .. ea - 1
    BY <2>1, <1>2, <1>15, <1>17, <1>20
  <2> QED BY <2>1, <2>2, <1>5, <1>20
<1>22. vb = va
  BY <1>14, <1>19, <1>20, <1>21
<1> QED BY <1>9, <1>14, <1>18, <1>20, <1>22 DEF IsQuoted, va, vb, eb

\* A quote that closes within the common part closes there in both.
LEMMA ClosingTwins ==
  ASSUME NEW S, NEW short, NEW long, NEW length, Twins(S, short, long, length), NEW quote,
         NEW first \in 1 .. length + 1, ClosingQuote(short, quote, first) <= length
  PROVE  ClosingQuote(long, quote, first) = ClosingQuote(short, quote, first)
<1> DEFINE c == ClosingQuote(short, quote, first)
<1>1. /\ short \in Seq(S) /\ long \in Seq(S) /\ length \in Nat
      /\ Len(short) \in Nat /\ Len(long) \in Nat
      /\ length <= Len(short) /\ length + 1 <= Len(long)
      /\ \A i \in 1 .. length : short[i] = long[i]
  BY TwinsAre
<1>2. first \in 1 .. Len(short) + 1 /\ first \in 1 .. Len(long) + 1
  BY <1>1
<1>3. c \in first .. Len(short) + 1 /\ \E e \in [Nat -> BOOLEAN] : Closes(short, quote, first, c, e)
  BY <1>1, <1>2, ScanIs
<1>4. PICK e \in [Nat -> BOOLEAN] : Closes(short, quote, first, c, e)
  BY <1>3
<1>5. c <= length
  OBVIOUS
<1> HIDE DEF c
<1>6. c \in first .. Len(long) + 1 /\ c \in 1 .. length
  BY <1>1, <1>2, <1>3, <1>5
<1>7. e[first] = FALSE
  BY <1>4 DEF Closes
<1>8. ASSUME NEW i \in first .. c - 1
      PROVE  /\ ~(long[i] = quote /\ ~e[i])
             /\ e[i + 1] = (quote = Double /\ ~e[i] /\ long[i] = Backslash)
  <2>1. long[i] = short[i]
    BY <1>1, <1>6, <1>8
  <2>2. /\ ~(short[i] = quote /\ ~e[i])
        /\ e[i + 1] = (quote = Double /\ ~e[i] /\ short[i] = Backslash)
    BY <1>4, <1>8 DEF Closes
  <2> QED BY <2>1, <2>2
<1>9. long[c] = quote /\ ~e[c]
  <2>1. c <= Len(short) /\ long[c] = short[c]
    BY <1>1, <1>6
  <2>2. short[c] = quote /\ ~e[c]
    BY <2>1, <1>4 DEF Closes
  <2> QED BY <2>1, <2>2
<1>10. Closes(long, quote, first, c, e)
  BY <1>7, <1>8, <1>9 DEF Closes
<1>11. ClosingQuote(long, quote, first) = c
  BY <1>1, <1>2, <1>6, <1>10, ScanOnly
<1> QED BY <1>11 DEF c

\* A valid statement ends at the same place in both.
LEMMA StatementTwins ==
  ASSUME NEW S, NEW short, NEW long, NEW length, Twins(S, short, long, length),
         NEW start \in 1 .. length + 1, AssignmentAt(short, start).valid
  PROVE  Ends(short, length, StatementEnd(short, start), StatementEnd(long, start))
<1>1. /\ short \in Seq(S) /\ long \in Seq(S) /\ length \in Nat
      /\ Len(short) \in Nat /\ Len(long) \in Nat
      /\ length <= Len(short) /\ Len(short) <= length + 1 /\ length + 1 <= Len(long)
      /\ \A i \in 1 .. length : short[i] = long[i]
      /\ Len(short) = length + 1 => short[length + 1] = "\r"
  BY TwinsAre
<1>2. start \in 1 .. Len(short) + 1 /\ start \in 1 .. Len(long) + 1
  BY <1>1
<1> DEFINE a == LineEnd(short, start)
           b == LineEnd(long, start)
<1>3. Ends(short, length, a, b)
  BY LineEndTwins
<1>4. a \in start .. Len(short) + 1 /\ b \in start .. Len(long) + 1
  BY <1>1, <1>2, LineEndIs
<1>5. \A i \in 1 .. length : i < a <=> i < b
  <2> HIDE DEF a, b
  <2> QED BY <1>1, <1>3, <1>4 DEF Ends
<1>6. \A i \in start .. a - 1 : short[i] \notin Space => i <= length
  <2> HIDE DEF a, b
  <2>1. ASSUME NEW i \in start .. a - 1, ~(i <= length) PROVE short[i] \in Space
    <3>1. i = length + 1 /\ Len(short) = length + 1
      BY <2>1, <1>1, <1>4
    <3> QED BY <3>1, <1>1 DEF Space
  <2> QED BY <2>1
<1>7. \A i \in start .. b - 1 : long[i] \notin Space => i <= length
  <2> HIDE DEF a, b
  <2>1. b <= length + 1
    BY <1>1, <1>3, <1>4 DEF Ends
  <2> QED BY <2>1, <1>1, <1>4
<1>8. CASE IsQuoted(short, start)
  <2>1. /\ IsQuoted(long, start)
        /\ ValueAt(long, start) = ValueAt(short, start) /\ ValueAt(short, start) \in start .. length
    <3>1. length <= Len(long) /\ \A i \in 1 .. length : short[i] = long[i]
      BY <1>1
    <3> QED BY <3>1, <1>1, <1>5, <1>6, <1>7, <1>8, QuotedTwins
  <2> DEFINE v == ValueAt(short, start)
             c == QuoteEnd(short, start)
             quote == short[v]
  <2>2. v \in 1 .. length /\ v + 1 \in 1 .. length + 1 /\ quote \in Quotes /\ long[v] = quote
        /\ v + 1 \in 1 .. Len(short) + 1
    <3>1. v \in 1 .. length
      BY <2>1, <1>1
    <3>2. quote \in Quotes
      BY <1>8 DEF IsQuoted
    <3> QED BY <3>1, <3>2, <1>1
  <2>3. ParseAssignment(StatementAt(short, start)).valid
    BY DEF AssignmentAt
  <2>4. c \in v + 1 .. StatementEnd(short, start) - 1 /\ StatementEnd(short, start) <= Len(short) + 1
    BY <2>3, <1>1, <1>2, <1>8, AcceptedCloses, StatementEndIn
  <2>5. c = ClosingQuote(short, quote, v + 1)
    BY DEF QuoteEnd
  <2>6. QuoteEnd(long, start) = ClosingQuote(long, quote, v + 1)
    BY <2>1, <2>2 DEF QuoteEnd
  <2>7. StatementEnd(short, start) \in Nat
    <3>1. StatementEnd(short, start) \in a .. Len(short) + 1
      BY <1>1, <1>2, StatementEndIn
    <3> HIDE DEF a
    <3> QED BY <3>1, <1>4
  <2> HIDE DEF v, c, quote
  <2>8. c \in v + 1 .. Len(short)
    BY <2>2, <2>4, <2>7, <1>1
  <2>9. short[c] = quote
    <3>1. PICK e \in [Nat -> BOOLEAN] : Closes(short, quote, v + 1, c, e)
      BY <2>2, <2>5, <1>1, ScanIs
    <3> QED BY <3>1, <2>8, <2>2, <1>1 DEF Closes
  <2>10. c <= length
    <3>1. c # length + 1
      <4>1. "\r" \notin Quotes
        BY DEF Quotes, Double
      <4> QED BY <4>1, <2>2, <2>8, <2>9, <1>1
    <3> QED BY <3>1, <2>2, <2>8, <1>1
  <2>11. ClosingQuote(long, quote, v + 1) = c
    BY <2>2, <2>5, <2>10, ClosingTwins
  <2>12. StatementEnd(short, start) = LineEnd(short, c) /\ StatementEnd(long, start) = LineEnd(long, c)
    BY <2>1, <2>6, <2>11, <1>8, StatementEndIs DEF c
  <2>13. c \in 1 .. length + 1
    BY <2>2, <2>8, <2>10, <1>1
  <2> QED BY <2>12, <2>13, LineEndTwins
<1>9. CASE ~IsQuoted(short, start)
  <2>1. ~IsQuoted(long, start)
    <3> SUFFICES ASSUME IsQuoted(long, start) PROVE FALSE
      OBVIOUS
    <3>1. length <= Len(long) /\ \A i \in 1 .. length : long[i] = short[i]
      BY <1>1
    <3>2. \A i \in 1 .. length : i < b <=> i < a
      BY <1>5
    <3>3. IsQuoted(short, start)
      BY <3>1, <3>2, <1>1, <1>6, <1>7, QuotedTwins
    <3> QED BY <3>3, <1>9
  <2>2. StatementEnd(short, start) = a /\ StatementEnd(long, start) = b
    BY <2>1, <1>9, StatementEndIs
  <2> QED BY <2>2, <1>3
<1> QED BY <1>8, <1>9

\* A carriage return at the end of a text ends every rest of it.
LEMMA FromTail ==
  ASSUME NEW S, NEW t \in Seq(S), "\r" \in S, NEW after \in 1 .. Len(t) + 1
  PROVE  From(t \o <<"\r">>, after) = From(t, after) \o <<"\r">> /\ From(t, after) \in Seq(S)
<1> DEFINE s == t \o <<"\r">>
           L == Len(t)
<1>1. /\ s \in Seq(S) /\ Len(s) = L + 1 /\ s[L + 1] = "\r" /\ L \in Nat
      /\ \A i \in 1 .. L : s[i] = t[i]
  BY ConcatIs
<1> HIDE DEF s, L
<1>11. From(s, after) = From(t, after) \o <<"\r">> /\ From(t, after) \in Seq(S)
  <2>1. after \in 1 .. L + 1 /\ after \in Nat
    BY <1>1 DEF L
  <2>2. From(s, after) = SubSeq(s, after, L + 1) /\ From(t, after) = SubSeq(t, after, L)
    BY <1>1 DEF From, L
  <2>3. /\ SubSeq(s, after, L + 1) \in Seq(S) /\ Len(SubSeq(s, after, L + 1)) = L + 2 - after
        /\ \A i \in 1 .. L + 2 - after : SubSeq(s, after, L + 1)[i] = s[after + i - 1]
    <3>1. after \in 1 .. Len(s) + 1 /\ L + 1 \in after - 1 .. Len(s) /\ (L + 1) - after + 1 = L + 2 - after
      BY <2>1, <1>1
    <3> QED BY <3>1, <1>1, PartIs
  <2>4. /\ SubSeq(t, after, L) \in Seq(S) /\ Len(SubSeq(t, after, L)) = L + 1 - after
        /\ \A i \in 1 .. L + 1 - after : SubSeq(t, after, L)[i] = t[after + i - 1]
    <3>1. after \in 1 .. Len(t) + 1 /\ L \in after - 1 .. Len(t) /\ L - after + 1 = L + 1 - after
      BY <2>1, <1>1 DEF L
    <3> QED BY <3>1, PartIs
  <2> DEFINE a == SubSeq(s, after, L + 1)
             b == SubSeq(t, after, L)
             w == b \o <<"\r">>
  <2>5. /\ w \in Seq(S) /\ Len(w) = Len(b) + 1 /\ w[Len(b) + 1] = "\r"
        /\ \A i \in 1 .. Len(b) : w[i] = b[i]
    BY <2>4
  <2> HIDE DEF a, b, w
  <2>6. Len(a) = Len(w) /\ Len(b) = L + 1 - after
    BY <2>1, <2>3, <2>4, <2>5, <1>1 DEF a, b
  <2>7. ASSUME NEW i \in 1 .. Len(a) PROVE a[i] = w[i]
    <3>1. i \in 1 .. L + 2 - after
      BY <2>3, <2>7 DEF a
    <3>2. a[i] = s[after + i - 1]
      BY <3>1, <2>3 DEF a
    <3>3. CASE i = L + 2 - after
      <4>1. after + i - 1 = L + 1 /\ i = Len(b) + 1
        BY <3>3, <2>1, <2>6, <1>1
      <4> QED BY <4>1, <3>2, <2>5, <1>1
    <3>4. CASE i # L + 2 - after
      <4>1. i \in 1 .. L + 1 - after /\ after + i - 1 \in 1 .. L /\ i \in 1 .. Len(b)
        BY <3>1, <3>4, <2>1, <2>6, <1>1
      <4>2. b[i] = t[after + i - 1]
        BY <4>1, <2>4 DEF b
      <4> QED BY <4>1, <4>2, <3>2, <2>5, <1>1
    <3> QED BY <3>3, <3>4
  <2>8. a = w
    BY <2>3, <2>5, <2>6, <2>7, SameSeq DEF a
  <2> QED BY <2>2, <2>4, <2>8 DEF a, b, w
<1> QED BY <1>11 DEF s

\* A carriage return behind a quoted value makes no difference.
LEMMA DecodeTail ==
  ASSUME NEW S, NEW t \in Seq(S), "\r" \in S, NEW quote \in Quotes,
         DecodeQuoted(t \o <<"\r">>, quote).valid
  PROVE  DecodeQuoted(t, quote) = DecodeQuoted(t \o <<"\r">>, quote)
<1> DEFINE s == t \o <<"\r">>
           L == Len(t)
           p == Decoded(s, quote)
           q == Decoded(t, quote)
<1>1. /\ s \in Seq(S) /\ Len(s) = L + 1 /\ s[L + 1] = "\r" /\ L \in Nat
      /\ \A i \in 1 .. L : s[i] = t[i] /\ "\r" \in S
  BY ConcatIs
<1>a. DecodeQuoted(s, quote).valid
  OBVIOUS
<1>b. "\r" \notin Quotes /\ "\r" # Backslash
  BY DEF Quotes, Double, Backslash
<1>c. s = t \o <<"\r">>
  OBVIOUS
<1> HIDE DEF s
<1>2. /\ p[0] = DecodeStart /\ q[0] = DecodeStart
      /\ \A n \in Nat : p[n + 1] = Decode(s, quote, p[n])
      /\ \A n \in Nat : q[n + 1] = Decode(t, quote, q[n])
  BY <1>1, DecodeRuns
<1>3. \A n \in Nat : p[n].index \in Nat /\ p[n].index >= 2
  BY <1>1, DecodeSettles
<1>4. ASSUME NEW n \in Nat, Decode(s, quote, p[n]) # p[n]
      PROVE  /\ p[n].index <= L + 1 /\ s[p[n].index] # quote
             /\ \/ ~IsEscape(s, quote, p[n].index) /\ p[n + 1].index = p[n].index + 1
                \/ /\ IsEscape(s, quote, p[n].index) /\ p[n].index < L + 1
                   /\ p[n + 1].index = p[n].index + 2
  BY <1>1, <1>4, DecodeGoesOn
<1>5. p[L + 1].index \in 2 .. L + 1 /\ s[p[L + 1].index] = quote
  BY <1>1, <1>a, DecodeCloses
<1>6. p[L + 1].index <= L
  BY <1>1, <1>5, <1>b
<1>7. \A m \in Nat : L <= m => q[m] = q[L]
  BY <1>1, DecodeSettles
<1> HIDE DEF p, q, L
<1> DEFINE Same == {n \in Nat : p[n].index > L \/ p[n] = q[n]}
<1>8. \A n \in Nat : n \in Same
  <2>1. 0 \in Same
    BY <1>2
  <2>2. ASSUME NEW n \in Nat, n \in Same PROVE n + 1 \in Same
    <3>1. p[n + 1] = Decode(s, quote, p[n]) /\ q[n + 1] = Decode(t, quote, q[n])
      BY <1>2
    <3>2. CASE p[n].index > L
      <4>1. p[n + 1].index >= p[n].index
        <5>1. CASE Decode(s, quote, p[n]) = p[n]
          BY <5>1, <3>1, <1>3
        <5>2. CASE Decode(s, quote, p[n]) # p[n]
          BY <5>2, <1>3, <1>4
        <5> QED BY <5>1, <5>2
      <4> QED BY <4>1, <3>2, <1>1, <1>3
    <3>3. CASE p[n] = q[n] /\ ~(p[n].index > L)
      <4> DEFINE state == p[n]
                 i == state.index
      <4>1. i \in 1 .. L /\ ~(i > Len(s)) /\ ~(i > Len(t)) /\ i # Len(s) /\ s[i] = t[i]
        <5>1. i \in Nat /\ i >= 2 /\ i <= L
          BY <3>3, <1>1, <1>3
        <5> QED BY <5>1, <1>1 DEF L
      <4> HIDE DEF i
      <4>2. CASE s[i] = quote
        <5>1. Decode(s, quote, state) = state /\ Decode(t, quote, state) = state
          BY <4>1, <4>2, DecodeStops DEF i
        <5> QED BY <5>1, <3>1, <3>3
      <4>3. CASE s[i] # quote /\ ~IsEscape(s, quote, i)
        <5>1. t[i] # quote /\ ~IsEscape(t, quote, i)
          BY <4>1, <4>3 DEF IsEscape
        <5>2. Decode(s, quote, state) = [index |-> i + 1, value |-> Append(state.value, s[i])]
          BY <4>1, <4>3, DecodeCopies DEF i
        <5>3. Decode(t, quote, state) = [index |-> i + 1, value |-> Append(state.value, t[i])]
          BY <4>1, <5>1, DecodeCopies DEF i
        <5>4. p[n + 1] = q[n + 1]
          BY <5>2, <5>3, <4>1, <3>1, <3>3
        <5> QED BY <5>4
      <4>4. CASE s[i] # quote /\ IsEscape(s, quote, i) /\ i # L
        <5>1. t[i] # quote /\ IsEscape(t, quote, i) /\ i # Len(t) /\ i + 1 \in 1 .. L
          BY <4>1, <4>4, <1>1 DEF IsEscape, L
        <5>2. Decode(s, quote, state) = [index |-> i + 2, value |-> state.value \o Unescaped(s[i + 1])]
          BY <4>1, <4>4, DecodeUnescapes DEF i
        <5>3. Decode(t, quote, state) = [index |-> i + 2, value |-> state.value \o Unescaped(t[i + 1])]
          BY <4>1, <5>1, DecodeUnescapes DEF i
        <5>4. s[i + 1] = t[i + 1]
          BY <5>1, <1>1 DEF L
        <5>5. p[n + 1] = q[n + 1]
          BY <5>2, <5>3, <5>4, <3>1, <3>3
        <5> QED BY <5>5
      <4>5. CASE s[i] # quote /\ IsEscape(s, quote, i) /\ i = L
        <5>1. Decode(s, quote, state) = [index |-> i + 2, value |-> state.value \o Unescaped(s[i + 1])]
          BY <4>1, <4>5, DecodeUnescapes DEF i
        <5>2. p[n + 1].index = L + 2
          BY <5>1, <4>5, <3>1
        <5> QED BY <5>2, <1>1
      <4> QED BY <4>2, <4>3, <4>4, <4>5
    <3> QED BY <3>2, <3>3, <2>2
  <2> HIDE DEF Same
  <2> QED BY <2>1, <2>2, Induction
<1>9. p[L + 1] = q[L]
  <2>1. L + 1 \in Nat /\ L <= L + 1
    BY <1>1
  <2>2. p[L + 1] = q[L + 1]
    <3> DEFINE state == p[L + 1]
    <3>1. L + 1 \in Same
      BY <2>1, <1>8
    <3>2. state.index > L \/ state = q[L + 1]
      BY <3>1
    <3>3. state.index \in Nat
      BY <1>5
    <3>4. ~(state.index > L)
      <4> HIDE DEF state
      <4> QED BY <3>3, <1>1, <1>6 DEF state
    <3> HIDE DEF state
    <3> QED BY <3>2, <3>4 DEF state
  <2> QED BY <2>1, <2>2, <1>7
<1> DEFINE last == q[L]
           after == last.index + 1
<1>10. last.index \in 2 .. L /\ s[last.index] = quote /\ t[last.index] = quote
  <2>1. last.index \in 2 .. L /\ s[last.index] = quote
    BY <1>1, <1>5, <1>6, <1>9
  <2>2. last.index \in 1 .. L
    BY <2>1
  <2> QED BY <2>1, <2>2, <1>1
<1>11. From(s, after) = From(t, after) \o <<"\r">> /\ From(t, after) \in Seq(S)
  <2>1. after \in 1 .. Len(t) + 1
    BY <1>1, <1>10 DEF L
  <2> HIDE DEF after
  <2> QED BY <2>1, <1>1, <1>c, FromTail
<1> DEFINE remainder == Trim(From(t, after))
<1>12. Trim(From(s, after)) = remainder
  <2>1. "\r" \in S \cap Space
    BY DEF Space
  <2> HIDE DEF after
  <2> QED BY <2>1, <1>11, TrimLonger
<1>13. DecodeQuoted(t, quote) =
         IF /\ last.index <= L /\ t[last.index] = quote
            /\ remainder = <<>> \/ remainder[1] = "#"
         THEN [valid |-> TRUE, value |-> last.value] ELSE Malformed
  BY DecodeQuotedIs DEF q, L
<1>14. DecodeQuoted(s, quote) =
         IF /\ last.index <= L + 1 /\ s[last.index] = quote
            /\ remainder = <<>> \/ remainder[1] = "#"
         THEN [valid |-> TRUE, value |-> last.value] ELSE Malformed
  BY <1>1, <1>9, <1>12, DecodeQuotedIs DEF p
<1> HIDE DEF remainder, last
<1>15. remainder = <<>> \/ remainder[1] = "#"
  BY <1>14, <1>a DEF Malformed
<1>16. last.index <= L /\ last.index <= L + 1
  BY <1>1, <1>10
<1>17. DecodeQuoted(t, quote) = DecodeQuoted(s, quote)
  BY <1>10, <1>13, <1>14, <1>15, <1>16
<1> QED BY <1>17, <1>c

\* A carriage return behind a valid value is white space.
LEMMA ValueTail ==
  ASSUME NEW S, NEW t \in Seq(S), t # <<>>, "\r" \in S, ParseValue(t \o <<"\r">>).valid
  PROVE  ParseValue(t) = ParseValue(t \o <<"\r">>)
<1> DEFINE s == t \o <<"\r">>
           L == Len(t)
<1>1. /\ s \in Seq(S) /\ Len(s) = L + 1 /\ s[L + 1] = "\r" /\ L \in Nat /\ L # 0
      /\ \A i \in 1 .. L : s[i] = t[i] /\ s # <<>> /\ s[1] = t[1]
  OBVIOUS
<1>c. s = t \o <<"\r">> /\ ParseValue(s).valid
  OBVIOUS
<1> HIDE DEF s
<1>2. CASE t[1] \in Quotes
  <2> DEFINE quote == t[1]
  <2>1. s # <<>> /\ s[1] = quote /\ quote \in Quotes
    BY <1>1, <1>2
  <2> HIDE DEF quote
  <2>2. ParseValue(s) = DecodeQuoted(s, quote)
    BY <2>1 DEF ParseValue
  <2>3. ParseValue(t) = DecodeQuoted(t, quote)
    BY <1>2 DEF ParseValue, quote
  <2>4. DecodeQuoted(t, quote) = DecodeQuoted(s, quote)
    BY <2>1, <2>2, <1>c, DecodeTail
  <2> QED BY <2>2, <2>3, <2>4 DEF s
<1>3. CASE ~(t[1] \in Quotes)
  <2> DEFINE C == CommentStarts(t)
             a == Min(CommentStarts(s) \cup {Len(s) + 1})
             b == Min(CommentStarts(t) \cup {Len(t) + 1})
  <2>1. ParseValue(s) = [valid |-> TRUE, value |-> Trim(SubSeq(s, 1, a - 1))]
    BY <1>1, <1>3 DEF ParseValue
  <2>2. ParseValue(t) = [valid |-> TRUE, value |-> Trim(SubSeq(t, 1, b - 1))]
    BY <1>3 DEF ParseValue
  <2>3. CommentStarts(s) = C
    <3>1. ASSUME NEW i \in CommentStarts(s) PROVE i \in C
      <4>1. PICK j \in i + 1 .. L + 1 :
              s[j] = "#" /\ \A between \in i .. j - 1 : s[between] \in Space
        BY <1>1 DEF CommentStarts
      <4>2. i \in 1 .. L + 1 /\ s[i] \in Space
        BY <1>1 DEF CommentStarts
      <4>3. j # L + 1
        BY <4>1, <1>1
      <4>4. j \in i + 1 .. L /\ i \in 1 .. L /\ t[j] = "#" /\ t[i] \in Space
        BY <4>1, <4>2, <4>3, <1>1
      <4>5. \A between \in i .. j - 1 : t[between] \in Space
        BY <4>1, <4>4, <1>1
      <4>6. i \in DOMAIN t /\ j \in i + 1 .. Len(t)
        BY <4>4
      <4> QED BY <4>4, <4>5, <4>6 DEF CommentStarts
    <3>2. ASSUME NEW i \in C PROVE i \in CommentStarts(s)
      <4>1. PICK j \in i + 1 .. L :
              t[j] = "#" /\ \A between \in i .. j - 1 : t[between] \in Space
        BY DEF CommentStarts
      <4>2. i \in 1 .. L /\ t[i] \in Space
        BY DEF CommentStarts
      <4>3. j \in i + 1 .. Len(s) /\ s[j] = "#" /\ i \in DOMAIN s /\ s[i] \in Space
        BY <4>1, <4>2, <1>1
      <4>4. ASSUME NEW between \in i .. j - 1 PROVE s[between] \in Space
        <5>1. between \in 1 .. L /\ t[between] \in Space
          BY <4>1, <4>2, <1>1
        <5> QED BY <5>1, <1>1
      <4> QED BY <4>3, <4>4 DEF CommentStarts
    <3> QED BY <3>1, <3>2
  <2>4. /\ b \in 1 .. L + 1 /\ \A i \in C : b <= i
        /\ b < L + 1 => b \in C
    BY CommentStartsIs
  <2>5. /\ a \in 1 .. L + 2 /\ \A i \in C : a <= i
        /\ a < L + 2 => a \in C
    <3>1. /\ a \in 1 .. Len(s) + 1 /\ \A i \in CommentStarts(s) : a <= i
          /\ a < Len(s) + 1 => a \in CommentStarts(s)
      BY <1>1, CommentStartsIs
    <3>2. Len(s) + 1 = L + 2
      BY <1>1
    <3> QED BY <3>1, <3>2, <2>3
  <2>6. \A i \in C : i \in 1 .. L
    BY DEF CommentStarts
  <2> HIDE DEF C, a, b
  <2>7. CASE b < L + 1
    <3>1. a <= b
      BY <2>4, <2>5, <2>7
    <3>2. a \in C
      BY <3>1, <2>4, <2>5, <2>7, <1>1
    <3>3. a = b
      BY <3>1, <3>2, <2>4, <2>5
    <3>4. SubSeq(s, 1, a - 1) = SubSeq(t, 1, b - 1)
      <4>1. 1 \in 1 .. L + 1 /\ b - 1 \in 0 .. L
        BY <2>4, <2>7, <1>1
      <4> QED BY <4>1, <3>3, SubSeqOfConcat1 DEF s, L
    <3> QED BY <3>4, <2>1, <2>2 DEF s
  <2>8. CASE ~(b < L + 1)
    <3>1. b = L + 1
      BY <2>4, <2>8, <1>1
    <3>2. a = L + 2
      <4> SUFFICES ASSUME a # L + 2 PROVE FALSE
        OBVIOUS
      <4>1. a \in C
        BY <2>5, <1>1
      <4> QED BY <4>1, <2>4, <2>6, <3>1, <1>1
    <3>3. SubSeq(s, 1, a - 1) = s /\ SubSeq(t, 1, b - 1) = t
      <4>1. a - 1 = Len(s) /\ b - 1 = Len(t)
        BY <3>1, <3>2, <1>1 DEF L
      <4> QED BY <4>1, <1>1, SubSeqFull
    <3>4. Trim(s) = Trim(t)
      <4>1. "\r" \in S \cap Space
        BY DEF Space
      <4> QED BY <4>1, <1>c, TrimLonger
    <3> QED BY <3>3, <3>4, <2>1, <2>2 DEF s
  <2> QED BY <2>7, <2>8
<1> QED BY <1>2, <1>3

\* A carriage return behind a valid assignment is white space.
LEMMA AssignmentTail ==
  ASSUME NEW S, NEW t \in Seq(S), "\r" \in S, ParseAssignment(t \o <<"\r">>).valid
  PROVE  ParseAssignment(t) = ParseAssignment(t \o <<"\r">>)
<1> DEFINE s == t \o <<"\r">>
           L == Len(t)
           x == LineEnd(s, 1)
           y == LineEnd(t, 1)
           a == Separator(s)
           b == Separator(t)
<1>1. /\ s \in Seq(S) /\ Len(s) = L + 1 /\ s[L + 1] = "\r" /\ L \in Nat
      /\ \A i \in 1 .. L : s[i] = t[i]
  OBVIOUS
<1>2. s = t \o <<"\r">> /\ ParseAssignment(s).valid
  OBVIOUS
<1> HIDE DEF s
<1>3. 1 \in 1 .. Len(s) + 1 /\ 1 \in 1 .. Len(t) + 1
  BY <1>1
<1>4. /\ y \in 1 .. L + 1 /\ \A i \in 1 .. y - 1 : t[i] # "\n"
      /\ y <= L => t[y] = "\n"
  BY <1>3, LineEndIs
<1> HIDE DEF y
<1>5. x = IF y <= L THEN y ELSE L + 2
  <2>1. CASE y <= L
    <3>1. y \in 1 .. Len(s) + 1 /\ s[y] = "\n" /\ \A i \in 1 .. y - 1 : s[i] # "\n"
      BY <2>1, <1>1, <1>4
    <3> QED BY <3>1, <2>1, <1>1, <1>3, LineEndOnly
  <2>2. CASE ~(y <= L)
    <3> DEFINE z == L + 2
    <3>1. z \in 1 .. Len(s) + 1 /\ ~(z <= Len(s))
      BY <1>1
    <3>2. \A i \in 1 .. z - 1 : s[i] # "\n"
      BY <2>2, <1>1, <1>4
    <3> HIDE DEF z
    <3>3. x = z
      BY <3>1, <3>2, <1>1, <1>3, LineEndOnly
    <3> QED BY <3>3, <2>2 DEF z
  <2> QED BY <2>1, <2>2
<1> HIDE DEF x
<1>6. /\ a \in 1 .. L + 2 /\ (a <= L + 1 => a < x /\ s[a] = "=")
      /\ \A i \in 1 .. x - 1 : s[i] = "=" => a <= i
  <2>1. /\ a \in 1 .. Len(s) + 1 /\ (a <= Len(s) => a < x /\ s[a] = "=")
        /\ \A i \in 1 .. x - 1 : s[i] = "=" => a <= i
    BY <1>1, SeparatorIs DEF x
  <2> HIDE DEF a
  <2> QED BY <2>1, <1>1
<1>7. /\ b \in 1 .. L + 1 /\ (b <= L => b < y /\ t[b] = "=")
      /\ \A i \in 1 .. y - 1 : t[i] = "=" => b <= i
  BY SeparatorIs DEF y
<1>8. a <= L + 1 /\ ParseValue(Value(s)).valid
  <2>1. a <= Len(s) /\ ParseValue(Value(s)).valid
    BY <1>1, <1>2, AssignmentType
  <2> HIDE DEF a
  <2> QED BY <2>1, <1>1
<1> HIDE DEF a, b
<1>9. a = b /\ a \in 1 .. L
  <2>1. a \in 1 .. L /\ a < y /\ t[a] = "="
    <3>1. a # L + 1
      BY <1>1, <1>6, <1>8
    <3>2. a \in 1 .. L
      BY <3>1, <1>1, <1>6, <1>8
    <3> QED BY <3>2, <1>1, <1>4, <1>5, <1>6, <1>8
  <2>2. b <= a
    BY <2>1, <1>4, <1>7
  <2>3. b \in 1 .. L /\ b < y /\ s[b] = "="
    BY <2>1, <2>2, <1>1, <1>7
  <2>4. a <= b
    BY <2>3, <1>4, <1>5, <1>6
  <2> QED BY <2>1, <2>2, <2>3, <2>4
<1>10. Name(s) = Name(t)
  <2>1. SubSeq(s, 1, a - 1) = SubSeq(t, 1, a - 1)
    <3>1. 1 \in 1 .. L + 1 /\ a - 1 \in 0 .. L
      BY <1>1, <1>9
    <3> QED BY <3>1, SubSeqOfConcat1 DEF s, L
  <2> QED BY <2>1, <1>9 DEF Name, a, b
<1>11. Key(s) = Key(t)
  BY <1>10 DEF Key
<1> DEFINE part == From(t, b + 1)
<1>12. From(s, a + 1) = part \o <<"\r">> /\ part \in Seq(S)
  <2> DEFINE after == a + 1
  <2>1. after \in 1 .. Len(t) + 1
    BY <1>9 DEF L
  <2> HIDE DEF after
  <2>2. From(t \o <<"\r">>, after) = From(t, after) \o <<"\r">> /\ From(t, after) \in Seq(S)
    BY <2>1, FromTail
  <2> QED BY <2>2, <1>9 DEF after, s
<1> HIDE DEF part
<1>13. Value(s) = TrimStart(part \o <<"\r">>) /\ Value(t) = TrimStart(part)
  BY <1>12 DEF Value, a, b, part
<1>14. ParseValue(Value(t)) = ParseValue(Value(s))
  <2>0. "\r" \in S \cap Space
    BY DEF Space
  <2>1. CASE Inked(part, 1, Len(part)) = {}
    <3>1. TrimStart(part) = <<>>
      BY <2>1, <1>12, TrimBlank
    <3>2. TrimStart(part \o <<"\r">>) = <<>>
      BY <2>0, <2>1, <1>12, TrimLonger
    <3> QED BY <3>1, <3>2, <1>13
  <2>2. CASE Inked(part, 1, Len(part)) # {}
    <3> DEFINE v == TrimStart(part)
    <3>1. Value(s) = v \o <<"\r">>
      BY <2>0, <2>2, <1>12, <1>13, TrimLonger
    <3>2. v \in Seq(S)
      BY <1>12, TrimType
    <3>3. v # <<>>
      <4>1. PICK c, d \in Inked(part, 1, Len(part)) :
              \A i \in Inked(part, 1, Len(part)) : c <= i /\ i <= d
        BY <2>2, <1>12, InkedEnds
      <4>2. v = SubSeq(part, c, Len(part)) /\ c \in 1 .. Len(part)
        BY <4>1, <1>12, TrimIs DEF Inked
      <4>3. Len(SubSeq(part, c, Len(part))) = Len(part) - c + 1
        <5>1. c \in 1 .. Len(part) + 1 /\ Len(part) \in c - 1 .. Len(part)
          BY <4>2
        <5> QED BY <5>1, <1>12, PartIs
      <4>4. Len(part) - c + 1 # 0
        BY <4>2, <1>12
      <4> HIDE DEF v
      <4>5. Len(v) # 0
        BY <4>2, <4>3, <4>4
      <4> QED BY <4>5
    <3> HIDE DEF v
    <3>4. ParseValue(v \o <<"\r">>).valid
      BY <3>1, <1>8
    <3>5. ParseValue(v) = ParseValue(v \o <<"\r">>)
      BY <3>2, <3>3, <3>4, ValueTail
    <3> QED BY <3>1, <3>5, <1>13 DEF v
  <2> QED BY <2>1, <2>2
<1> DEFINE Fails(statement) ==
             \/ Separator(statement) > Len(statement)
             \/ ~IsKey(Key(statement)) \/ ~ParseValue(Value(statement)).valid
           Result(statement) ==
             [valid |-> TRUE, key |-> Key(statement), value |-> ParseValue(Value(statement)).value]
<1>15. /\ ParseAssignment(s) = IF Fails(s) THEN Malformed ELSE Result(s)
       /\ ParseAssignment(t) = IF Fails(t) THEN Malformed ELSE Result(t)
  BY AssignmentIs
<1>16. Result(t) = Result(s)
  BY <1>11, <1>14
<1>17. Fails(t) <=> Fails(s)
  <2>1. ~(a > Len(s)) /\ ~(b > Len(t))
    BY <1>1, <1>9 DEF L
  <2> QED BY <2>1, <1>11, <1>14 DEF a, b
<1> HIDE DEF Fails, Result
<1>18. ParseAssignment(t) = ParseAssignment(s)
  BY <1>15, <1>16, <1>17
<1> QED BY <1>18 DEF s

\* What either text assigns there is the same.
LEMMA AssignmentTwins ==
  ASSUME NEW S, NEW short, NEW long, NEW length, Twins(S, short, long, length),
         NEW start \in 1 .. length + 1, AssignmentAt(short, start).valid
  PROVE  AssignmentAt(long, start) = AssignmentAt(short, start)
<1> DEFINE a == StatementEnd(short, start)
           b == StatementEnd(long, start)
           s == StatementAt(short, start)
           t == StatementAt(long, start)
<1>1. Ends(short, length, a, b)
  BY StatementTwins
<1>2. b \in Nat /\ start <= b
  <2>1. long \in Seq(S) /\ start \in 1 .. Len(long) + 1
    BY TwinsAre
  <2>2. LineEnd(long, start) \in start .. Len(long) + 1 /\ b \in LineEnd(long, start) .. Len(long) + 1
    BY <2>1, LineEndIs, StatementEndIn
  <2> HIDE DEF b
  <2> QED BY <2>1, <2>2
<1>3. s = SubSeq(short, start, a - 1) /\ t = SubSeq(long, start, b - 1)
  BY DEF StatementAt
<1>a. ParseAssignment(s).valid
  BY DEF AssignmentAt
<1> HIDE DEF a, b, s, t
<1>4. Alike(s, t) /\ s \in Seq(S) /\ t \in Seq(S)
  BY <1>1, <1>2, <1>3, PartTwins
<1>5. ParseAssignment(t) = ParseAssignment(s)
  <2>1. CASE s = t
    BY <2>1
  <2>2. CASE s = t \o <<"\r">>
    <3>1. "\r" \in S
      <4>1. s[Len(t) + 1] = "\r" /\ Len(t) + 1 \in 1 .. Len(s)
        BY <2>2, <1>4
      <4> QED BY <4>1, <1>4
    <3> QED BY <3>1, <2>2, <1>4, <1>a, AssignmentTail
  <2> QED BY <2>1, <2>2, <1>4 DEF Alike
<1> QED BY <1>5 DEF AssignmentAt, s, t

(***************************************************************************)
(* What FlattenSeq makes of a list of sequences                            *)
(***************************************************************************)
\* The function that FlattenSeq defines.
Flattens(seqs, g) == g = [i \in 1 .. Len(seqs) |-> IF i = 1 THEN seqs[i] ELSE g[i - 1] \o seqs[i]]

\* There are partial concatenations of any sequence of texts.
LEMMA FlattenExists ==
  ASSUME NEW S, NEW seqs \in Seq(Seq(S))
  PROVE  \E g \in [1 .. Len(seqs) -> Seq(S)] : Flattens(seqs, g)
<1> DEFINE T == [i : Nat, done : Seq(S)]
           start == [i |-> 0, done |-> <<>>]
           Next1(state) == [i |-> state.i + 1,
                            done |-> IF state.i + 1 \in 1 .. Len(seqs) THEN state.done \o seqs[state.i + 1]
                                     ELSE state.done]
           step == [state \in T |-> Next1(state)]
<1>1. start \in T
  OBVIOUS
<1>2. step \in [T -> T]
  <2>1. ASSUME NEW state \in T PROVE Next1(state) \in T
    <3>1. state.i + 1 \in Nat /\ state.done \in Seq(S)
      OBVIOUS
    <3>2. CASE state.i + 1 \in 1 .. Len(seqs)
      <4>1. seqs[state.i + 1] \in Seq(S)
        BY <3>2
      <4>2. state.done \o seqs[state.i + 1] \in Seq(S)
        BY <3>1, <4>1, ConcatIs
      <4> QED BY <3>1, <3>2, <4>2
    <3>3. CASE ~(state.i + 1 \in 1 .. Len(seqs))
      BY <3>1, <3>3
    <3> QED BY <3>2, <3>3
  <2> HIDE DEF Next1, T
  <2> QED BY <2>1
<1> HIDE DEF step
<1>3. PICK f \in [Nat -> T] : IsLoop(f, start, step)
  <2> HIDE DEF T, start
  <2> QED BY <1>1, <1>2, LoopExists
<1>4. \A n \in Nat : f[n + 1] = Next1(f[n])
  BY <1>3 DEF IsLoop, step
<1>5. f[0] = start
  BY <1>3 DEF IsLoop
<1>6. \A n \in Nat : f[n].i \in Nat /\ f[n].done \in Seq(S)
  BY <1>3
<1> HIDE DEF T
<1> DEFINE Counted == {n \in Nat : f[n].i = n}
<1>7. \A n \in Nat : n \in Counted
  <2>1. 0 \in Counted
    BY <1>5
  <2>2. ASSUME NEW n \in Nat, n \in Counted PROVE n + 1 \in Counted
    <3>1. Next1(f[n]).i = f[n].i + 1
      OBVIOUS
    <3>2. f[n + 1] = Next1(f[n])
      BY <1>4
    <3> HIDE DEF Next1
    <3>3. f[n + 1].i = n + 1
      BY <3>1, <3>2, <2>2
    <3> QED BY <3>3
  <2> HIDE DEF Counted
  <2> QED BY <2>1, <2>2, Induction
<1>8. ASSUME NEW n \in Nat, n + 1 \in 1 .. Len(seqs) PROVE f[n + 1].done = f[n].done \o seqs[n + 1]
  <2>1. f[n].i = n
    BY <1>7
  <2>2. f[n + 1] = Next1(f[n])
    BY <1>4
  <2>3. Next1(f[n]).done = f[n].done \o seqs[n + 1]
    BY <2>1, <1>8
  <2> HIDE DEF Next1
  <2> QED BY <2>2, <2>3
<1>9. f[0].done = <<>>
  BY <1>5
<1> HIDE DEF Next1, start, Counted
<1> DEFINE g == [i \in 1 .. Len(seqs) |-> f[i].done]
<1>10. g \in [1 .. Len(seqs) -> Seq(S)]
  BY <1>6
<1>11. ASSUME NEW i \in 1 .. Len(seqs) PROVE g[i] = IF i = 1 THEN seqs[i] ELSE g[i - 1] \o seqs[i]
  <2>1. i - 1 \in Nat /\ (i - 1) + 1 = i
    OBVIOUS
  <2>2. f[(i - 1) + 1].done = f[i - 1].done \o seqs[(i - 1) + 1]
    BY <2>1, <1>8
  <2>3. g[i] = f[i - 1].done \o seqs[i]
    BY <2>1, <2>2
  <2>4. CASE i = 1
    <3>1. f[i - 1].done = <<>>
      BY <2>4, <1>9
    <3>2. seqs[i] \in Seq(S)
      OBVIOUS
    <3> QED BY <2>3, <2>4, <3>1, <3>2
  <2>5. CASE i # 1
    <3>1. i - 1 \in 1 .. Len(seqs)
      BY <2>5
    <3>2. g[i - 1] = f[i - 1].done
      BY <3>1
    <3> HIDE DEF g
    <3> QED BY <2>3, <2>5, <3>2
  <2> QED BY <2>4, <2>5
<1> HIDE DEF g
<1>12. Flattens(seqs, g)
  <2>1. g = [i \in 1 .. Len(seqs) |-> g[i]]
    BY <1>10
  <2> QED BY <2>1, <1>11 DEF Flattens
<1> QED BY <1>10, <1>12

\* They depend only on the texts they have taken in.
LEMMA FlattenOnly ==
  ASSUME NEW a, NEW b, NEW g, NEW h, Flattens(a, g), Flattens(b, h),
         NEW n \in Nat, Len(a) \in Nat, Len(b) \in Nat, n <= Len(a), n <= Len(b), n # 0,
         \A i \in 1 .. n : a[i] = b[i]
  PROVE  g[n] = h[n]
<1>1. /\ \A i \in 1 .. Len(a) : g[i] = IF i = 1 THEN a[i] ELSE g[i - 1] \o a[i]
      /\ \A i \in 1 .. Len(b) : h[i] = IF i = 1 THEN b[i] ELSE h[i - 1] \o b[i]
  BY DEF Flattens
<1> DEFINE Same == {i \in Nat : i + 1 <= n => g[i + 1] = h[i + 1]}
<1>2. \A i \in Nat : i \in Same
  <2>1. 0 \in Same
    <3>1. ASSUME 1 <= n PROVE g[1] = h[1]
      <4>1. 1 \in 1 .. Len(a) /\ 1 \in 1 .. Len(b) /\ 1 \in 1 .. n
        BY <3>1
      <4> QED BY <4>1, <1>1
    <3> QED BY <3>1
  <2>2. ASSUME NEW i \in Nat, i \in Same PROVE i + 1 \in Same
    <3> SUFFICES ASSUME (i + 1) + 1 <= n PROVE g[(i + 1) + 1] = h[(i + 1) + 1]
      OBVIOUS
    <3> DEFINE j == (i + 1) + 1
    <3>1. j \in 1 .. Len(a) /\ j \in 1 .. Len(b) /\ j \in 1 .. n /\ j # 1 /\ j - 1 = i + 1 /\ i + 1 <= n
      OBVIOUS
    <3> HIDE DEF j
    <3>2. g[j] = g[i + 1] \o a[j] /\ h[j] = h[i + 1] \o b[j] /\ a[j] = b[j]
      BY <3>1, <1>1
    <3>3. g[i + 1] = h[i + 1]
      BY <3>1, <2>2
    <3> QED BY <3>2, <3>3 DEF j
  <2> HIDE DEF Same
  <2> QED BY <2>1, <2>2, Induction
<1>3. ASSUME NEW i \in 1 .. n PROVE g[i] = h[i]
  <2>1. i - 1 \in Nat /\ (i - 1) + 1 = i /\ i <= n
    OBVIOUS
  <2> QED BY <2>1, <1>2
<1>4. n \in 1 .. n
  OBVIOUS
<1> QED BY <1>3, <1>4

\* What the first n sequences are together.
Flat(seqs, n) == FlattenSeq(SubSeq(seqs, 1, n))

\* FlattenSeq is the last of them.
LEMMA FlattenIs ==
  ASSUME NEW seqs, Len(seqs) # 0, NEW g, Flattens(seqs, g)
  PROVE  \E h : Flattens(seqs, h) /\ FlattenSeq(seqs) = h[Len(seqs)]
<1> DEFINE h == CHOOSE h : h = [i \in 1 .. Len(seqs) |-> IF i = 1 THEN seqs[i] ELSE h[i - 1] \o seqs[i]]
<1>1. FlattenSeq(seqs) = h[Len(seqs)]
  BY DEF FlattenSeq
<1>2. Flattens(seqs, h)
  BY DEF Flattens
<1> QED BY <1>1, <1>2

\* Flat takes in one text more with each step and ends with FlattenSeq.
LEMMA FlatIs ==
  ASSUME NEW S, NEW seqs \in Seq(Seq(S))
  PROVE  /\ Flat(seqs, 0) = <<>>
         /\ \A n \in 0 .. Len(seqs) - 1 : Flat(seqs, n + 1) = Flat(seqs, n) \o seqs[n + 1]
         /\ Flat(seqs, Len(seqs)) = FlattenSeq(seqs)
<1>1. Flat(seqs, 0) = <<>>
  <2>1. SubSeq(seqs, 1, 0) = <<>>
    OBVIOUS
  <2> QED BY <2>1 DEF Flat, FlattenSeq
<1>2. Flat(seqs, Len(seqs)) = FlattenSeq(seqs)
  BY SubSeqFull DEF Flat
<1>3. ASSUME NEW n \in 0 .. Len(seqs) - 1 PROVE Flat(seqs, n + 1) = Flat(seqs, n) \o seqs[n + 1]
  <2> DEFINE a == SubSeq(seqs, 1, n)
             b == SubSeq(seqs, 1, n + 1)
  <2>1. a \in Seq(Seq(S)) /\ Len(a) = n /\ \A i \in 1 .. n : a[i] = seqs[i]
    <3>1. 1 \in 1 .. Len(seqs) + 1 /\ n \in 1 - 1 .. Len(seqs) /\ n - 1 + 1 = n /\ \A i \in 1 .. n : 1 + i - 1 = i
      OBVIOUS
    <3>2. /\ a \in Seq(Seq(S)) /\ Len(a) = n - 1 + 1 /\ \A i \in 1 .. n - 1 + 1 : a[i] = seqs[1 + i - 1]
      BY <3>1, PartIs
    <3> HIDE DEF a
    <3> QED BY <3>1, <3>2
  <2>2. b \in Seq(Seq(S)) /\ Len(b) = n + 1 /\ \A i \in 1 .. n + 1 : b[i] = seqs[i]
    <3> DEFINE m == n + 1
    <3>1. 1 \in 1 .. Len(seqs) + 1 /\ m \in 1 - 1 .. Len(seqs) /\ m - 1 + 1 = m /\ \A i \in 1 .. m : 1 + i - 1 = i
      OBVIOUS
    <3>2. /\ b \in Seq(Seq(S)) /\ Len(b) = m - 1 + 1 /\ \A i \in 1 .. m - 1 + 1 : b[i] = seqs[1 + i - 1]
      <4> HIDE DEF m
      <4>1. /\ SubSeq(seqs, 1, m) \in Seq(Seq(S)) /\ Len(SubSeq(seqs, 1, m)) = m - 1 + 1
            /\ \A i \in 1 .. m - 1 + 1 : SubSeq(seqs, 1, m)[i] = seqs[1 + i - 1]
        BY <3>1, PartIs
      <4> QED BY <4>1 DEF m
    <3> HIDE DEF b, m
    <3>3. b \in Seq(Seq(S)) /\ Len(b) = m /\ \A i \in 1 .. m : b[i] = seqs[i]
      BY <3>1, <3>2
    <3> QED BY <3>3 DEF m
  <2> HIDE DEF a, b
  <2>3. seqs[n + 1] \in Seq(S)
    OBVIOUS
  <2>4. PICK h0 \in [1 .. Len(b) -> Seq(S)] : Flattens(b, h0)
    BY <2>2, FlattenExists
  <2>5. PICK h : Flattens(b, h) /\ FlattenSeq(b) = h[Len(b)]
    <3>1. Len(b) # 0
      BY <2>2
    <3> QED BY <3>1, <2>4, FlattenIs
  <2>6. \A i \in 1 .. n + 1 : h[i] = IF i = 1 THEN b[i] ELSE h[i - 1] \o b[i]
    BY <2>2, <2>5 DEF Flattens
  <2>7. CASE n = 0
    <3>1. FlattenSeq(b) = seqs[n + 1]
      <4>1. n + 1 \in 1 .. n + 1 /\ n + 1 = 1
        BY <2>7
      <4>2. h[n + 1] = b[n + 1]
        BY <4>1, <2>6
      <4> QED BY <4>1, <4>2, <2>2, <2>5
    <3>2. Flat(seqs, n) = <<>>
      BY <2>7, <1>1
    <3>3. <<>> \o seqs[n + 1] = seqs[n + 1]
      BY <2>3
    <3> QED BY <3>1, <3>2, <3>3 DEF Flat, b
  <2>8. CASE n # 0
    <3>1. PICK g0 \in [1 .. Len(a) -> Seq(S)] : Flattens(a, g0)
      BY <2>1, FlattenExists
    <3>2. PICK g : Flattens(a, g) /\ FlattenSeq(a) = g[Len(a)]
      <4>1. Len(a) # 0
        BY <2>1, <2>8
      <4> QED BY <4>1, <3>1, FlattenIs
    <3>3. g[n] = h[n]
      <4>1. n \in Nat /\ n # 0 /\ Len(a) \in Nat /\ Len(b) \in Nat /\ n <= Len(a) /\ n <= Len(b)
        BY <2>1, <2>2, <2>8
      <4>2. ASSUME NEW i \in 1 .. n PROVE a[i] = b[i]
        <5>1. i \in 1 .. n + 1
          OBVIOUS
        <5> QED BY <5>1, <2>1, <2>2
      <4>3. Flattens(a, g) /\ Flattens(b, h)
        BY <3>2, <2>5
      <4> QED BY <4>1, <4>2, <4>3, FlattenOnly
    <3>4. h[n + 1] = h[n] \o b[n + 1]
      <4>1. n + 1 \in 1 .. n + 1 /\ n + 1 # 1 /\ (n + 1) - 1 = n
        BY <2>8
      <4> QED BY <4>1, <2>6
    <3>5. n \in 1 .. n /\ n + 1 \in 1 .. n + 1
      BY <2>8
    <3>6. FlattenSeq(b) = FlattenSeq(a) \o seqs[n + 1]
      BY <3>2, <3>3, <3>4, <3>5, <2>1, <2>2, <2>5
    <3> QED BY <3>6 DEF Flat, a, b
  <2> QED BY <2>7, <2>8
<1> QED BY <1>1, <1>2, <1>3

\* A partial concatenation is a text.
LEMMA FlatType ==
  ASSUME NEW S, NEW seqs \in Seq(Seq(S))
  PROVE  \A n \in 0 .. Len(seqs) : Flat(seqs, n) \in Seq(S)
<1> DEFINE Typed == {n \in Nat : n <= Len(seqs) => Flat(seqs, n) \in Seq(S)}
<1>1. 0 \in Typed
  <2>1. Flat(seqs, 0) = <<>> /\ <<>> \in Seq(S)
    BY FlatIs
  <2> QED BY <2>1
<1>2. ASSUME NEW n \in Nat, n \in Typed PROVE n + 1 \in Typed
  <2> SUFFICES ASSUME n + 1 <= Len(seqs) PROVE Flat(seqs, n + 1) \in Seq(S)
    OBVIOUS
  <2>1. n \in 0 .. Len(seqs) - 1 /\ n <= Len(seqs) /\ seqs[n + 1] \in Seq(S)
    OBVIOUS
  <2>2. Flat(seqs, n) \in Seq(S)
    BY <2>1, <1>2
  <2>3. Flat(seqs, n + 1) = Flat(seqs, n) \o seqs[n + 1]
    BY <2>1, FlatIs
  <2> QED BY <2>1, <2>2, <2>3, ConcatIs
<1>3. \A n \in Nat : n \in Typed
  <2> HIDE DEF Typed
  <2> QED BY <1>1, <1>2, Induction
<1> QED BY <1>3

\* Sequences that begin alike are alike as far.
LEMMA FlatSame ==
  ASSUME NEW S, NEW a \in Seq(Seq(S)), NEW b \in Seq(Seq(S)), NEW n \in Nat,
         n <= Len(a), n <= Len(b), \A i \in 1 .. n : a[i] = b[i]
  PROVE  Flat(a, n) = Flat(b, n)
<1>1. SubSeq(a, 1, n) = SubSeq(b, 1, n)
  OBVIOUS
<1> QED BY <1>1 DEF Flat

(***************************************************************************)
(* A line that is appended                                                 *)
(***************************************************************************)
\* After a round over either: in the part that they share, or the one at its end
\* and the other behind the newline.
Level(short, length, a, b) ==
  \/ b = a /\ a.start \in 1 .. length + 1
  \/ a.start > Len(short) + 1 /\ b = State(length + 2, a.environment, a.secrets, TRUE)

\* Rounds that read twin texts from the same state stay level.
LEMMA RoundTwins ==
  ASSUME NEW S, NEW short, NEW long, NEW length, Twins(S, short, long, length),
         NEW state \in ReadState(S), state.valid, state.start \in 1 .. length + 1,
         ReadStatement(short, state).valid
  PROVE  Level(short, length, ReadStatement(short, state), ReadStatement(long, state))
<1> DEFINE start == state.start
           a == LineEnd(short, start)
           b == LineEnd(long, start)
           line == LineAt(short, start)
           next == ReadStatement(short, state)
<1>1. /\ short \in Seq(S) /\ long \in Seq(S) /\ length \in Nat
      /\ Len(short) \in Nat /\ Len(long) \in Nat
      /\ length <= Len(short) /\ Len(short) <= length + 1 /\ length + 1 <= Len(long)
  BY TwinsAre
<1>2. ~(start > Len(short) + 1) /\ ~(start > Len(long) + 1) /\ start \in 1 .. length + 1
  BY <1>1
<1>a. start \in 1 .. Len(short) + 1 /\ start \in 1 .. Len(long) + 1
  BY <1>1
<1>3. Ends(short, length, a, b) /\ LineAt(long, start) = line
  BY LineEndTwins, LineTwins
<1>4. /\ Skips(long, start) <=> Skips(short, start)
      /\ Brackets(long, start) <=> Brackets(short, start)
  BY <1>3 DEF Skips, Brackets
<1>5. ASSUME NEW x, NEW y \in Nat, y >= 1, Ends(short, length, x, y), NEW e, NEW secrets,
             next = State(x + 1, e, secrets, TRUE),
             ReadStatement(long, state) = State(y + 1, e, secrets, TRUE)
      PROVE  Level(short, length, next, ReadStatement(long, state))
  <2>1. next.start = x + 1 /\ next.environment = e /\ next.secrets = secrets
    BY <1>5 DEF State
  <2> HIDE DEF next
  <2>2. CASE x = y /\ y <= length
    <3>1. ReadStatement(long, state) = next /\ next.start \in 1 .. length + 1
      BY <2>1, <2>2, <1>1, <1>5
    <3> QED BY <3>1 DEF Level
  <2>3. CASE x = Len(short) + 1 /\ y = length + 1
    <3>1. next.start > Len(short) + 1 /\ y + 1 = length + 2
      BY <2>1, <2>3, <1>1
    <3> QED BY <3>1, <2>1, <1>5 DEF Level
  <2> QED BY <2>2, <2>3, <1>5 DEF Ends
<1>6. b \in Nat /\ b >= 1
  <2>1. b \in start .. Len(long) + 1
    BY <1>1, <1>a, LineEndIs
  <2> HIDE DEF b
  <2> QED BY <2>1, <1>2
<1>7. next.valid
  OBVIOUS
<1> HIDE DEF next, line, a, b
<1>8. CASE Skips(short, start)
  <2>1. next = State(a + 1, state.environment, state.secrets, TRUE)
    BY <1>2, <1>8, RoundSkips DEF next, a
  <2>2. ReadStatement(long, state) = State(b + 1, state.environment, state.secrets, TRUE)
    BY <1>2, <1>4, <1>8, RoundSkips DEF b
  <2> QED BY <2>1, <2>2, <1>3, <1>5, <1>6 DEF next
<1>9. CASE Brackets(short, start) /\ IsSection(line)
  <2>1. next = State(a + 1, Section(line), state.secrets, TRUE)
    BY <1>2, <1>9, RoundSection DEF next, a, line
  <2>2. ReadStatement(long, state) = State(b + 1, Section(line), state.secrets, TRUE)
    BY <1>2, <1>3, <1>4, <1>9, RoundSection DEF b, line
  <2> QED BY <2>1, <2>2, <1>3, <1>5, <1>6 DEF next
<1>10. CASE ~Skips(short, start) /\ ~Brackets(short, start) /\ AssignmentAt(short, start).valid
  <2> DEFINE x == StatementEnd(short, start)
             y == StatementEnd(long, start)
             secret == SecretAt(short, state)
  <2>1. next = State(x + 1, state.environment, Append(state.secrets, secret), TRUE)
    BY <1>2, <1>10, RoundAssigns DEF next
  <2>2. AssignmentAt(long, start) = AssignmentAt(short, start)
    BY <1>10, AssignmentTwins
  <2>3. SecretAt(long, state) = secret
    BY <2>2 DEF SecretAt
  <2>4. ReadStatement(long, state) = State(y + 1, state.environment, Append(state.secrets, secret), TRUE)
    BY <2>2, <2>3, <1>2, <1>4, <1>10, RoundAssigns
  <2>5. Ends(short, length, x, y)
    BY <1>10, StatementTwins
  <2>6. y \in Nat /\ y >= 1
    <3>1. y \in b .. Len(long) + 1
      BY <1>1, <1>a, StatementEndIn DEF b
    <3> HIDE DEF y
    <3> QED BY <3>1, <1>6
  <2> HIDE DEF x, y, secret
  <2> QED BY <2>1, <2>4, <2>5, <2>6, <1>5 DEF next
<1>11. CASE ~Skips(short, start) /\ IF Brackets(short, start) THEN ~IsSection(line)
                                    ELSE ~AssignmentAt(short, start).valid
  <2>1. next = State(start, state.environment, state.secrets, FALSE)
    BY <1>2, <1>11, RoundFails DEF next, line
  <2>2. FALSE
    BY <2>1, <1>7 DEF State
  <2> QED BY <2>2
<1>12. Skips(short, start) => ~Brackets(short, start)
  BY DEF Brackets
<1> QED BY <1>8, <1>9, <1>10, <1>11, <1>12

\* Some round over a text leaves it behind a length, with these secrets.
Passes(S, text, length, secrets) ==
  \E n \in Nat, e \in Seq(S) :
    n <= length + 2 /\ Read(text)[n] = State(length + 2, e, secrets, TRUE)

\* What is read of the one is read of the other, which then stands behind the newline.
LEMMA ReadTwins ==
  ASSUME NEW S, NEW short, NEW long, NEW length, Twins(S, short, long, length),
         Statements(short).valid
  PROVE  Passes(S, long, length, Statements(short).secrets)
<1> DEFINE r == Read(short)
           q == Read(long)
           m == Len(short) + 1
<1>1. /\ short \in Seq(S) /\ long \in Seq(S) /\ length \in Nat
      /\ Len(short) \in Nat /\ length <= Len(short) /\ Len(short) <= length + 1
  BY TwinsAre
<1>2. /\ r \in [Nat -> Reads(S)] /\ r[0] = ReadStart /\ q[0] = ReadStart
      /\ \A n \in Nat : r[n + 1] = ReadStatement(short, r[n])
      /\ \A n \in Nat : q[n + 1] = ReadStatement(long, q[n])
      /\ Statements(short) = r[m]
  BY <1>1, ReadRuns
<1>3. ASSUME NEW n \in Nat PROVE r[n] \in ReadState(S) /\ r[n].environment \in Seq(S)
  <2>1. r[n] \in ReadState(S)
    BY <1>2 DEF Reads
  <2> QED BY <2>1 DEF ReadState
<1>4. (\A n \in Nat : r[n].valid) /\ r[m].start > m
  BY <1>1, <1>2, ReadAccepts
<1>5. ASSUME NEW n \in Nat, n <= m, r[n].start > m PROVE Statements(short) = r[n]
  BY <1>1, <1>5, ReadEnds
<1>6. m \in Nat /\ m <= length + 2 /\ m > length
  BY <1>1
<1> HIDE DEF r, q
<1> DEFINE Done(n) == /\ r[n].start > m
                      /\ q[n] = State(length + 2, r[n].environment, r[n].secrets, TRUE)
           Same == {n \in Nat : \/ q[n] = r[n] /\ r[n].start \in 1 .. length + 1
                                \/ \E k \in Nat : k <= n /\ Done(k)}
<1>7. \A n \in Nat : n \in Same
  <2>1. 0 \in Same
    <3>1. q[0] = r[0] /\ r[0].start = 1 /\ 1 \in 1 .. length + 1
      BY <1>1, <1>2 DEF ReadStart
    <3> QED BY <3>1
  <2>2. ASSUME NEW n \in Nat, n \in Same PROVE n + 1 \in Same
    <3>1. CASE \E k \in Nat : k <= n /\ Done(k)
      <4>1. PICK k \in Nat : k <= n /\ Done(k)
        BY <3>1
      <4>2. k <= n + 1
        BY <4>1
      <4> HIDE DEF Done
      <4> QED BY <4>1, <4>2
    <3>2. CASE q[n] = r[n] /\ r[n].start \in 1 .. length + 1
      <4>1. r[n + 1] = ReadStatement(short, r[n]) /\ q[n + 1] = ReadStatement(long, r[n])
        BY <3>2, <1>2
      <4>2. r[n + 1].valid /\ r[n].valid /\ r[n] \in ReadState(S)
        BY <1>3, <1>4
      <4>3. ReadStatement(short, r[n]).valid
        BY <4>1, <4>2
      <4>4. Level(short, length, ReadStatement(short, r[n]), ReadStatement(long, r[n]))
        <5> DEFINE state == r[n]
        <5>1. state \in ReadState(S)
          BY <4>2
        <5>2. state.valid
          BY <4>2
        <5>3. state.start \in 1 .. length + 1
          BY <3>2
        <5>4. ReadStatement(short, state).valid
          BY <4>3
        <5> HIDE DEF state
        <5>5. Level(short, length, ReadStatement(short, state), ReadStatement(long, state))
          BY <5>1, <5>2, <5>3, <5>4, RoundTwins
        <5> QED BY <5>5 DEF state
      <4>5. \/ q[n + 1] = r[n + 1] /\ r[n + 1].start \in 1 .. length + 1
            \/ Done(n + 1)
        BY <4>1, <4>4 DEF Level
      <4>6. n + 1 \in Nat /\ n + 1 <= n + 1
        OBVIOUS
      <4> HIDE DEF Done
      <4> QED BY <4>5, <4>6
    <3> HIDE DEF Done
    <3> QED BY <3>1, <3>2, <2>2
  <2> HIDE DEF Same
  <2> QED BY <2>1, <2>2, Induction
<1>8. PICK k \in Nat : k <= m /\ Done(k)
  <2>1. ~(r[m].start \in 1 .. length + 1)
    <3>1. r[m] \in ReadState(S)
      BY <1>3, <1>6
    <3>2. r[m].start \in Nat
      BY <3>1, StateIs
    <3> HIDE DEF m
    <3> QED BY <3>2, <1>1, <1>4, <1>6
  <2>2. m \in Same
    BY <1>6, <1>7
  <2> HIDE DEF Done, m
  <2> QED BY <2>1, <2>2
<1>9. Statements(short) = r[k]
  BY <1>5, <1>8
<1>10. k <= length + 2
  <2>1. k <= m
    BY <1>8
  <2> HIDE DEF Done, m
  <2> QED BY <2>1, <1>1, <1>6
<1>11. q[k] = State(length + 2, r[k].environment, Statements(short).secrets, TRUE)
  BY <1>8, <1>9
<1>12. r[k].environment \in Seq(S)
  BY <1>3
<1> QED BY <1>10, <1>11, <1>12 DEF q, Passes

\* No letter means anything to the parser.
LEMMA LettersArePlain ==
  ASSUME NEW l \in Letters
  PROVE  l \notin Space /\ l \notin Quotes /\ l \notin Marks /\ l \notin {"=", "#", ";", "[", "]"}
BY LettersAssumption

\* A part of one character.
LEMMA PartOfOne ==
  ASSUME NEW S, NEW text \in Seq(S), NEW i \in 1 .. Len(text)
  PROVE  SubSeq(text, i, i) = <<text[i]>>
<1> DEFINE one == <<text[i]>>
<1>1. one \in Seq(S) /\ Len(one) = 1 /\ one[1] = text[i]
  OBVIOUS
<1>2. i \in 1 .. Len(text) + 1 /\ i \in i - 1 .. Len(text) /\ i - i + 1 = 1 /\ i + 1 - 1 = i
  OBVIOUS
<1>3. /\ SubSeq(text, i, i) \in Seq(S) /\ Len(SubSeq(text, i, i)) = i - i + 1
      /\ \A j \in 1 .. i - i + 1 : SubSeq(text, i, i)[j] = text[i + j - 1]
  BY <1>2, PartIs
<1> HIDE DEF one
<1>4. SubSeq(text, i, i)[1] = text[i]
  BY <1>2, <1>3
<1>5. SubSeq(text, i, i) = one
  BY <1>1, <1>2, <1>3, <1>4, SameSeq
<1> QED BY <1>5 DEF one

\* The line <letter>=<letter>.
Plain(l) == <<l, "=", l>>

\* The assignment of a letter to itself is read as that.
LEMMA PlainAssignment ==
  ASSUME NEW l \in Letters
  PROVE  /\ ParseAssignment(Plain(l)) = [valid |-> TRUE, key |-> <<l>>, value |-> <<l>>]
         /\ Trim(Plain(l)) = Plain(l)
<1> DEFINE S == {l, "="}
           statement == Plain(l)
           a == Separator(statement)
<1>1. l \notin Space /\ l \notin Quotes /\ l # "="
  BY LettersArePlain
<1>2. /\ statement \in Seq(S) /\ Len(statement) = 3 /\ statement # <<>>
      /\ statement[1] = l /\ statement[2] = "=" /\ statement[3] = l
  BY DEF Plain
<1>3. <<l>> \in Seq(S) /\ Len(<<l>>) = 1 /\ <<l>> # <<>> /\ <<l>>[1] = l
  OBVIOUS
<1> HIDE DEF statement
<1>a. SubSeq(statement, 1, 1) = <<l>> /\ SubSeq(statement, 3, 3) = <<l>>
  BY <1>2, PartOfOne
<1>4. Trim(statement) = statement
  BY <1>1, <1>2, TrimSelf
<1>5. Trim(<<l>>) = <<l>> /\ TrimStart(<<l>>) = <<l>>
  <2> DEFINE one == <<l>>
  <2>1. one \in Seq(S) /\ one # <<>> /\ one[1] \notin Space /\ one[Len(one)] \notin Space
    BY <1>1, <1>3
  <2> HIDE DEF one
  <2>2. Trim(one) = one /\ TrimStart(one) = one
    BY <2>1, TrimSelf, TrimStartSelf
  <2> QED BY <2>2 DEF one
<1>6. LineEnd(statement, 1) = 4
  <2>1. 1 \in 1 .. Len(statement) + 1 /\ 4 \in 1 .. Len(statement) + 1 /\ ~(4 <= Len(statement))
    BY <1>2
  <2>2. ASSUME NEW i \in 1 .. 4 - 1 PROVE statement[i] # "\n"
    <3>1. i = 1 \/ i = 2 \/ i = 3
      OBVIOUS
    <3>2. l # "\n"
      BY <1>1 DEF Space
    <3> QED BY <3>1, <3>2, <1>2
  <2> QED BY <2>1, <2>2, <1>2, LineEndOnly
<1>7. a = 2
  <2>1. /\ a \in 1 .. Len(statement) + 1
        /\ a <= Len(statement) => statement[a] = "="
        /\ \A i \in 1 .. LineEnd(statement, 1) - 1 : statement[i] = "=" => a <= i
    BY <1>2, SeparatorIs
  <2>2. 2 \in 1 .. LineEnd(statement, 1) - 1
    BY <1>6
  <2>3. a <= 2
    BY <2>1, <2>2, <1>2
  <2>4. a # 1
    BY <2>1, <2>3, <1>1, <1>2
  <2> QED BY <2>1, <2>3, <2>4, <1>2
<1>8. Name(statement) = <<l>> /\ From(statement, a + 1) = <<l>>
  <2>1. SubSeq(statement, 1, a - 1) = <<l>>
    BY <1>7, <1>a
  <2>2. SubSeq(statement, a + 1, Len(statement)) = <<l>>
    <3>1. a + 1 = 3
      BY <1>7
    <3> QED BY <3>1, <1>2, <1>a
  <2> QED BY <2>1, <2>2, <1>5 DEF Name, From, a
<1>9. Key(statement) = <<l>> /\ IsKey(<<l>>)
  <2>1. ~IsPrefix(ExportPrefix, <<l>>)
    <3>1. Len(ExportPrefix) = 2
      BY DEF ExportPrefix
    <3> QED BY <3>1, <1>3 DEF IsPrefix
  <2>2. ToSet(<<l>>) = {l}
    BY DEF ToSet
  <2> QED BY <2>1, <2>2, <1>3, <1>8 DEF Key, IsKey
<1>10. ParseValue(<<l>>) = [valid |-> TRUE, value |-> <<l>>]
  <2>1. CommentStarts(<<l>>) = {}
    BY <1>1, <1>3 DEF CommentStarts
  <2>2. Min(CommentStarts(<<l>>) \cup {Len(<<l>>) + 1}) = 2
    <3>1. {2} \in SUBSET Nat /\ {2} # {} /\ CommentStarts(<<l>>) \cup {Len(<<l>>) + 1} = {2}
      BY <2>1, <1>3
    <3>2. Min({2}) \in {2}
      BY <3>1, MinIsLeast
    <3> QED BY <3>1, <3>2
  <2>3. SubSeq(<<l>>, 1, 2 - 1) = <<l>>
    <3>1. 2 - 1 = 1 /\ 1 \in 1 .. Len(<<l>>)
      BY <1>3
    <3> QED BY <3>1, <1>3, PartOfOne
  <2>4. ~(<<l>> # <<>> /\ <<l>>[1] \in Quotes)
    BY <1>1, <1>3
  <2> QED BY <2>2, <2>3, <2>4, <1>5 DEF ParseValue
<1>11. Value(statement) = <<l>>
  BY <1>5, <1>8 DEF Value, a
<1>12. ~(a > Len(statement))
  BY <1>2, <1>7
<1>13. ParseAssignment(statement) = [valid |-> TRUE, key |-> <<l>>, value |-> <<l>>]
  BY <1>9, <1>10, <1>11, <1>12, AssignmentIs DEF a
<1> QED BY <1>4, <1>13 DEF statement

\* The last line of a text, when it is such a line.
LEMMA PlainRound ==
  ASSUME NEW S, NEW text \in Seq(S), NEW l \in Letters, NEW start \in Nat, start # 0,
         Len(text) = start + 2, SubSeq(text, start, start + 2) = Plain(l),
         NEW state \in ReadState(S), state.start = start, state.valid
  PROVE  ReadStatement(text, state) =
           State(start + 4, state.environment,
                 Append(state.secrets,
                        [key |-> <<l>>, value |-> <<l>>, environment |-> state.environment]), TRUE)
<1> DEFINE end == start + 3
<1>1. l \notin Space /\ l \notin Quotes /\ l \notin {"=", "#", ";", "[", "]"}
  BY LettersArePlain
<1>2. Len(Plain(l)) = 3 /\ Plain(l)[1] = l /\ Plain(l)[2] = "=" /\ Plain(l)[3] = l
  BY DEF Plain
<1>3. text[start] = l /\ text[start + 1] = "=" /\ text[start + 2] = l
  <2>1. start \in 1 .. Len(text) + 1 /\ start + 2 \in start - 1 .. Len(text) /\ (start + 2) - start + 1 = 3
    OBVIOUS
  <2> DEFINE b == start + 2
  <2> HIDE DEF b
  <2>2. \A i \in 1 .. b - start + 1 : SubSeq(text, start, b)[i] = text[start + i - 1]
    <3>1. start \in 1 .. Len(text) + 1 /\ b \in start - 1 .. Len(text)
      BY <2>1 DEF b
    <3> QED BY <3>1, PartIs
  <2>3. \A i \in 1 .. 3 : Plain(l)[i] = text[start + i - 1]
    BY <2>1, <2>2 DEF b
  <2>4. start + 1 - 1 = start /\ start + 2 - 1 = start + 1 /\ start + 3 - 1 = start + 2
    OBVIOUS
  <2> QED BY <2>3, <2>4, <1>2
<1>4. start \in 1 .. Len(text) + 1
  OBVIOUS
<1>5. LineEnd(text, start) = end
  <2>1. end \in start .. Len(text) + 1 /\ ~(end <= Len(text))
    OBVIOUS
  <2>2. ASSUME NEW i \in start .. end - 1 PROVE text[i] # "\n"
    <3>1. i = start \/ i = start + 1 \/ i = start + 2
      OBVIOUS
    <3>2. l # "\n"
      BY <1>1 DEF Space
    <3> QED BY <3>1, <3>2, <1>3
  <2> HIDE DEF end
  <2> QED BY <2>1, <2>2, <1>4, LineEndOnly
<1>6. end - 1 = start + 2
  OBVIOUS
<1>7. LineAt(text, start) = Plain(l)
  BY <1>5, <1>6, PlainAssignment DEF LineAt
<1>8. ~Skips(text, start) /\ ~Brackets(text, start)
  <2>1. Plain(l) # <<>>
    BY DEF Plain
  <2> QED BY <2>1, <1>1, <1>2, <1>7 DEF Skips, Brackets
<1>9. ~IsQuoted(text, start)
  <2> DEFINE sep == SeparatorAt(text, start)
             val == ValueAt(text, start)
  <2>1. sep \in start .. end /\ (sep < end => text[sep] = "=")
    BY <1>4, <1>5, PlacesIn
  <2>2. val \in start .. end /\ (val < end => sep < val /\ text[val] \notin Space)
    BY <1>4, <1>5, PlacesIn
  <2> HIDE DEF sep, val
  <2>3. ASSUME val < end PROVE text[val] \notin Quotes
    <3>1. sep < end /\ sep # start
      <4>1. sep < end
        BY <2>1, <2>2, <2>3
      <4>2. text[sep] = "="
        BY <4>1, <2>1
      <4> QED BY <4>1, <4>2, <1>1, <1>3
    <3>2. val = start + 2
      BY <3>1, <2>1, <2>2, <2>3
    <3> QED BY <3>2, <1>1, <1>3
  <2> QED BY <2>3, <1>5 DEF IsQuoted, val
<1>10. StatementEnd(text, start) = end
  BY <1>5, <1>9, StatementEndIs
<1>11. StatementAt(text, start) = Plain(l)
  BY <1>6, <1>10 DEF StatementAt
<1>12. AssignmentAt(text, start) = [valid |-> TRUE, key |-> <<l>>, value |-> <<l>>]
  BY <1>11, PlainAssignment DEF AssignmentAt
<1>13. SecretAt(text, state) = [key |-> <<l>>, value |-> <<l>>, environment |-> state.environment]
  BY <1>12 DEF SecretAt
<1>14. ~(state.start > Len(text) + 1) /\ ~Skips(text, state.start) /\ ~Brackets(text, state.start)
  BY <1>8
<1>15. AssignmentAt(text, state.start).valid
  BY <1>12
<1>16. end + 1 = start + 4 /\ StatementEnd(text, state.start) = end
  BY <1>10
<1> QED BY <1>13, <1>14, <1>15, <1>16, RoundAssigns

\* What LineBreaks makes of every character.
Pieces(text) ==
  [i \in DOMAIN text |->
     IF text[i] = "\r" /\ i < Len(text) /\ text[i + 1] = "\n" THEN <<>> ELSE <<text[i]>>]

\* Normalised line breaks are the pieces put together, where a carriage return
\* before a line break gives way.
LEMMA PiecesAre ==
  ASSUME NEW S, NEW text \in Seq(S)
  PROVE  /\ Pieces(text) \in Seq(Seq(S)) /\ Len(Pieces(text)) = Len(text)
         /\ \A i \in 1 .. Len(text) :
              Pieces(text)[i] =
                IF text[i] = "\r" /\ i < Len(text) /\ text[i + 1] = "\n" THEN <<>> ELSE <<text[i]>>
         /\ LineBreaks(text) = Flat(Pieces(text), Len(text))
         /\ LineBreaks(text) \in Seq(S)
<1> DEFINE P == Pieces(text)
<1>1. P \in Seq(Seq(S)) /\ Len(P) = Len(text)
  <2>1. ASSUME NEW i \in DOMAIN text
        PROVE  (IF text[i] = "\r" /\ i < Len(text) /\ text[i + 1] = "\n" THEN <<>> ELSE <<text[i]>>)
                 \in Seq(S)
    <3>1. <<text[i]>> \in Seq(S) /\ <<>> \in Seq(S)
      OBVIOUS
    <3> QED BY <3>1
  <2>2. P \in [1 .. Len(text) -> Seq(S)]
    BY <2>1 DEF Pieces
  <2> QED BY <2>2
<1>2. \A i \in 1 .. Len(text) :
        P[i] = IF text[i] = "\r" /\ i < Len(text) /\ text[i + 1] = "\n" THEN <<>> ELSE <<text[i]>>
  BY DEF Pieces
<1>3. LineBreaks(text) = FlattenSeq(P)
  BY DEF LineBreaks, Pieces
<1> HIDE DEF P
<1>4. FlattenSeq(P) = Flat(P, Len(P))
  BY <1>1, FlatIs
<1>5. LineBreaks(text) = Flat(P, Len(text))
  BY <1>1, <1>3, <1>4
<1>6. LineBreaks(text) \in Seq(S)
  <2>1. Len(P) \in 0 .. Len(P)
    BY <1>1
  <2> QED BY <2>1, <1>1, <1>5, FlatType
<1> QED BY <1>1, <1>2, <1>5, <1>6 DEF P

\* What is appended after a newline is behind the text but for its last carriage return.
LEMMA LineBreaksLonger ==
  ASSUME NEW S, "\n" \in S, NEW body \in Seq(S), NEW l \in S, l # "\r", "=" \in S
  PROVE  \E base \in Seq(S) :
           /\ LineBreaks(body) \in Seq(S) /\ Alike(LineBreaks(body), base)
           /\ LineBreaks(body \o (<<"\n">> \o Plain(l))) = base \o (<<"\n">> \o Plain(l))
<1> DEFINE x == <<"\n">> \o Plain(l)
           long == body \o x
           P == Pieces(body)
           Q == Pieces(long)
           L == Len(body)
           base == Flat(Q, L)
<1>1. x \in Seq(S) /\ Len(x) = 4 /\ x[1] = "\n" /\ x[2] = l /\ x[3] = "=" /\ x[4] = l
  BY DEF Plain
<1>2. Len(body) \in Nat
  OBVIOUS
<1> HIDE DEF x
<1>3. /\ long \in Seq(S) /\ Len(long) = L + 4
      /\ \A i \in 1 .. L : long[i] = body[i]
      /\ \A i \in 1 .. 4 : long[L + i] = x[i]
  <2>1. /\ long \in Seq(S) /\ Len(long) = L + Len(x)
        /\ \A i \in 1 .. L : long[i] = body[i]
        /\ \A i \in 1 .. Len(x) : long[L + i] = x[i]
    <3>1. body \in Seq(S) /\ x \in Seq(S)
      BY <1>1
    <3> QED BY <3>1, ConcatIs
  <2> HIDE DEF long, L
  <2> QED BY <2>1, <1>1
<1> HIDE DEF long
<1>4. /\ P \in Seq(Seq(S)) /\ Len(P) = L
      /\ \A i \in 1 .. L : P[i] = IF body[i] = "\r" /\ i < L /\ body[i + 1] = "\n" THEN <<>> ELSE <<body[i]>>
      /\ LineBreaks(body) = Flat(P, L) /\ LineBreaks(body) \in Seq(S)
  BY PiecesAre
<1>5. /\ Q \in Seq(Seq(S)) /\ Len(Q) = Len(long)
      /\ \A i \in 1 .. Len(long) :
           Q[i] = IF long[i] = "\r" /\ i < Len(long) /\ long[i + 1] = "\n" THEN <<>> ELSE <<long[i]>>
      /\ LineBreaks(long) = Flat(Q, Len(long))
  BY <1>3, PiecesAre
<1> HIDE DEF P, Q
<1>6. L \in Nat /\ Len(Q) = L + 4
  BY <1>2, <1>3, <1>5
<1> HIDE DEF L
<1>7. \A n \in 0 .. Len(Q) - 1 : Flat(Q, n + 1) = Flat(Q, n) \o Q[n + 1]
  BY <1>5, FlatIs
<1>8. ASSUME NEW k \in 1 .. 4 PROVE Q[L + k] = <<x[k]>>
  <2>1. L + k \in 1 .. Len(long) /\ long[L + k] = x[k]
    BY <1>3, <1>6
  <2>2. x[k] # "\r"
    <3>1. k = 1 \/ k = 2 \/ k = 3 \/ k = 4
      OBVIOUS
    <3> QED BY <3>1, <1>1
  <2> QED BY <2>1, <2>2, <1>5
<1>9. base \in Seq(S)
  <2>1. L \in 0 .. Len(Q)
    BY <1>6
  <2> QED BY <2>1, <1>5, FlatType
<1>10. LineBreaks(long) = base \o x
  <2>1. /\ Flat(Q, L + 1) = base \o <<x[1]>>
        /\ Flat(Q, (L + 1) + 1) = Flat(Q, L + 1) \o <<x[2]>>
        /\ Flat(Q, (L + 2) + 1) = Flat(Q, L + 2) \o <<x[3]>>
        /\ Flat(Q, (L + 3) + 1) = Flat(Q, L + 3) \o <<x[4]>>
    <3>1. /\ L \in 0 .. Len(Q) - 1 /\ L + 1 \in 0 .. Len(Q) - 1
          /\ L + 2 \in 0 .. Len(Q) - 1 /\ L + 3 \in 0 .. Len(Q) - 1
          /\ (L + 1) + 1 = L + 2 /\ (L + 2) + 1 = L + 3 /\ (L + 3) + 1 = L + 4
      BY <1>6
    <3>2. Q[L + 1] = <<x[1]>> /\ Q[L + 2] = <<x[2]>> /\ Q[L + 3] = <<x[3]>> /\ Q[L + 4] = <<x[4]>>
      BY <1>8
    <3>3. /\ Flat(Q, L + 1) = base \o Q[L + 1]
          /\ Flat(Q, (L + 1) + 1) = Flat(Q, L + 1) \o Q[(L + 1) + 1]
          /\ Flat(Q, (L + 2) + 1) = Flat(Q, L + 2) \o Q[(L + 2) + 1]
          /\ Flat(Q, (L + 3) + 1) = Flat(Q, L + 3) \o Q[(L + 3) + 1]
      BY <3>1, <1>7
    <3> QED BY <3>1, <3>2, <3>3
  <2>2. (L + 1) + 1 = L + 2 /\ (L + 2) + 1 = L + 3 /\ (L + 3) + 1 = L + 4 /\ Len(long) = L + 4
    BY <1>3, <1>6
  <2>3. LineBreaks(long) = (((base \o <<x[1]>>) \o <<x[2]>>) \o <<x[3]>>) \o <<x[4]>>
    BY <2>1, <2>2, <1>5
  <2> DEFINE b == base
             w == (((b \o <<x[1]>>) \o <<x[2]>>) \o <<x[3]>>) \o <<x[4]>>
             v == b \o x
             N == Len(b)
  <2>4. b \in Seq(S) /\ N \in Nat
    BY <1>9
  <2> HIDE DEF b
  <2>5. x[1] \in S /\ x[2] \in S /\ x[3] \in S /\ x[4] \in S
    BY <1>1
  <2>6. /\ w \in Seq(S) /\ Len(w) = N + 4 /\ \A i \in 1 .. N : w[i] = b[i]
        /\ w[N + 1] = x[1] /\ w[N + 2] = x[2] /\ w[N + 3] = x[3] /\ w[N + 4] = x[4]
    BY <2>4, <2>5
  <2>7. /\ v \in Seq(S) /\ Len(v) = N + 4 /\ \A i \in 1 .. N : v[i] = b[i]
        /\ \A i \in 1 .. 4 : v[N + i] = x[i]
    <3>1. /\ v \in Seq(S) /\ Len(v) = N + Len(x) /\ \A i \in 1 .. N : v[i] = b[i]
          /\ \A i \in 1 .. Len(x) : v[N + i] = x[i]
      <4>1. b \in Seq(S) /\ x \in Seq(S)
        BY <2>4, <1>1
      <4> QED BY <4>1, ConcatIs
    <3> HIDE DEF v, N
    <3> QED BY <3>1, <1>1
  <2> HIDE DEF w, v
  <2>8. ASSUME NEW i \in 1 .. Len(w) PROVE w[i] = v[i]
    <3>1. i \in 1 .. N \/ i = N + 1 \/ i = N + 2 \/ i = N + 3 \/ i = N + 4
      BY <2>4, <2>6
    <3> QED BY <3>1, <2>6, <2>7
  <2>9. w = v
    BY <2>6, <2>7, <2>8, SameSeq
  <2> QED BY <2>3, <2>9 DEF w, v, b
<1>11. ASSUME NEW n \in Nat, n <= L, n < L \/ L = 0 \/ body[L] # "\r" PROVE Flat(P, n) = Flat(Q, n)
  <2>1. n <= Len(P) /\ n <= Len(Q)
    BY <1>4, <1>6, <1>11
  <2>2. ASSUME NEW i \in 1 .. n PROVE P[i] = Q[i]
    <3>1. i \in 1 .. L /\ i \in 1 .. Len(long) /\ long[i] = body[i]
      BY <1>3, <1>6, <1>11
    <3>2. CASE i < L
      <4>1. i + 1 \in 1 .. L /\ i < Len(long) /\ long[i + 1] = body[i + 1]
        BY <3>2, <1>3, <1>6
      <4> QED BY <3>1, <3>2, <4>1, <1>4, <1>5
    <3>3. CASE ~(i < L)
      <4>1. i = L /\ body[i] # "\r"
        BY <3>3, <1>6, <1>11
      <4> QED BY <3>1, <4>1, <1>4, <1>5
    <3> QED BY <3>2, <3>3
  <2> QED BY <2>1, <2>2, <1>4, <1>5, FlatSame
<1>12. Alike(LineBreaks(body), base)
  <2>1. CASE L = 0 \/ body[L] # "\r"
    <3>1. Flat(P, L) = base
      BY <2>1, <1>6, <1>11
    <3> QED BY <3>1, <1>4 DEF Alike
  <2>2. CASE L # 0 /\ body[L] = "\r"
    <3>1. L - 1 \in Nat /\ L - 1 \in 0 .. Len(P) - 1 /\ L - 1 \in 0 .. Len(Q) - 1
          /\ (L - 1) + 1 = L /\ L \in 1 .. L /\ L \in 1 .. Len(long) /\ L < Len(long) /\ L - 1 <= L /\ L - 1 < L
      BY <2>2, <1>3, <1>4, <1>6
    <3>2. Flat(P, L - 1) = Flat(Q, L - 1)
      BY <3>1, <1>11
    <3>3. P[L] = <<"\r">>
      BY <3>1, <2>2, <1>4
    <3>4. Q[L] = <<>>
      <4>1. long[L] = "\r"
        BY <3>1, <2>2, <1>3
      <4>2. 1 \in 1 .. 4
        OBVIOUS
      <4>3. long[L + 1] = "\n"
        BY <4>2, <1>1, <1>3
      <4> QED BY <3>1, <4>1, <4>3, <1>5
    <3>5. Flat(P, (L - 1) + 1) = Flat(P, L - 1) \o P[(L - 1) + 1]
      BY <3>1, <1>4, FlatIs
    <3>6. Flat(Q, (L - 1) + 1) = Flat(Q, L - 1) \o Q[(L - 1) + 1]
      BY <3>1, <1>7
    <3>7. Flat(Q, L - 1) \in Seq(S)
      <4>1. L - 1 \in 0 .. Len(Q)
        BY <3>1, <1>6
      <4> QED BY <4>1, <1>5, FlatType
    <3>8. Flat(P, L) = Flat(Q, L - 1) \o <<"\r">>
      BY <3>1, <3>2, <3>3, <3>5
    <3>9. base = Flat(Q, L - 1) \o <<>>
      BY <3>1, <3>4, <3>6
    <3>10. base = Flat(Q, L - 1)
      BY <3>7, <3>9
    <3> QED BY <3>8, <3>10, <1>4 DEF Alike
  <2> QED BY <2>1, <2>2
<1> HIDE DEF base
<1> QED BY <1>4, <1>9, <1>10, <1>12 DEF long, x

\* The two are twins.
LEMMA LineBreaksTwins ==
  ASSUME NEW S, "\n" \in S, "=" \in S, NEW body \in Seq(S), NEW l \in S \cap Letters
  PROVE  \E length \in Nat :
           /\ Twins(S, LineBreaks(body), LineBreaks(body \o (<<"\n">> \o Plain(l))), length)
           /\ Len(LineBreaks(body \o (<<"\n">> \o Plain(l)))) = length + 4
           /\ SubSeq(LineBreaks(body \o (<<"\n">> \o Plain(l))), length + 2, length + 4) = Plain(l)
<1> DEFINE x == <<"\n">> \o Plain(l)
           short == LineBreaks(body)
           long == LineBreaks(body \o x)
<1>1. l # "\r"
  <2>1. l \notin Space
    BY LettersArePlain
  <2> QED BY <2>1 DEF Space
<1>2. PICK base \in Seq(S) : short \in Seq(S) /\ Alike(short, base) /\ long = base \o x
  BY <1>1, LineBreaksLonger
<1>3. x \in Seq(S) /\ Len(x) = 4 /\ x[1] = "\n" /\ x[2] = l /\ x[3] = "=" /\ x[4] = l
  BY DEF Plain
<1> HIDE DEF x, short, long
<1> DEFINE length == Len(base)
<1>4. length \in Nat
  OBVIOUS
<1>5. /\ long \in Seq(S) /\ Len(long) = length + 4
      /\ \A i \in 1 .. length : long[i] = base[i]
      /\ \A i \in 1 .. 4 : long[length + i] = x[i]
  <2> DEFINE w == base \o x
  <2>1. /\ w \in Seq(S) /\ Len(w) = length + Len(x)
        /\ \A i \in 1 .. length : w[i] = base[i]
        /\ \A i \in 1 .. Len(x) : w[length + i] = x[i]
    <3>1. base \in Seq(S) /\ x \in Seq(S)
      BY <1>3
    <3> QED BY <3>1, ConcatIs
  <2>2. long = w
    BY <1>2
  <2> HIDE DEF w, length
  <2> QED BY <2>1, <2>2, <1>3
<1>6. Twins(S, short, long, length)
  <2>1. Len(long) >= length + 1 /\ long[length + 1] = "\n"
    <3>1. 1 \in 1 .. 4
      OBVIOUS
    <3> QED BY <3>1, <1>3, <1>4, <1>5
  <2>2. CASE short = base
    BY <2>1, <2>2, <1>2, <1>4, <1>5 DEF Twins
  <2>3. CASE short = base \o <<"\r">>
    <3>1. /\ Len(short) = length + 1 /\ short[length + 1] = "\r"
          /\ \A i \in 1 .. length : short[i] = base[i]
      BY <2>3
    <3> QED BY <3>1, <2>1, <1>2, <1>4, <1>5 DEF Twins
  <2> QED BY <2>2, <2>3, <1>2 DEF Alike
<1>7. SubSeq(long, length + 2, length + 4) = Plain(l)
  <2> DEFINE a == length + 2
             b == length + 4
             part == SubSeq(long, a, b)
  <2>1. a \in 1 .. Len(long) + 1 /\ b \in a - 1 .. Len(long) /\ b - a + 1 = 3
    BY <1>4, <1>5
  <2>2. a + 1 - 1 = length + 2 /\ a + 2 - 1 = length + 3 /\ a + 3 - 1 = length + 4
    BY <1>4
  <2> HIDE DEF a, b
  <2>3. part \in Seq(S) /\ Len(part) = b - a + 1 /\ \A i \in 1 .. b - a + 1 : part[i] = long[a + i - 1]
    BY <2>1, <1>5, PartIs
  <2> HIDE DEF part
  <2>4. Len(part) = 3 /\ part[1] = long[length + 2] /\ part[2] = long[length + 3] /\ part[3] = long[length + 4]
    <3>1. 1 \in 1 .. 3 /\ 2 \in 1 .. 3 /\ 3 \in 1 .. 3
      OBVIOUS
    <3>2. \A i \in 1 .. 3 : part[i] = long[a + i - 1]
      BY <2>1, <2>3
    <3>3. part[1] = long[a + 1 - 1] /\ part[2] = long[a + 2 - 1] /\ part[3] = long[a + 3 - 1]
      BY <3>1, <3>2
    <3> QED BY <3>3, <2>1, <2>2, <2>3
  <2>5. part[1] = l /\ part[2] = "=" /\ part[3] = l
    <3>1. 2 \in 1 .. 4 /\ 3 \in 1 .. 4 /\ 4 \in 1 .. 4
      OBVIOUS
    <3> QED BY <3>1, <2>4, <1>3, <1>5
  <2>6. part = Plain(l)
    <3>1. Plain(l) \in Seq(S) /\ Len(Plain(l)) = 3 /\ Plain(l)[1] = l /\ Plain(l)[2] = "=" /\ Plain(l)[3] = l
      BY DEF Plain
    <3>2. ASSUME NEW i \in 1 .. Len(part) PROVE part[i] = Plain(l)[i]
      <4>1. i = 1 \/ i = 2 \/ i = 3
        BY <2>4
      <4> QED BY <4>1, <3>1, <2>5
    <3> QED BY <3>1, <3>2, <2>3, <2>4, SameSeq
  <2> QED BY <2>6 DEF part, a, b
<1> HIDE DEF length
<1> QED BY <1>4, <1>5, <1>6, <1>7 DEF short, long, x

\* A line appended to a file that is accepted is one more secret.
THEOREM AppendedLine ==
  ASSUME NEW S, "\n" \in S, "=" \in S, NEW body \in Seq(S), NEW l \in S \cap Letters,
         ParseImport(body).valid
  PROVE  \E e \in Seq(S) :
           LET longer == ParseImport(body \o (<<"\n">> \o Plain(l)))
           IN  /\ longer.valid = TRUE
               /\ longer.secrets = Append(ParseImport(body).secrets,
                                          [key |-> <<l>>, value |-> <<l>>, environment |-> e])
<1> DEFINE short == LineBreaks(body)
           long == LineBreaks(body \o (<<"\n">> \o Plain(l)))
<1>1. PICK length \in Nat : /\ Twins(S, short, long, length) /\ Len(long) = length + 4
                            /\ SubSeq(long, length + 2, length + 4) = Plain(l)
  BY LineBreaksTwins
<1>2. Statements(short).valid
  BY DEF ParseImport
<1>0. ParseImport(body) = Statements(short) /\ ParseImport(body \o (<<"\n">> \o Plain(l))) = Statements(long)
  BY DEF ParseImport
<1> HIDE DEF short, long
<1>3. PICK n \in Nat, e \in Seq(S) :
        n <= length + 2 /\ Read(long)[n] = State(length + 2, e, Statements(short).secrets, TRUE)
  <2>1. Twins(S, short, long, length)
    BY <1>1
  <2>2. Passes(S, long, length, Statements(short).secrets)
    BY <2>1, <1>2, ReadTwins
  <2> QED BY <2>2 DEF Passes
<1>4. long \in Seq(S)
  <2>1. Twins(S, short, long, length)
    BY <1>1
  <2> QED BY <2>1, TwinsAre
<1> DEFINE state == Read(long)[n]
           secrets == Statements(short).secrets
           secret == [key |-> <<l>>, value |-> <<l>>, environment |-> e]
<1>5. Read(long) \in [Nat -> Reads(S)] /\ Read(long)[n + 1] = ReadStatement(long, state)
  BY <1>4, ReadRuns
<1>6. state \in ReadState(S)
  BY <1>5 DEF Reads
<1>7. state.start = length + 2 /\ state.environment = e /\ state.secrets = secrets /\ state.valid
  BY <1>3 DEF State
<1> HIDE DEF state, secrets
<1>8. ReadStatement(long, state) =
        State(length + 6, e, Append(secrets, secret), TRUE)
  <2> DEFINE start == length + 2
  <2>1. start \in Nat /\ start # 0 /\ start + 2 = length + 4 /\ start + 4 = length + 6
    OBVIOUS
  <2>2. Len(long) = start + 2 /\ SubSeq(long, start, start + 2) = Plain(l)
    BY <2>1, <1>1
  <2>3. state.start = start
    BY <1>7
  <2> HIDE DEF start
  <2>4. ReadStatement(long, state) =
          State(start + 4, state.environment,
                Append(state.secrets,
                       [key |-> <<l>>, value |-> <<l>>, environment |-> state.environment]), TRUE)
    BY <2>1, <2>2, <2>3, <1>4, <1>6, <1>7, PlainRound
  <2> QED BY <2>1, <2>4, <1>7
<1> HIDE DEF secret
<1>9. Read(long)[n + 1].start = length + 6
  BY <1>5, <1>8 DEF State
<1>10. Statements(long) = Read(long)[n + 1]
  <2> DEFINE m == n + 1
  <2>1. m \in Nat /\ m <= Len(long) + 1 /\ length + 6 > Len(long) + 1
    BY <1>1, <1>3
  <2>2. Read(long)[m].start > Len(long) + 1
    BY <2>1, <1>9
  <2> HIDE DEF m
  <2>3. Statements(long) = Read(long)[m]
    BY <2>1, <2>2, <1>4, ReadEnds
  <2> QED BY <2>3 DEF m
<1>11. Statements(long).valid = TRUE /\ Statements(long).secrets = Append(secrets, secret)
  BY <1>5, <1>8, <1>10 DEF State
<1> QED BY <1>0, <1>11 DEF secrets, secret

(***************************************************************************)
(* Files that export writes                                                *)
(***************************************************************************)
\* What the first sequences are together begins what more of them are.
LEMMA FlatPrefix ==
  ASSUME NEW S, NEW seqs \in Seq(Seq(S)), NEW k \in 0 .. Len(seqs), NEW n \in k .. Len(seqs)
  PROVE  /\ Flat(seqs, k) \in Seq(S) /\ Flat(seqs, n) \in Seq(S)
         /\ Len(Flat(seqs, k)) <= Len(Flat(seqs, n))
         /\ \A i \in 1 .. Len(Flat(seqs, k)) : Flat(seqs, n)[i] = Flat(seqs, k)[i]
<1> DEFINE a == Flat(seqs, k)
           L == Len(seqs)
           Begins(m) == Len(a) <= Len(Flat(seqs, m)) /\ \A i \in 1 .. Len(a) : Flat(seqs, m)[i] = a[i]
           On == {m \in Nat : k + m <= L => Begins(k + m)}
<1>1. a \in Seq(S) /\ Len(a) \in Nat /\ L \in Nat /\ k \in Nat /\ n \in Nat
  BY FlatType
<1> HIDE DEF a, L
<1>2. \A m \in Nat : m \in On
  <2>1. 0 \in On
    <3>1. Begins(k)
      BY <1>1 DEF a
    <3>2. k + 0 = k
      BY <1>1
    <3> HIDE DEF Begins
    <3> QED BY <3>1, <3>2
  <2>2. ASSUME NEW m \in Nat, m \in On PROVE m + 1 \in On
    <3> SUFFICES ASSUME k + (m + 1) <= L PROVE Begins(k + (m + 1))
      OBVIOUS
    <3> DEFINE j == k + m
               b == Flat(seqs, j)
    <3>1. j \in Nat /\ j <= L /\ j \in 0 .. L - 1 /\ j \in 0 .. L /\ k + (m + 1) = j + 1 /\ j + 1 \in 1 .. L
      BY <1>1
    <3>2. Begins(j)
      <4> HIDE DEF Begins
      <4> QED BY <3>1, <2>2
    <3> HIDE DEF j
    <3>3. b \in Seq(S) /\ seqs[j + 1] \in Seq(S)
      BY <3>1, FlatType DEF L
    <3>4. Flat(seqs, j + 1) = b \o seqs[j + 1]
      BY <3>1, FlatIs DEF L
    <3>5. Len(a) <= Len(b) /\ \A i \in 1 .. Len(a) : b[i] = a[i]
      BY <3>2
    <3> HIDE DEF b
    <3>6. /\ Len(b \o seqs[j + 1]) = Len(b) + Len(seqs[j + 1])
          /\ \A i \in 1 .. Len(b) : (b \o seqs[j + 1])[i] = b[i]
      BY <3>3, ConcatIs
    <3>7. Len(b) \in Nat /\ Len(seqs[j + 1]) \in Nat
      BY <3>3
    <3>8. Len(a) <= Len(Flat(seqs, j + 1))
      BY <3>4, <3>5, <3>6, <3>7, <1>1
    <3>9. ASSUME NEW i \in 1 .. Len(a) PROVE Flat(seqs, j + 1)[i] = a[i]
      <4>1. i \in 1 .. Len(b)
        BY <3>5, <3>7, <1>1
      <4> QED BY <4>1, <3>4, <3>5, <3>6
    <3>10. Begins(j + 1)
      BY <3>8, <3>9
    <3> HIDE DEF Begins
    <3> QED BY <3>1, <3>10
  <2> HIDE DEF On
  <2> QED BY <2>1, <2>2, Induction
<1>3. Begins(n)
  <2>1. n - k \in Nat /\ k + (n - k) = n /\ n <= L
    BY <1>1 DEF L
  <2>2. n - k \in On
    BY <2>1, <1>2
  <2> HIDE DEF Begins
  <2> QED BY <2>1, <2>2
<1>4. Flat(seqs, n) \in Seq(S)
  <2>1. n \in 0 .. Len(seqs)
    BY <1>1
  <2> QED BY <2>1, FlatType
<1> QED BY <1>1, <1>3, <1>4 DEF a

\* Where the next sequence is.
LEMMA FlatPlace ==
  ASSUME NEW S, NEW seqs \in Seq(Seq(S)), NEW k \in 0 .. Len(seqs) - 1, NEW n \in k + 1 .. Len(seqs)
  PROVE  /\ Flat(seqs, k) \in Seq(S) /\ seqs[k + 1] \in Seq(S) /\ Flat(seqs, n) \in Seq(S)
         /\ Len(Flat(seqs, k + 1)) = Len(Flat(seqs, k)) + Len(seqs[k + 1])
         /\ Len(Flat(seqs, k)) + Len(seqs[k + 1]) <= Len(Flat(seqs, n))
         /\ \A i \in 1 .. Len(seqs[k + 1]) : Flat(seqs, n)[Len(Flat(seqs, k)) + i] = seqs[k + 1][i]
<1> DEFINE a == Flat(seqs, k)
           b == seqs[k + 1]
           m == k + 1
           c == Flat(seqs, m)
           w == Flat(seqs, n)
<1>1. a \in Seq(S) /\ b \in Seq(S)
  <2>1. k \in 0 .. Len(seqs) /\ k + 1 \in 1 .. Len(seqs)
    OBVIOUS
  <2> QED BY <2>1, FlatType
<1>2. c = a \o b
  BY FlatIs
<1>3. c \in Seq(S) /\ w \in Seq(S) /\ Len(c) <= Len(w) /\ \A i \in 1 .. Len(c) : w[i] = c[i]
  <2>1. m \in 0 .. Len(seqs) /\ n \in m .. Len(seqs)
    OBVIOUS
  <2> HIDE DEF m
  <2> QED BY <2>1, FlatPrefix
<1> HIDE DEF a, b, w, c
<1>4. /\ Len(c) = Len(a) + Len(b)
      /\ \A i \in 1 .. Len(b) : c[Len(a) + i] = b[i]
  BY <1>1, <1>2, ConcatIs
<1>5. ASSUME NEW i \in 1 .. Len(b) PROVE w[Len(a) + i] = b[i]
  <2>1. Len(a) + i \in 1 .. Len(c)
    BY <1>1, <1>4
  <2> QED BY <2>1, <1>3, <1>4
<1> QED BY <1>1, <1>3, <1>4, <1>5 DEF a, b, c, w

\* A text without a carriage return has no lines to change.
LEMMA LineBreaksNone ==
  ASSUME NEW S, "\r" \notin S, NEW text \in Seq(S)
  PROVE  LineBreaks(text) = text
<1> DEFINE P == Pieces(text)
           L == Len(text)
<1>1. /\ P \in Seq(Seq(S)) /\ Len(P) = L
      /\ \A i \in 1 .. L :
           P[i] = IF text[i] = "\r" /\ i < Len(text) /\ text[i + 1] = "\n" THEN <<>> ELSE <<text[i]>>
      /\ LineBreaks(text) = Flat(P, L)
  BY PiecesAre
<1> HIDE DEF P
<1>2. ASSUME NEW i \in 1 .. L PROVE P[i] = <<text[i]>>
  <2>1. text[i] \in S
    OBVIOUS
  <2> QED BY <2>1, <1>1
<1>3. L \in Nat
  OBVIOUS
<1> DEFINE Same == {n \in Nat : n <= L => Flat(P, n) = SubSeq(text, 1, n)}
<1>4. 0 \in Same
  <2>1. Flat(P, 0) = <<>>
    BY <1>1, FlatIs
  <2>2. SubSeq(text, 1, 0) = <<>>
    OBVIOUS
  <2> QED BY <2>1, <2>2
<1>5. ASSUME NEW n \in Nat, n \in Same PROVE n + 1 \in Same
  <2> SUFFICES ASSUME n + 1 <= L PROVE Flat(P, n + 1) = SubSeq(text, 1, n + 1)
    OBVIOUS
  <2>1. n \in 0 .. Len(P) - 1 /\ n + 1 \in 1 .. L /\ n <= L
    BY <1>1, <1>3
  <2>2. Flat(P, n + 1) = Flat(P, n) \o P[n + 1]
    BY <2>1, <1>1, FlatIs
  <2>3. Flat(P, n) = SubSeq(text, 1, n)
    BY <2>1, <1>5
  <2>4. SubSeq(text, 1, n + 1) = SubSeq(text, 1, n) \o <<text[n + 1]>>
    <3> DEFINE m == n + 1
    <3>1. m \in 1 .. Len(text) /\ 1 \in 1 .. Len(text) /\ m \in 1 .. Len(text) /\ m - 1 = n
      BY <2>1
    <3> HIDE DEF m
    <3>2. SubSeq(text, 1, m) = SubSeq(text, 1, m - 1) \o <<text[m]>>
      BY <3>1, SubSeqRecursiveSecond
    <3> QED BY <3>1, <3>2 DEF m
  <2> QED BY <2>1, <2>2, <2>3, <2>4, <1>2
<1>6. \A n \in Nat : n \in Same
  <2> HIDE DEF Same
  <2> QED BY <1>4, <1>5, Induction
<1>7. Flat(P, L) = SubSeq(text, 1, L)
  BY <1>3, <1>6
<1> QED BY <1>1, <1>7, SubSeqFull

\* The characters of a quoted value that is written.
Written(C) == (C \ {"\n", "\r"}) \cup {Backslash, "n", "r"}

\* A character is written as itself, when it means nothing, or behind a backslash.
LEMMA EscapedIs ==
  ASSUME NEW C, NEW c \in C
  PROVE  /\ Escaped(c) \in Seq(Written(C))
         /\ \/ Escaped(c) = <<c>> /\ c # Backslash /\ c # Double
            \/ \E u : Escaped(c) = <<Backslash, u>> /\ Unescaped(u) = <<c>>
<1> DEFINE W == Written(C)
<1>1. Backslash \in W /\ "n" \in W /\ "r" \in W /\ (c \notin {"\n", "\r"} => c \in W)
  BY DEF Written
<1> HIDE DEF W
<1>2. CASE c = "\n"
  <2>1. Escaped(c) = <<Backslash, "n">>
    BY <1>2 DEF Escaped, Marks, Backslash, Double
  <2>2. Unescaped("n") = <<c>>
    BY <1>2 DEF Unescaped, Marks, Backslash, Double
  <2> QED BY <1>1, <2>1, <2>2 DEF W
<1>3. CASE c = "\r"
  <2>1. Escaped(c) = <<Backslash, "r">>
    BY <1>3 DEF Escaped, Marks, Backslash, Double
  <2>2. Unescaped("r") = <<c>>
    BY <1>3 DEF Unescaped, Marks, Backslash, Double
  <2> QED BY <1>1, <2>1, <2>2 DEF W
<1>4. CASE c \in Marks
  <2>1. c # "\n" /\ c # "\r" /\ c # "n" /\ c # "r"
    BY <1>4 DEF Marks, Backslash, Double
  <2>2. Escaped(c) = <<Backslash, c>>
    BY <1>4, <2>1 DEF Escaped
  <2>3. Unescaped(c) = <<c>>
    BY <1>4, <2>1 DEF Unescaped
  <2>4. c \in W
    BY <2>1, <1>1
  <2> QED BY <1>1, <2>2, <2>3, <2>4 DEF W
<1>5. CASE c \notin {"\n", "\r"} /\ c \notin Marks
  <2>1. Escaped(c) = <<c>>
    BY <1>5 DEF Escaped
  <2>2. c # Backslash /\ c # Double
    BY <1>5 DEF Marks
  <2>3. c \in W
    BY <1>1, <1>5
  <2> QED BY <2>1, <2>2, <2>3 DEF W
<1> QED BY <1>2, <1>3, <1>4, <1>5

Escapes(value) == [i \in DOMAIN value |-> Escaped(value[i])]
Quoted(value) == <<Double>> \o Flat(Escapes(value), Len(value)) \o <<Double>>

\* An escaped value is the escapes of its characters put together.
LEMMA EscapesAre ==
  ASSUME NEW C, NEW value \in Seq(C)
  PROVE  /\ Escapes(value) \in Seq(Seq(Written(C))) /\ Len(Escapes(value)) = Len(value)
         /\ \A i \in 1 .. Len(value) : Escapes(value)[i] = Escaped(value[i])
         /\ Flat(Escapes(value), Len(value)) = FlattenSeq(Escapes(value))
         /\ Flat(Escapes(value), Len(value)) \in Seq(Written(C))
<1> DEFINE E == Escapes(value)
           W == Written(C)
<1>1. E \in [1 .. Len(value) -> Seq(W)]
  <2>1. ASSUME NEW i \in 1 .. Len(value) PROVE Escaped(value[i]) \in Seq(W)
    <3>1. value[i] \in C
      OBVIOUS
    <3> QED BY <3>1, EscapedIs
  <2> HIDE DEF W
  <2> QED BY <2>1 DEF Escapes
<1>2. \A i \in 1 .. Len(value) : E[i] = Escaped(value[i])
  BY DEF Escapes
<1> HIDE DEF E, W
<1>3. E \in Seq(Seq(W)) /\ Len(E) = Len(value)
  BY <1>1
<1>4. Flat(E, Len(E)) = FlattenSeq(E)
  BY <1>3, FlatIs
<1>5. Flat(E, Len(E)) \in Seq(W)
  <2>1. Len(E) \in 0 .. Len(E)
    BY <1>3
  <2> QED BY <2>1, <1>3, FlatType
<1> QED BY <1>2, <1>3, <1>4, <1>5 DEF E, W

\* The characters of a quoted text.
LEMMA QuotedIs ==
  ASSUME NEW S, Double \in S, NEW w \in Seq(S)
  PROVE  /\ <<Double>> \o w \o <<Double>> \in Seq(S)
         /\ Len(<<Double>> \o w \o <<Double>>) = Len(w) + 2
         /\ (<<Double>> \o w \o <<Double>>)[1] = Double
         /\ (<<Double>> \o w \o <<Double>>)[Len(w) + 2] = Double
         /\ \A i \in 1 .. Len(w) : (<<Double>> \o w \o <<Double>>)[i + 1] = w[i]
<1> DEFINE one == <<Double>>
<1>1. one \in Seq(S) /\ Len(one) = 1 /\ one[1] = Double
  OBVIOUS
<1> HIDE DEF one
<1> DEFINE a == one \o w
           b == a \o one
<1>2. /\ a \in Seq(S) /\ Len(a) = Len(w) + 1 /\ a[1] = Double
      /\ \A i \in 1 .. Len(w) : a[i + 1] = w[i]
  <2>1. /\ a \in Seq(S) /\ Len(a) = Len(one) + Len(w)
        /\ \A i \in 1 .. Len(one) : a[i] = one[i]
        /\ \A i \in 1 .. Len(w) : a[Len(one) + i] = w[i]
    <3>1. one \in Seq(S)
      BY <1>1
    <3> QED BY <3>1, ConcatIs
  <2>2. Len(w) \in Nat
    OBVIOUS
  <2> HIDE DEF a
  <2>3. 1 \in 1 .. Len(one) /\ \A i \in 1 .. Len(w) : Len(one) + i = i + 1
    BY <1>1, <2>2
  <2> QED BY <2>1, <2>2, <2>3, <1>1
<1> HIDE DEF a
<1>3. /\ b \in Seq(S) /\ Len(b) = Len(a) + 1 /\ b[Len(a) + 1] = Double
      /\ \A i \in 1 .. Len(a) : b[i] = a[i]
  <2>0. a \in Seq(S)
    BY <1>2
  <2>1. /\ b \in Seq(S) /\ Len(b) = Len(a) + Len(one)
        /\ \A i \in 1 .. Len(a) : b[i] = a[i]
        /\ \A i \in 1 .. Len(one) : b[Len(a) + i] = one[i]
    <3>1. one \in Seq(S)
      BY <1>1
    <3> QED BY <2>0, <3>1, ConcatIs
  <2> HIDE DEF b
  <2>2. 1 \in 1 .. Len(one)
    BY <1>1
  <2> QED BY <2>1, <2>2, <1>1
<1> HIDE DEF b
<1>4. Len(w) \in Nat
  OBVIOUS
<1>5. Len(b) = Len(w) + 2 /\ b[1] = Double /\ b[Len(w) + 2] = Double
  <2>1. 1 \in 1 .. Len(a) /\ Len(a) + 1 = Len(w) + 2
    BY <1>2, <1>4
  <2> QED BY <2>1, <1>2, <1>3
<1>6. ASSUME NEW i \in 1 .. Len(w) PROVE b[i + 1] = w[i]
  <2>1. i + 1 \in 1 .. Len(a)
    BY <1>2, <1>4
  <2> QED BY <2>1, <1>2, <1>3
<1> QED BY <1>3, <1>5, <1>6 DEF b, a, one

\* A value that is written in quotes is decoded as the value.
THEOREM DecodeEscaped ==
  ASSUME NEW C, NEW value \in Seq(C)
  PROVE  DecodeQuoted(Quoted(value), Double) = [valid |-> TRUE, value |-> value]
<1> DEFINE T == Written(C) \cup {Double}
           E == Escapes(value)
           n == Len(value)
           w == Flat(E, n)
           source == Quoted(value)
           d == Decoded(source, Double)
<1>1. /\ E \in Seq(Seq(Written(C))) /\ Len(E) = n /\ n \in Nat
      /\ \A i \in 1 .. n : E[i] = Escaped(value[i])
      /\ w \in Seq(Written(C))
  <2>1. n \in Nat
    OBVIOUS
  <2>2. /\ E \in Seq(Seq(Written(C))) /\ Len(E) = Len(value)
        /\ \A i \in 1 .. Len(value) : E[i] = Escaped(value[i])
        /\ w \in Seq(Written(C))
    BY EscapesAre
  <2> QED BY <2>1, <2>2
<1>2. /\ source \in Seq(T) /\ Len(source) = Len(w) + 2
      /\ source[1] = Double /\ source[Len(w) + 2] = Double
      /\ \A i \in 1 .. Len(w) : source[i + 1] = w[i]
  <2> HIDE DEF E
  <2> DEFINE ww == w
  <2> HIDE DEF ww
  <2>1. ww \in Seq(T)
    BY <1>1 DEF ww
  <2>2. Double \in T
    OBVIOUS
  <2> HIDE DEF T
  <2>3. LET s == <<Double>> \o ww \o <<Double>>
        IN  /\ s \in Seq(T) /\ Len(s) = Len(ww) + 2 /\ s[1] = Double /\ s[Len(ww) + 2] = Double
            /\ \A i \in 1 .. Len(ww) : s[i + 1] = ww[i]
    BY <2>1, <2>2, QuotedIs
  <2>4. source = <<Double>> \o ww \o <<Double>>
    BY DEF Quoted, ww, E
  <2> QED BY <2>3, <2>4 DEF ww
<1>3. /\ d \in [Nat -> DecodeState(T)] /\ d[0] = DecodeStart
      /\ \A k \in Nat : d[k + 1] = Decode(source, Double, d[k])
  <2>1. source \in Seq(T)
    BY <1>2
  <2> HIDE DEF source, T
  <2> QED BY <2>1, DecodeRuns
<1>4. Len(w) \in Nat
  BY <1>1
<1>e. \A k \in 0 .. n - 1 :
        /\ Flat(E, k) \in Seq(Written(C)) /\ E[k + 1] \in Seq(Written(C))
        /\ Len(Flat(E, k + 1)) = Len(Flat(E, k)) + Len(E[k + 1])
        /\ Len(Flat(E, k)) + Len(E[k + 1]) <= Len(w)
        /\ \A i \in 1 .. Len(E[k + 1]) : w[Len(Flat(E, k)) + i] = E[k + 1][i]
  <2> HIDE DEF E, n
  <2>1. ASSUME NEW k \in 0 .. n - 1
        PROVE  /\ Flat(E, k) \in Seq(Written(C)) /\ E[k + 1] \in Seq(Written(C))
               /\ Len(Flat(E, k + 1)) = Len(Flat(E, k)) + Len(E[k + 1])
               /\ Len(Flat(E, k)) + Len(E[k + 1]) <= Len(w)
               /\ \A i \in 1 .. Len(E[k + 1]) : w[Len(Flat(E, k)) + i] = E[k + 1][i]
    <3>1. k \in 0 .. Len(E) - 1 /\ n \in k + 1 .. Len(E)
      BY <1>1
    <3> QED BY <3>1, <1>1, FlatPlace
  <2> QED BY <2>1
<1>f. Flat(E, 0) = <<>>
  BY <1>1, FlatIs
<1> HIDE DEF d, source, T, E
<1> DEFINE At(k) == [index |-> Len(Flat(E, k)) + 2, value |-> SubSeq(value, 1, k)]
           Met == {k \in Nat : k <= n => d[k] = At(k)}
<1>5. \A k \in Nat : k \in Met
  <2>1. 0 \in Met
    <3>1. Len(Flat(E, 0)) + 2 = 2 /\ SubSeq(value, 1, 0) = <<>>
      BY <1>f
    <3> QED BY <3>1, <1>3 DEF DecodeStart
  <2>2. ASSUME NEW k \in Nat, k \in Met PROVE k + 1 \in Met
    <3> SUFFICES ASSUME k + 1 <= n PROVE d[k + 1] = At(k + 1)
      OBVIOUS
    <3> DEFINE a == Len(Flat(E, k))
               i == a + 2
               c == value[k + 1]
               e == E[k + 1]
               state == d[k]
    <3>1. k \in 0 .. n - 1 /\ k + 1 \in 1 .. n /\ k <= n
      BY <1>1
    <3>2. /\ a \in Nat /\ Len(e) \in Nat
          /\ Len(Flat(E, k + 1)) = a + Len(e) /\ a + Len(e) <= Len(w)
          /\ \A j \in 1 .. Len(e) : w[a + j] = e[j]
      <4>1. Flat(E, k) \in Seq(Written(C)) /\ e \in Seq(Written(C))
        BY <3>1, <1>e
      <4>2. a \in Nat /\ Len(e) \in Nat
        BY <4>1
      <4> QED BY <4>2, <3>1, <1>e
    <3>3. e = Escaped(c) /\ c \in C
      BY <3>1, <1>1
    <3>4. state.index = i /\ state.value = SubSeq(value, 1, k)
      BY <3>1, <2>2
    <3>5. SubSeq(value, 1, k + 1) = Append(SubSeq(value, 1, k), c)
          /\ SubSeq(value, 1, k + 1) = SubSeq(value, 1, k) \o <<c>>
      <4> DEFINE m == k + 1
      <4>1. m \in 1 .. Len(value) /\ 1 \in 1 .. Len(value) /\ m - 1 = k
        BY <3>1
      <4> HIDE DEF m, c
      <4>2. SubSeq(value, 1, m) = SubSeq(value, 1, m - 1) \o <<value[m]>>
        BY <4>1, SubSeqRecursiveSecond
      <4>3. SubSeq(value, 1, k) \in Seq(C) /\ c \in C
        <5>1. 1 \in Nat /\ 1 # 0 /\ k \in Int /\ k <= Len(value)
          BY <3>1
        <5> QED BY <5>1, <3>3, PartType
      <4>4. Append(SubSeq(value, 1, k), c) = SubSeq(value, 1, k) \o <<c>>
        BY <4>3
      <4> QED BY <4>1, <4>2, <4>4 DEF m, c
    <3>6. d[k + 1] = Decode(source, Double, state)
      BY <1>3
    <3>7. \A j \in 1 .. Len(e) : source[i + j - 1] = e[j]
      <4>1. ASSUME NEW j \in 1 .. Len(e) PROVE source[i + j - 1] = e[j]
        <5> HIDE DEF a, e, w
        <5>1. a + j \in 1 .. Len(w) /\ i + j - 1 = (a + j) + 1
          BY <3>2, <1>4
        <5>2. source[(a + j) + 1] = w[a + j]
          BY <5>1, <1>2
        <5> QED BY <5>1, <5>2, <3>2
      <4> QED BY <4>1
    <3> HIDE DEF a, c, e, state, w
    <3>8. CASE Escaped(c) = <<c>> /\ c # Backslash /\ c # Double
      <4>1. Len(e) = 1 /\ e[1] = c
        BY <3>3, <3>8
      <4>2. source[i] = c /\ ~(i > Len(source))
        <5>1. 1 \in 1 .. Len(e) /\ i + 1 - 1 = i
          BY <4>1, <3>2
        <5>2. source[i] = c
          BY <5>1, <4>1, <3>7
        <5> QED BY <5>2, <4>1, <3>2, <1>2, <1>4
      <4>3. ~IsEscape(source, Double, i)
        BY <4>2, <3>8 DEF IsEscape
      <4>4. Decode(source, Double, state) = [index |-> i + 1, value |-> Append(state.value, c)]
        BY <4>2, <4>3, <3>4, <3>8, DecodeCopies
      <4>5. Len(Flat(E, k + 1)) + 2 = i + 1
        BY <4>1, <3>2
      <4> QED BY <4>4, <4>5, <3>4, <3>5, <3>6
    <3>9. CASE \E u : Escaped(c) = <<Backslash, u>> /\ Unescaped(u) = <<c>>
      <4>1. PICK u : Escaped(c) = <<Backslash, u>> /\ Unescaped(u) = <<c>>
        BY <3>9
      <4>2. Len(e) = 2 /\ e[1] = Backslash /\ e[2] = u
        BY <4>1, <3>3
      <4>3. source[i] = Backslash /\ source[i + 1] = u
        <5>1. 1 \in 1 .. Len(e) /\ 2 \in 1 .. Len(e) /\ i + 1 - 1 = i /\ i + 2 - 1 = i + 1
          BY <4>2, <3>2
        <5>2. source[i + 1 - 1] = e[1] /\ source[i + 2 - 1] = e[2]
          BY <5>1, <3>7
        <5> QED BY <5>1, <5>2, <4>2
      <4>4. ~(i > Len(source)) /\ i # Len(source)
        BY <4>2, <3>2, <1>2, <1>4
      <4>5. source[i] # Double /\ IsEscape(source, Double, i)
        BY <4>3 DEF IsEscape, Backslash, Double
      <4>6. Decode(source, Double, state) =
              [index |-> i + 2, value |-> state.value \o Unescaped(source[i + 1])]
        BY <4>4, <4>5, <3>4, DecodeUnescapes
      <4>7. Len(Flat(E, k + 1)) + 2 = i + 2
        BY <4>2, <3>2
      <4> QED BY <4>1, <4>3, <4>6, <4>7, <3>4, <3>5, <3>6
    <3> QED BY <3>3, <3>8, <3>9, EscapedIs
  <2> HIDE DEF Met
  <2> QED BY <2>1, <2>2, Induction
<1>6. d[n].index = Len(w) + 2 /\ d[n].value = value
  <2>1. n \in Met
    <3> HIDE DEF Met
    <3> QED BY <1>1, <1>5
  <2>2. d[n] = At(n)
    BY <2>1
  <2>3. SubSeq(value, 1, n) = value
    BY SubSeqFull
  <2> QED BY <2>2, <2>3
<1> DEFINE L == Len(source)
<1>7. d[L] = d[n]
  <2>1. ASSUME NEW k \in Nat, d[k] = d[n] PROVE d[k + 1] = d[n]
    <3>1. Decode(source, Double, d[k]) = d[k]
      <4>1. source[d[k].index] = Double
        BY <2>1, <1>2, <1>6
      <4> QED BY <4>1, DecodeStops
    <3> QED BY <3>1, <2>1, <1>3
  <2>2. L \in Nat /\ n <= L
    <3>1. n <= Len(w)
      <4> DEFINE Grown == {k \in Nat : k <= n => k <= Len(Flat(E, k))}
      <4>1. 0 \in Grown
        BY <1>f
      <4>2. ASSUME NEW k \in Nat, k \in Grown PROVE k + 1 \in Grown
        <5> SUFFICES ASSUME k + 1 <= n PROVE k + 1 <= Len(Flat(E, k + 1))
          OBVIOUS
        <5>1. k \in 0 .. n - 1 /\ k + 1 \in 1 .. n /\ k <= n
          BY <1>1
        <5>2. Len(Flat(E, k + 1)) = Len(Flat(E, k)) + Len(E[k + 1]) /\ Flat(E, k) \in Seq(Written(C))
          BY <5>1, <1>e
        <5>3. E[k + 1] = Escaped(value[k + 1]) /\ value[k + 1] \in C
          BY <5>1, <1>1
        <5>4. Len(E[k + 1]) \in Nat /\ Len(E[k + 1]) >= 1
          <6>1. \/ Escaped(value[k + 1]) = <<value[k + 1]>>
                \/ \E u : Escaped(value[k + 1]) = <<Backslash, u>>
            BY <5>3, EscapedIs
          <6>2. CASE Escaped(value[k + 1]) = <<value[k + 1]>>
            <7>1. Len(E[k + 1]) = 1
              BY <5>3, <6>2
            <7> QED BY <7>1
          <6>3. CASE \E u : Escaped(value[k + 1]) = <<Backslash, u>>
            <7>1. Len(E[k + 1]) = 2
              BY <5>3, <6>3
            <7> QED BY <7>1
          <6> QED BY <6>1, <6>2, <6>3
        <5>5. k <= Len(Flat(E, k)) /\ Len(Flat(E, k)) \in Nat
          BY <5>1, <5>2, <4>2
        <5> QED BY <5>2, <5>4, <5>5
      <4>3. \A k \in Nat : k \in Grown
        <5> HIDE DEF Grown
        <5> QED BY <4>1, <4>2, Induction
      <4> QED BY <4>3, <1>1
    <3> QED BY <3>1, <1>1, <1>2, <1>4
  <2> HIDE DEF L
  <2> QED BY <2>1, <2>2, <1>1, LoopStays
<1>8. Trim(From(source, d[L].index + 1)) = <<>>
  <2> DEFINE after == d[L].index + 1
  <2>1. after = Len(source) + 1 /\ Len(source) \in Nat
    BY <1>2, <1>4, <1>6, <1>7
  <2>2. From(source, after) = <<>>
    <3>1. after \in Int /\ Len(source) \in Int /\ Len(source) < after
      BY <2>1
    <3> HIDE DEF after
    <3> QED BY <3>1, <1>2, SubSeqEmpty DEF From
  <2>3. Trim(<<>>) = <<>>
    <3>1. <<>> \in Seq(C) /\ Inked(<<>>, 1, Len(<<>>)) = {}
      BY DEF Inked
    <3> QED BY <3>1, TrimBlank
  <2> QED BY <2>2, <2>3
<1>9. d[L].index <= L /\ source[d[L].index] = Double
  BY <1>2, <1>4, <1>6, <1>7
<1>10. DecodeQuoted(source, Double) = [valid |-> TRUE, value |-> d[L].value]
  BY <1>8, <1>9, DecodeQuotedIs DEF d
<1> QED BY <1>6, <1>7, <1>10 DEF source

Keys == {key \in Seq(Letters) : key # <<>>}

\* Secrets to export: of no environment, with a value over any characters.
Exported(C) == [key : Keys, value : Seq(C), environment : {<<>>}]

\* The characters of an assignment that is written.
Signs(C) == Written(C) \cup Letters \cup {"=", Double}

\* What an export writes into a line holds no line break.
LEMMA SignsArePlain ==
  ASSUME NEW C
  PROVE  "\n" \notin Signs(C) /\ "\r" \notin Signs(C)
<1>1. "\n" \notin Letters /\ "\r" \notin Letters
  BY LettersArePlain DEF Space
<1> QED BY <1>1 DEF Signs, Written, Backslash, Double

\* The parts of a secret that can be exported.
LEMMA ExportedIs ==
  ASSUME NEW C, NEW secret \in Exported(C)
  PROVE  /\ secret.key \in Seq(Letters) /\ secret.key # <<>>
         /\ Len(secret.key) \in Nat /\ Len(secret.key) >= 1
         /\ secret.value \in Seq(C) /\ secret.environment = <<>>
         /\ secret = [key |-> secret.key, value |-> secret.value, environment |-> <<>>]
<1>1. secret.key \in Seq(Letters) /\ secret.key # <<>> /\ secret.value \in Seq(C)
      /\ secret.environment = <<>>
  BY DEF Exported, Keys
<1>2. Len(secret.key) \in Nat /\ Len(secret.key) >= 1
  BY <1>1
<1>3. secret = [key |-> secret.key, value |-> secret.value, environment |-> <<>>]
  BY <1>1 DEF Exported
<1> QED BY <1>1, <1>2, <1>3

\* The characters of an exported assignment: the key, an equals sign and the
\* quoted value.
LEMMA AssignmentWritten ==
  ASSUME NEW C, NEW secret \in Exported(C)
  PROVE  /\ EnvAssignment(secret) \in Seq(Signs(C))
         /\ Quoted(secret.value) \in Seq(Signs(C))
         /\ Len(Quoted(secret.value)) \in Nat /\ Len(Quoted(secret.value)) >= 2
         /\ Quoted(secret.value)[1] = Double
         /\ Len(EnvAssignment(secret)) = Len(secret.key) + 1 + Len(Quoted(secret.value))
         /\ \A i \in 1 .. Len(secret.key) : EnvAssignment(secret)[i] = secret.key[i]
         /\ EnvAssignment(secret)[Len(secret.key) + 1] = "="
         /\ \A i \in 1 .. Len(Quoted(secret.value)) :
              EnvAssignment(secret)[Len(secret.key) + 1 + i] = Quoted(secret.value)[i]
         /\ EnvAssignment(secret)[Len(EnvAssignment(secret))] = Double
<1> DEFINE T == Signs(C)
           key == secret.key
           w == Flat(Escapes(secret.value), Len(secret.value))
           q == Quoted(secret.value)
           s == EnvAssignment(secret)
<1>1. key \in Seq(T) /\ Len(key) \in Nat
  <2>1. key \in Seq(Letters)
    BY ExportedIs
  <2> QED BY <2>1 DEF Signs
<1>2. w \in Seq(T) /\ w = FlattenSeq([i \in DOMAIN secret.value |-> Escaped(secret.value[i])])
  <2>1. secret.value \in Seq(C)
    BY ExportedIs
  <2> DEFINE value == secret.value
  <2> HIDE DEF value
  <2>2. Flat(Escapes(value), Len(value)) \in Seq(Written(C))
        /\ Flat(Escapes(value), Len(value)) = FlattenSeq(Escapes(value))
    BY <2>1, EscapesAre DEF value
  <2>3. Flat(Escapes(value), Len(value)) \in Seq(T)
    BY <2>2 DEF Signs
  <2> QED BY <2>2, <2>3 DEF value, Escapes
<1>3. "=" \in T /\ Double \in T
  BY DEF Signs
<1>4. s = key \o <<"=", Double>> \o w \o <<Double>>
  BY <1>2 DEF EnvAssignment
<1>a. q = <<Double>> \o w \o <<Double>>
  BY DEF Quoted
<1> HIDE DEF T, key, w, s, q
<1>5. /\ q \in Seq(T) /\ Len(q) = Len(w) + 2 /\ q[1] = Double /\ q[Len(w) + 2] = Double
      /\ \A i \in 1 .. Len(w) : q[i + 1] = w[i]
  <2>1. w \in Seq(T)
    BY <1>2
  <2>2. LET t == <<Double>> \o w \o <<Double>>
        IN  /\ t \in Seq(T) /\ Len(t) = Len(w) + 2 /\ t[1] = Double /\ t[Len(w) + 2] = Double
            /\ \A i \in 1 .. Len(w) : t[i + 1] = w[i]
    BY <2>1, <1>3, QuotedIs
  <2> QED BY <2>2, <1>a
<1> DEFINE sign == <<"=", Double>>
           end == <<Double>>
           p == Len(key)
           a == key \o sign
           b == a \o w
           c == b \o end
<1>6. sign \in Seq(T) /\ Len(sign) = 2 /\ sign[1] = "=" /\ sign[2] = Double
      /\ end \in Seq(T) /\ Len(end) = 1 /\ end[1] = Double
  BY <1>3
<1>7. s = c
  BY <1>4
<1> HIDE DEF sign, end
<1>8. /\ a \in Seq(T) /\ Len(a) = p + 2 /\ (\A i \in 1 .. p : a[i] = key[i])
      /\ a[p + 1] = "=" /\ a[p + 2] = Double
  <2>0. key \in Seq(T) /\ sign \in Seq(T)
    BY <1>1, <1>6
  <2>1. /\ a \in Seq(T) /\ Len(a) = Len(key) + Len(sign)
        /\ \A i \in 1 .. Len(key) : a[i] = key[i]
        /\ \A i \in 1 .. Len(sign) : a[Len(key) + i] = sign[i]
    BY <2>0, ConcatIs
  <2>2. 1 \in 1 .. Len(sign) /\ 2 \in 1 .. Len(sign)
    BY <1>6
  <2> HIDE DEF a
  <2> QED BY <2>1, <2>2, <1>6
<1> HIDE DEF a
<1>9. /\ b \in Seq(T) /\ Len(b) = p + 2 + Len(w) /\ (\A i \in 1 .. p + 2 : b[i] = a[i])
      /\ \A i \in 1 .. Len(w) : b[p + 2 + i] = w[i]
  <2>0. a \in Seq(T) /\ w \in Seq(T)
    BY <1>2, <1>8
  <2>1. /\ b \in Seq(T) /\ Len(b) = Len(a) + Len(w)
        /\ \A i \in 1 .. Len(a) : b[i] = a[i]
        /\ \A i \in 1 .. Len(w) : b[Len(a) + i] = w[i]
    BY <2>0, ConcatIs
  <2> HIDE DEF b
  <2> QED BY <2>1, <1>8
<1> HIDE DEF b
<1>10. /\ c \in Seq(T) /\ Len(c) = p + 3 + Len(w) /\ (\A i \in 1 .. p + 2 + Len(w) : c[i] = b[i])
       /\ c[p + 3 + Len(w)] = Double
  <2>0. b \in Seq(T) /\ end \in Seq(T)
    BY <1>6, <1>9
  <2>1. /\ c \in Seq(T) /\ Len(c) = Len(b) + Len(end)
        /\ \A i \in 1 .. Len(b) : c[i] = b[i]
        /\ \A i \in 1 .. Len(end) : c[Len(b) + i] = end[i]
    BY <2>0, ConcatIs
  <2>2. Len(w) \in Nat /\ p \in Nat
    BY <1>1, <1>2
  <2>3. 1 \in 1 .. Len(end) /\ Len(b) + 1 = p + 3 + Len(w)
    BY <2>2, <1>6, <1>9
  <2> HIDE DEF c, p
  <2>4. c[Len(b) + 1] = Double
    BY <2>1, <2>3, <1>6
  <2>5. Len(c) = p + 3 + Len(w) /\ Len(b) = p + 2 + Len(w)
    BY <2>1, <2>2, <2>3, <1>6, <1>9
  <2> QED BY <2>1, <2>3, <2>4, <2>5
<1> HIDE DEF c
<1>11. Len(w) \in Nat /\ p \in Nat /\ Len(q) = Len(w) + 2
  BY <1>1, <1>2, <1>5
<1> HIDE DEF p
<1>12. Len(c) = p + 1 + Len(q)
  BY <1>10, <1>11
<1>13. \A i \in 1 .. p : c[i] = key[i]
  <2>1. ASSUME NEW i \in 1 .. p PROVE c[i] = key[i]
    <3>1. i \in 1 .. p + 2 /\ i \in 1 .. p + 2 + Len(w)
      BY <1>11
    <3>2. a[i] = key[i]
      BY <1>8
    <3> QED BY <3>1, <3>2, <1>9, <1>10
  <2> QED BY <2>1
<1>14. c[p + 1] = "=" /\ c[p + 2] = Double
  <2>1. p + 1 \in 1 .. p + 2 /\ p + 1 \in 1 .. p + 2 + Len(w)
        /\ p + 2 \in 1 .. p + 2 /\ p + 2 \in 1 .. p + 2 + Len(w)
    BY <1>11
  <2> QED BY <2>1, <1>8, <1>9, <1>10
<1>15. \A i \in 1 .. Len(q) : c[p + 1 + i] = q[i]
  <2>1. ASSUME NEW i \in 1 .. Len(q) PROVE c[p + 1 + i] = q[i]
    <3>1. CASE i = 1
      <4>1. p + 1 + i = p + 2
        BY <3>1, <1>11
      <4> QED BY <4>1, <3>1, <1>5, <1>14
    <3>2. CASE i = Len(w) + 2
      <4>1. p + 1 + i = p + 3 + Len(w)
        BY <3>2, <1>11
      <4> QED BY <4>1, <3>2, <1>5, <1>10
    <3>3. CASE i # 1 /\ i # Len(w) + 2
      <4> DEFINE j == i - 1
      <4>1. j \in 1 .. Len(w) /\ j + 1 = i /\ p + 1 + i = p + 2 + j /\ p + 2 + j \in 1 .. p + 2 + Len(w)
        BY <3>3, <1>11
      <4> HIDE DEF j
      <4>2. q[j + 1] = w[j] /\ b[p + 2 + j] = w[j] /\ c[p + 2 + j] = b[p + 2 + j]
        BY <4>1, <1>5, <1>9, <1>10
      <4> QED BY <4>1, <4>2
    <3> QED BY <3>1, <3>2, <3>3
  <2> QED BY <2>1
<1>16. c[Len(c)] = Double
  BY <1>10
<1>17. Len(q) \in Nat /\ Len(q) >= 2
  BY <1>11
<1> QED BY <1>5, <1>7, <1>10, <1>12, <1>13, <1>14, <1>15, <1>16, <1>17 DEF T, key, s, q, p

\* What is written as an assignment is read as one.
LEMMA WrittenParses ==
  ASSUME NEW C, NEW secret \in Exported(C)
  PROVE  /\ ParseAssignment(EnvAssignment(secret)) =
              [valid |-> TRUE, key |-> secret.key, value |-> secret.value]
         /\ Trim(EnvAssignment(secret)) = EnvAssignment(secret)
         /\ EnvAssignment(secret)[1] \in Letters /\ EnvAssignment(secret) # <<>>
<1> DEFINE S == Signs(C)
           s == EnvAssignment(secret)
           key == secret.key
           q == Quoted(secret.value)
           p == Len(key)
           a == Separator(s)
<1>1. /\ s \in Seq(S) /\ q \in Seq(S)
      /\ Len(q) \in Nat /\ Len(q) >= 2 /\ q[1] = Double
      /\ Len(s) = p + 1 + Len(q)
      /\ \A i \in 1 .. p : s[i] = key[i]
      /\ s[p + 1] = "="
      /\ \A i \in 1 .. Len(q) : s[p + 1 + i] = q[i]
      /\ s[Len(s)] = Double
  BY AssignmentWritten
<1>2. key \in Seq(Letters) /\ key # <<>> /\ p \in Nat /\ p >= 1 /\ secret.value \in Seq(C)
  BY ExportedIs
<1>3. DecodeQuoted(q, Double) = [valid |-> TRUE, value |-> secret.value]
  BY <1>2, DecodeEscaped
<1> HIDE DEF s, key, q, p, a
<1>4. \A i \in 1 .. p : key[i] \in Letters
  BY <1>2 DEF p
<1>5. s[1] \in Letters /\ s # <<>> /\ Len(s) \in Nat
  <2>1. 1 \in 1 .. p
    BY <1>2
  <2>2. s[1] \in Letters
    BY <2>1, <1>1, <1>4
  <2>3. Len(s) # 0 /\ Len(s) \in Nat
    BY <1>1, <1>2
  <2>4. s # <<>>
    BY <2>3
  <2> QED BY <2>2, <2>3, <2>4
<1>6. Trim(s) = s
  <2>1. s[1] \notin Space
    BY <1>5, LettersArePlain
  <2>2. s[Len(s)] \notin Space
    BY <1>1 DEF Space, Double
  <2> QED BY <2>1, <2>2, <1>1, <1>5, TrimSelf
<1>7. LineEnd(s, 1) = Len(s) + 1
  <2> DEFINE end == Len(s) + 1
  <2>1. 1 \in 1 .. Len(s) + 1 /\ end \in 1 .. Len(s) + 1 /\ ~(end <= Len(s))
    BY <1>5
  <2>2. ASSUME NEW i \in 1 .. end - 1 PROVE s[i] # "\n"
    <3>1. s[i] \in S
      BY <1>1, <1>5
    <3> QED BY <3>1, SignsArePlain
  <2> HIDE DEF end
  <2>3. LineEnd(s, 1) = end
    BY <2>1, <2>2, <1>1, LineEndOnly
  <2> QED BY <2>3 DEF end
<1>8. a = p + 1
  <2>1. /\ a \in 1 .. Len(s) + 1
        /\ a <= Len(s) => s[a] = "="
        /\ \A i \in 1 .. LineEnd(s, 1) - 1 : s[i] = "=" => a <= i
    BY <1>1, SeparatorIs DEF a
  <2>2. p + 1 \in 1 .. LineEnd(s, 1) - 1
    BY <1>1, <1>2, <1>7
  <2>3. a <= p + 1
    BY <2>1, <2>2, <1>1
  <2>4. ASSUME a <= p PROVE FALSE
    <3>1. a \in 1 .. p /\ a <= Len(s)
      BY <2>1, <2>4, <1>1, <1>2
    <3>2. key[a] = "=" /\ key[a] \in Letters
      BY <3>1, <2>1, <1>1, <1>4
    <3> QED BY <3>2, LettersArePlain
  <2> QED BY <2>1, <2>3, <2>4, <1>2
<1>9. SubSeq(s, 1, a - 1) = key
  <2> DEFINE part == SubSeq(s, 1, p)
  <2>1. 1 \in 1 .. Len(s) + 1 /\ p \in 1 - 1 .. Len(s) /\ p - 1 + 1 = p /\ \A i \in 1 .. p : 1 + i - 1 = i
    BY <1>1, <1>2
  <2>2. part \in Seq(S) /\ Len(part) = p - 1 + 1 /\ \A i \in 1 .. p - 1 + 1 : part[i] = s[1 + i - 1]
    BY <2>1, <1>1, PartIs
  <2> HIDE DEF part
  <2>3. Len(part) = p /\ \A i \in 1 .. p : part[i] = key[i]
    BY <2>1, <2>2, <1>1
  <2>4. key \in Seq(S) /\ Len(key) = p
    <3>1. key \in Seq(S)
      BY <1>2 DEF Signs
    <3> QED BY <3>1 DEF p
  <2>5. part = key
    BY <2>2, <2>3, <2>4, SameSeq
  <2>6. a - 1 = p
    BY <1>2, <1>8
  <2> QED BY <2>5, <2>6 DEF part
<1>10. Name(s) = key
  <2>1. Trim(key) = key
    <3>1. 1 \in 1 .. p /\ p \in 1 .. p
      BY <1>2
    <3>2. key[1] \in Letters /\ key[Len(key)] \in Letters
      BY <3>1, <1>4 DEF p
    <3>3. key[1] \notin Space /\ key[Len(key)] \notin Space
      BY <3>2, LettersArePlain
    <3> QED BY <3>3, <1>2, TrimSelf
  <2> QED BY <2>1, <1>9 DEF Name, a
<1>11. Key(s) = key
  <2>1. ~IsPrefix(ExportPrefix, key)
    <3> SUFFICES ASSUME IsPrefix(ExportPrefix, key) PROVE FALSE
      OBVIOUS
    <3> DEFINE E == {"e", " "}
    <3>e. \A x, y : x \in E /\ y \in E => Len(<<x, y>>) = 2 /\ <<x, y>>[2] = y /\ <<x, y>> \in Seq(E)
      <4> SUFFICES ASSUME NEW x, NEW y, x \in E, y \in E
                   PROVE Len(<<x, y>>) = 2 /\ <<x, y>>[2] = y /\ <<x, y>> \in Seq(E)
        OBVIOUS
      <4> HIDE DEF E
      <4>1. Len(<<x, y>>) = 2
        OBVIOUS
      <4>2. <<x, y>>[2] = y
        OBVIOUS
      <4>3. <<x, y>> \in Seq(E)
        OBVIOUS
      <4> QED BY <4>1, <4>2, <4>3
    <3>l. Len(ExportPrefix) = 2
      BY <3>e DEF ExportPrefix
    <3>s. ExportPrefix[2] = " "
      BY <3>e DEF ExportPrefix
    <3>m. ExportPrefix \in Seq(E)
      BY <3>e DEF ExportPrefix
    <3> HIDE DEF E
    <3>1. Len(ExportPrefix) = 2 /\ ExportPrefix[2] = " " /\ ExportPrefix \in Seq(E)
      BY <3>l, <3>s, <3>m
    <3>2. 2 <= p /\ SubSeq(ExportPrefix, 1, Len(ExportPrefix)) = SubSeq(key, 1, Len(ExportPrefix))
      BY <3>1 DEF IsPrefix, p
    <3>3. SubSeq(key, 1, 2)[2] = key[2]
      <4>1. 1 \in 1 .. Len(key) + 1 /\ 2 \in 1 - 1 .. Len(key) /\ 2 \in 1 .. 2 - 1 + 1 /\ 1 + 2 - 1 = 2
        BY <3>2 DEF p
      <4>2. SubSeq(key, 1, 2)[2] = key[1 + 2 - 1]
        BY <4>1, <1>2, PartIs
      <4> QED BY <4>1, <4>2
    <3>4. SubSeq(ExportPrefix, 1, 2)[2] = ExportPrefix[2]
      <4>1. 1 \in 1 .. Len(ExportPrefix) + 1 /\ 2 \in 1 - 1 .. Len(ExportPrefix)
            /\ 2 \in 1 .. 2 - 1 + 1 /\ 1 + 2 - 1 = 2
        BY <3>l
      <4>2. SubSeq(ExportPrefix, 1, 2)[2] = ExportPrefix[1 + 2 - 1]
        BY <4>1, <3>1, PartIs
      <4> QED BY <4>1, <4>2
    <3>5. key[2] = " " /\ key[2] \in Letters
      <4>1. 2 \in 1 .. p
        BY <3>2, <1>2
      <4> QED BY <4>1, <3>1, <3>2, <3>3, <3>4, <1>4
    <3>6. key[2] \notin Space
      BY <3>5, LettersArePlain
    <3> QED BY <3>5, <3>6 DEF Space
  <2> QED BY <2>1, <1>10 DEF Key
<1>12. IsKey(key)
  BY <1>2 DEF IsKey, ToSet
<1>13. Value(s) = q
  <2> DEFINE o == p + 2
             part == SubSeq(s, o, Len(s))
  <2>1. o \in 1 .. Len(s) + 1 /\ Len(s) \in o - 1 .. Len(s) /\ Len(s) - o + 1 = Len(q)
        /\ \A i \in 1 .. Len(q) : o + i - 1 = p + 1 + i
    BY <1>1, <1>2, <1>5
  <2> HIDE DEF o
  <2>2. /\ part \in Seq(S) /\ Len(part) = Len(s) - o + 1
        /\ \A i \in 1 .. Len(s) - o + 1 : part[i] = s[o + i - 1]
    <3> DEFINE L == Len(s)
    <3>1. o \in 1 .. Len(s) + 1 /\ L \in o - 1 .. Len(s)
      BY <2>1
    <3> HIDE DEF L
    <3>2. /\ SubSeq(s, o, L) \in Seq(S) /\ Len(SubSeq(s, o, L)) = L - o + 1
          /\ \A i \in 1 .. L - o + 1 : SubSeq(s, o, L)[i] = s[o + i - 1]
      BY <3>1, <1>1, PartIs
    <3> QED BY <3>2 DEF L
  <2> HIDE DEF part
  <2>3. Len(part) = Len(q) /\ \A i \in 1 .. Len(q) : part[i] = q[i]
    BY <2>1, <2>2, <1>1
  <2>4. part = q
    BY <2>2, <2>3, <1>1, SameSeq
  <2>5. a + 1 = o
    BY <1>2, <1>8 DEF o
  <2>6. TrimStart(q) = q
    <3>1. q # <<>>
      BY <1>1
    <3>2. q[1] \notin Space
      BY <1>1 DEF Space, Double
    <3> QED BY <3>1, <3>2, <1>1, TrimStartSelf
  <2> QED BY <2>4, <2>5, <2>6 DEF Value, From, a, part
<1>14. ParseValue(q) = [valid |-> TRUE, value |-> secret.value]
  <2>1. q # <<>> /\ q[1] \in Quotes
    <3>1. q # <<>>
      BY <1>1
    <3> QED BY <3>1, <1>1 DEF Quotes
  <2> QED BY <2>1, <1>1, <1>3 DEF ParseValue
<1>15. ~(a > Len(s))
  BY <1>1, <1>2, <1>8
<1>16. ParseAssignment(s) = [valid |-> TRUE, key |-> key, value |-> secret.value]
  BY <1>11, <1>12, <1>13, <1>14, <1>15, AssignmentIs DEF a
<1> QED BY <1>5, <1>6, <1>16 DEF s, key

\* From a place to the end of its line a text is this.
IsLine(line, text, start) ==
  /\ start # 0 /\ start + Len(line) <= Len(text) /\ text[start + Len(line)] = "\n"
  /\ \A i \in 1 .. Len(line) : text[start + i - 1] = line[i]

\* A secret in an environment.
In(secret, environment) == [key |-> secret.key, value |-> secret.value, environment |-> environment]

\* A line of a secret is read as one secret more.
Adds(text, state, secret) ==
  ReadStatement(text, state) =
    State(state.start + Len(EnvAssignment(secret)) + 1, state.environment,
          Append(state.secrets, In(secret, state.environment)), TRUE)

\* An assignment that is written on a line is read as one secret more.
LEMMA WrittenRound ==
  ASSUME NEW C, NEW S, NEW text \in Seq(S), NEW secret \in Exported(C),
         EnvAssignment(secret) \in Seq(S), NEW state \in ReadState(S), state.valid,
         IsLine(EnvAssignment(secret), text, state.start)
  PROVE  Adds(text, state, secret)
<1> DEFINE start == state.start
           s == EnvAssignment(secret)
           end == start + Len(s)
           p == Len(secret.key)
           q == Quoted(secret.value)
           sep == SeparatorAt(text, start)
           val == ValueAt(text, start)
<1>1. /\ s \in Seq(Signs(C)) /\ q \in Seq(Signs(C))
      /\ Len(q) \in Nat /\ Len(q) >= 2 /\ q[1] = Double
      /\ Len(s) = p + 1 + Len(q)
      /\ \A i \in 1 .. p : s[i] = secret.key[i]
      /\ s[p + 1] = "="
      /\ \A i \in 1 .. Len(q) : s[p + 1 + i] = q[i]
  BY AssignmentWritten
<1>2. /\ ParseAssignment(s) = [valid |-> TRUE, key |-> secret.key, value |-> secret.value]
      /\ Trim(s) = s /\ s[1] \in Letters /\ s # <<>>
  BY WrittenParses
<1>3. secret.key \in Seq(Letters) /\ p \in Nat /\ p >= 1 /\ secret.value \in Seq(C)
  BY ExportedIs
<1>4. DecodeQuoted(q, Double) = [valid |-> TRUE, value |-> secret.value]
  BY <1>3, DecodeEscaped
<1>5. \A i \in 1 .. Len(s) : text[start + i - 1] = s[i]
  BY DEF IsLine
<1>e. start # 0 /\ start \in Nat
  BY StateIs DEF IsLine
<1>f. end <= Len(text) /\ text[end] = "\n"
  BY DEF IsLine
<1>a. end = start + Len(s)
  OBVIOUS
<1>b. s \in Seq(S)
  OBVIOUS
<1>7. \A i \in 1 .. p : secret.key[i] \in Letters
  BY <1>3
<1> HIDE DEF start, s, end, p, q, sep, val
<1>6. end = start + Len(s) /\ Len(s) \in Nat /\ s \in Seq(S)
  <2>1. Len(s) \in Nat
    <3>1. Len(s) = p + 1 + Len(q)
      BY <1>1
    <3>2. Len(q) \in Nat /\ p \in Nat
      BY <1>1, <1>3
    <3> QED BY <3>1, <3>2
  <2> QED BY <2>1, <1>a, <1>b
<1>c. end = start + p + 1 + Len(q)
  <2>1. Len(s) = p + 1 + Len(q)
    BY <1>1
  <2>2. Len(q) \in Nat /\ p \in Nat
    BY <1>1, <1>3
  <2> QED BY <2>1, <2>2, <1>a, <1>e
<1>8. start \in 1 .. Len(text) + 1 /\ end \in start .. Len(text) + 1 /\ Len(text) \in Nat
  BY <1>6, <1>c, <1>e, <1>f
<1>9. ASSUME NEW i \in start .. end - 1
      PROVE  text[i] = s[i - start + 1] /\ text[i] # "\n"
  <2>1. i - start + 1 \in 1 .. Len(s) /\ start + (i - start + 1) - 1 = i
    BY <1>6, <1>c, <1>e
  <2>2. text[start + (i - start + 1) - 1] = s[i - start + 1]
    BY <2>1, <1>5
  <2>3. s[i - start + 1] \in Signs(C)
    BY <2>1, <1>1
  <2>4. s[i - start + 1] # "\n"
    BY <2>3, SignsArePlain
  <2> QED BY <2>1, <2>2, <2>4
<1>d. ASSUME NEW i \in Nat, NEW j \in Nat, i \in start .. end - 1, j = i - start + 1
      PROVE  text[i] = s[j]
  <2>1. j \in 1 .. Len(s) /\ start + j - 1 = i
    BY <1>d, <1>6, <1>c, <1>e
  <2>2. text[start + j - 1] = s[j]
    BY <2>1, <1>5
  <2> QED BY <2>1, <2>2
<1>10. LineEnd(text, start) = end
  BY <1>8, <1>9, <1>f, LineEndOnly
<1>11. SubSeq(text, start, end - 1) = s
  <2> DEFINE b == end - 1
             part == SubSeq(text, start, b)
  <2>1. b \in start - 1 .. Len(text) /\ b - start + 1 = Len(s) /\ b = end - 1
    BY <1>6, <1>c, <1>e, <1>8
  <2> HIDE DEF b
  <2>2. part \in Seq(S) /\ Len(part) = b - start + 1
        /\ \A i \in 1 .. b - start + 1 : part[i] = text[start + i - 1]
    BY <2>1, <1>8, PartIs
  <2> HIDE DEF part
  <2>3. Len(part) = Len(s) /\ \A i \in 1 .. Len(part) : part[i] = s[i]
    BY <2>1, <2>2, <1>5
  <2>4. part = s
    BY <2>2, <2>3, <1>6, <1>c, <1>e, SameSeq
  <2> QED BY <2>1, <2>4 DEF part
<1>12. LineAt(text, start) = s
  BY <1>2, <1>10, <1>11 DEF LineAt
<1>13. ~Skips(text, start) /\ ~Brackets(text, start)
  <2>1. s[1] \notin {"=", "#", ";", "[", "]"}
    BY <1>2, LettersArePlain
  <2> QED BY <2>1, <1>2, <1>12 DEF Skips, Brackets
<1>14. sep = start + p
  <2>1. /\ sep \in start .. end
        /\ sep < end => text[sep] = "="
        /\ \A i \in start .. end - 1 : text[i] = "=" => sep <= i
    BY <1>8, <1>10, PlacesIn DEF sep
  <2>2. start + p \in start .. end - 1 /\ start + p - start + 1 = p + 1
    BY <1>1, <1>3, <1>c, <1>e
  <2>3. text[start + p] = "="
    <3> DEFINE i == start + p
               j == p + 1
    <3>1. i \in Nat /\ j \in Nat /\ i \in start .. end - 1 /\ j = i - start + 1
      BY <2>2, <1>3, <1>8, <1>e, <1>c, <1>3
    <3>2. s[j] = "="
      BY <1>1
    <3> HIDE DEF i, j
    <3>3. text[i] = s[j]
      BY <3>1, <1>d
    <3>4. text[i] = "="
      BY <3>2, <3>3
    <3> QED BY <3>4 DEF i
  <2>4. sep <= start + p
    BY <2>1, <2>2, <2>3
  <2>5. ASSUME sep < start + p PROVE FALSE
    <3>1. sep \in start .. end - 1 /\ sep < end /\ sep - start + 1 \in 1 .. p
      BY <2>1, <2>2, <2>5, <1>3, <1>8, <1>e, <1>c, <1>3
    <3>2. text[sep] = "=" /\ text[sep] = s[sep - start + 1]
      BY <3>1, <2>1, <1>9
    <3>3. s[sep - start + 1] \in Letters
      BY <3>1, <1>1, <1>7
    <3> QED BY <3>2, <3>3, LettersArePlain
  <2> QED BY <2>1, <2>2, <2>4, <2>5, <1>3
<1>15. val = start + p + 1 /\ text[val] = Double /\ val < end
  <2>1. /\ val \in start .. end
        /\ val < end => sep < val
        /\ \A i \in sep + 1 .. end - 1 : text[i] \notin Space => val <= i
    BY <1>8, <1>10, PlacesIn DEF sep, val
  <2>2. start + p + 1 \in start .. end - 1 /\ start + p + 1 - start + 1 = p + 1 + 1
        /\ 1 \in 1 .. Len(q) /\ start + p + 1 \in sep + 1 .. end - 1
    BY <1>1, <1>3, <1>c, <1>e, <1>14
  <2>3. text[start + p + 1] = s[p + 1 + 1]
    <3> DEFINE i == start + p + 1
               j == p + 1 + 1
    <3>1. i \in Nat /\ j \in Nat /\ i \in start .. end - 1 /\ j = i - start + 1
      BY <2>2, <1>3, <1>8, <1>e, <1>c, <1>3
    <3> HIDE DEF i, j
    <3>3. text[i] = s[j]
      BY <3>1, <1>d
    <3> QED BY <3>3 DEF i, j
  <2>4. text[start + p + 1] = Double
    BY <2>2, <2>3, <1>1
  <2>5. Double \notin Space
    BY DEF Double, Space
  <2>6. val <= start + p + 1
    BY <2>1, <2>2, <2>4, <2>5
  <2>7. val < end /\ sep < val
    BY <2>1, <2>2, <2>6, <1>e, <1>c
  <2>8. val = start + p + 1
    BY <2>1, <2>6, <2>7, <1>3, <1>14
  <2> QED BY <2>4, <2>7, <2>8
<1>16. IsQuoted(text, start)
  BY <1>10, <1>15 DEF IsQuoted, val, Quotes
<1>17. SubSeq(text, val, end - 1) = q
  <2> DEFINE b == end - 1
             part == SubSeq(text, val, b)
  <2>1. val \in 1 .. Len(text) + 1 /\ b \in val - 1 .. Len(text) /\ b - val + 1 = Len(q) /\ b = end - 1
    BY <1>1, <1>3, <1>6, <1>c, <1>e, <1>8, <1>15
  <2> HIDE DEF b
  <2>2. part \in Seq(S) /\ Len(part) = b - val + 1
        /\ \A i \in 1 .. b - val + 1 : part[i] = text[val + i - 1]
    BY <2>1, PartIs
  <2> HIDE DEF part
  <2>3. ASSUME NEW i \in 1 .. Len(q) PROVE part[i] = q[i]
    <3>1. val + i - 1 \in start .. end - 1 /\ val + i - 1 - start + 1 = p + 1 + i
          /\ i \in 1 .. b - val + 1
      BY <2>1, <1>1, <1>3, <1>6, <1>c, <1>e, <1>15
    <3>a. part[i] = text[val + i - 1]
      BY <3>1, <2>2
    <3>b. text[val + i - 1] = s[p + 1 + i]
      <4> DEFINE k == val + i - 1
                 j == p + 1 + i
      <4>a. k \in start .. end - 1 /\ j = k - start + 1
        BY <3>1, <1>15, <1>3, <1>e, <1>c
      <4>b. k \in Nat /\ j \in Nat
        BY <4>a, <1>3, <1>e, <1>8
      <4>1. k \in Nat /\ j \in Nat /\ k \in start .. end - 1 /\ j = k - start + 1
        BY <4>a, <4>b
      <4> HIDE DEF k, j
      <4>2. text[k] = s[j]
        BY <4>1, <1>d
      <4> QED BY <4>2 DEF k, j
    <3>2. part[i] = text[val + i - 1] /\ text[val + i - 1] = s[p + 1 + i]
      BY <3>a, <3>b, <3>1
    <3>3. s[p + 1 + i] = q[i]
      BY <1>1
    <3> QED BY <3>2, <3>3
  <2>4. part \in Seq(S)
    BY <2>2
  <2>5. q \in Seq(S \cup Signs(C)) /\ part \in Seq(S \cup Signs(C))
    BY <2>4, <1>1
  <2>6. Len(part) = Len(q) /\ \A i \in 1 .. Len(part) : part[i] = q[i]
    BY <2>1, <2>2, <2>3
  <2>7. part = q
    BY <2>5, <2>6, SameSeq
  <2> QED BY <2>1, <2>7 DEF part
<1>18. QuoteEnd(text, start) \in val + 1 .. end - 1
  <2>1. val \in 1 .. Len(text) /\ end \in val + 1 .. Len(text) + 1
    BY <1>3, <1>8, <1>15
  <2>a. DecodeQuoted(SubSeq(text, val, end - 1), Double) = [valid |-> TRUE, value |-> secret.value]
    BY <1>4, <1>17
  <2>2. DecodeQuoted(SubSeq(text, val, end - 1), Double).valid
    BY <2>a
  <2>3. ClosingQuote(text, Double, val + 1) \in val + 1 .. end - 1
    BY <2>1, <2>2, PassesAgree
  <2> QED BY <2>3, <1>15 DEF QuoteEnd, val
<1>19. StatementEnd(text, start) = end
  <2> DEFINE c == QuoteEnd(text, start)
  <2> HIDE DEF c
  <2>1. c \in 1 .. Len(text) + 1 /\ c \in start .. end - 1 /\ end \in c .. Len(text) + 1
    BY <1>3, <1>8, <1>15, <1>18 DEF c
  <2>2. \A i \in c .. end - 1 : text[i] # "\n"
    BY <2>1, <1>9, <1>8, <1>e, <1>c, <1>3
  <2>3. LineEnd(text, c) = end
    BY <2>1, <2>2, <1>f, LineEndOnly
  <2> QED BY <2>3, <1>16, StatementEndIs DEF c
<1>20. AssignmentAt(text, start) = [valid |-> TRUE, key |-> secret.key, value |-> secret.value]
  BY <1>2, <1>11, <1>19 DEF AssignmentAt, StatementAt
<1>21. SecretAt(text, state) = In(secret, state.environment)
  BY <1>20 DEF SecretAt, start, In
<1>22. ~(start > Len(text) + 1)
  BY <1>8
<1>25. ReadStatement(text, state) =
         State(StatementEnd(text, start) + 1, state.environment,
               Append(state.secrets, SecretAt(text, state)), TRUE)
  <2>1. AssignmentAt(text, start).valid
    BY <1>20
  <2> QED BY <2>1, <1>13, <1>22, RoundAssigns DEF start
<1> QED BY <1>19, <1>21, <1>25, <1>a DEF s, start, Adds

\* What is exported, line by line: the code puts the last newline at the end.
Joined(secrets) ==
  [i \in DOMAIN secrets |->
     EnvAssignment(secrets[i]) \o IF i < Len(secrets) THEN <<"\n">> ELSE <<>>]
Rows(secrets) == [i \in DOMAIN secrets |-> EnvAssignment(secrets[i]) \o <<"\n">>]
Lines(C) == Signs(C) \cup {"\n"}

\* The characters of an exported line with its line break.
LEMMA RowIs ==
  ASSUME NEW C, NEW secret \in Exported(C)
  PROVE  /\ EnvAssignment(secret) \in Seq(Lines(C))
         /\ EnvAssignment(secret) \o <<"\n">> \in Seq(Lines(C))
         /\ EnvAssignment(secret) \o <<>> = EnvAssignment(secret)
         /\ Len(EnvAssignment(secret) \o <<"\n">>) = Len(EnvAssignment(secret)) + 1
         /\ \A i \in 1 .. Len(EnvAssignment(secret)) :
              (EnvAssignment(secret) \o <<"\n">>)[i] = EnvAssignment(secret)[i]
         /\ (EnvAssignment(secret) \o <<"\n">>)[Len(EnvAssignment(secret)) + 1] = "\n"
<1> DEFINE S == Lines(C)
           s == EnvAssignment(secret)
           b == <<"\n">>
<1>1. s \in Seq(S)
  <2>1. s \in Seq(Signs(C))
    BY AssignmentWritten
  <2> HIDE DEF s
  <2> QED BY <2>1 DEF Lines
<1>2. b \in Seq(S)
  <2>1. "\n" \in S
    BY DEF Lines
  <2> HIDE DEF S
  <2> QED BY <2>1
<1>3. Len(b) = 1 /\ b[1] = "\n" /\ 1 \in 1 .. Len(b)
  OBVIOUS
<1> HIDE DEF s, b, S
<1>4. /\ s \o b \in Seq(S) /\ Len(s \o b) = Len(s) + Len(b)
      /\ \A i \in 1 .. Len(s) : (s \o b)[i] = s[i]
      /\ \A i \in 1 .. Len(b) : (s \o b)[Len(s) + i] = b[i]
  BY <1>1, <1>2, ConcatIs
<1>5. s \o <<>> = s
  BY <1>1, ConcatEmptySeq
<1>6. (s \o b)[Len(s) + 1] = "\n" /\ Len(s \o b) = Len(s) + 1
  BY <1>3, <1>4
<1> QED BY <1>1, <1>4, <1>5, <1>6 DEF s, b, S

\* The rows of an export, each with its line break, and the same with the last
\* break left out.
LEMMA RowsAre ==
  ASSUME NEW C, NEW secrets \in Seq(Exported(C))
  PROVE  /\ Rows(secrets) \in Seq(Seq(Lines(C))) /\ Len(Rows(secrets)) = Len(secrets)
         /\ \A i \in 1 .. Len(secrets) : Rows(secrets)[i] = EnvAssignment(secrets[i]) \o <<"\n">>
         /\ Joined(secrets) \in Seq(Seq(Lines(C))) /\ Len(Joined(secrets)) = Len(secrets)
         /\ \A i \in 1 .. Len(secrets) :
              Joined(secrets)[i] = EnvAssignment(secrets[i]) \o IF i < Len(secrets) THEN <<"\n">> ELSE <<>>
<1> DEFINE T == Seq(Lines(C))
           n == Len(secrets)
<1>1. n \in Nat /\ DOMAIN secrets = 1 .. n
  OBVIOUS
<1>2. ASSUME NEW i \in 1 .. n
      PROVE  /\ EnvAssignment(secrets[i]) \o <<"\n">> \in T
             /\ EnvAssignment(secrets[i]) \o (IF i < n THEN <<"\n">> ELSE <<>>) \in T
  <2>1. secrets[i] \in Exported(C)
    OBVIOUS
  <2> DEFINE secret == secrets[i]
  <2> HIDE DEF secret
  <2>2. EnvAssignment(secret) \o <<"\n">> \in T /\ EnvAssignment(secret) \o <<>> \in T
    BY <2>1, RowIs DEF secret
  <2>3. EnvAssignment(secret) \o (IF i < n THEN <<"\n">> ELSE <<>>) \in T
    <3>1. CASE i < n
      BY <3>1, <2>2
    <3>2. CASE ~(i < n)
      BY <3>2, <2>2
    <3> QED BY <3>1, <3>2
  <2> QED BY <2>2, <2>3 DEF secret
<1> HIDE DEF T, n
<1>3. Rows(secrets) = [i \in 1 .. n |-> EnvAssignment(secrets[i]) \o <<"\n">>]
  BY <1>1 DEF Rows
<1>4. Joined(secrets) = [i \in 1 .. n |-> EnvAssignment(secrets[i]) \o IF i < n THEN <<"\n">> ELSE <<>>]
  BY <1>1 DEF Joined, n
<1>5. Rows(secrets) \in [1 .. n -> T] /\ Joined(secrets) \in [1 .. n -> T]
  BY <1>2, <1>3, <1>4
<1>6. Rows(secrets) \in Seq(T) /\ Len(Rows(secrets)) = n
  BY <1>1, <1>5
<1>7. Joined(secrets) \in Seq(T) /\ Len(Joined(secrets)) = n
  BY <1>1, <1>5
<1>8. /\ \A i \in 1 .. n : Rows(secrets)[i] = EnvAssignment(secrets[i]) \o <<"\n">>
      /\ \A i \in 1 .. n : Joined(secrets)[i] = EnvAssignment(secrets[i]) \o IF i < n THEN <<"\n">> ELSE <<>>
  BY <1>3, <1>4
<1> QED BY <1>6, <1>7, <1>8 DEF T, n

\* What is exported are the lines, and of nothing an empty one.
LEMMA FormatIs ==
  ASSUME NEW C, NEW secrets \in Seq(Exported(C))
  PROVE  FormatSecrets(secrets) =
           IF Len(secrets) = 0 THEN <<"\n">> ELSE Flat(Rows(secrets), Len(secrets))
<1> DEFINE R == Rows(secrets)
           J == Joined(secrets)
           S == Lines(C)
           b == <<"\n">>
           n == Len(secrets)
<1>1. /\ R \in Seq(Seq(S)) /\ Len(R) = n
      /\ \A i \in 1 .. n : R[i] = EnvAssignment(secrets[i]) \o b
      /\ J \in Seq(Seq(S)) /\ Len(J) = n
      /\ \A i \in 1 .. n : J[i] = EnvAssignment(secrets[i]) \o IF i < n THEN b ELSE <<>>
  BY RowsAre
<1>2. n \in Nat
  OBVIOUS
<1>3. b \in Seq(S)
  <2>1. "\n" \in S
    BY DEF Lines
  <2> HIDE DEF S
  <2> QED BY <2>1
<1>4. FormatSecrets(secrets) = FlattenSeq(J) \o b
  BY DEF FormatSecrets, Joined
<1>r. \A i \in 1 .. n : secrets[i] \in Exported(C)
  OBVIOUS
<1> HIDE DEF R, J, S, b, n
<1>5. FlattenSeq(J) = Flat(J, n)
  BY <1>1, FlatIs
<1>6. CASE n = 0
  <2>1. Flat(J, n) = <<>>
    BY <1>1, <1>6, FlatIs
  <2>2. <<>> \o b = b
    BY <1>3, ConcatEmptySeq
  <2> QED BY <2>1, <2>2, <1>4, <1>5, <1>6 DEF b, n
<1>7. CASE n # 0
  <2> DEFINE m == n - 1
             a == EnvAssignment(secrets[n])
             f == Flat(R, m)
  <2>1. m \in Nat /\ m \in 0 .. n - 1 /\ m + 1 = n /\ n \in 1 .. n /\ m <= n /\ ~(n < n)
    BY <1>2, <1>7
  <2>2. /\ a \in Seq(S) /\ a \o <<>> = a
    <3>1. secrets[n] \in Exported(C)
      BY <2>1, <1>r
    <3> QED BY <3>1, RowIs DEF S
  <2>3. J[n] = a /\ R[n] = a \o b
    <3>1. J[n] = a \o IF n < n THEN b ELSE <<>>
      BY <2>1, <1>1
    <3>2. R[n] = a \o b
      BY <2>1, <1>1
    <3> QED BY <3>1, <3>2, <2>1, <2>2
  <2> HIDE DEF m, a
  <2>4. Flat(J, m) = f
    <3>1. ASSUME NEW i \in 1 .. m PROVE J[i] = R[i]
      <4>1. i \in 1 .. n /\ i < n
        BY <2>1, <1>2
      <4>2. J[i] = EnvAssignment(secrets[i]) \o IF i < n THEN b ELSE <<>>
        BY <4>1, <1>1
      <4>3. R[i] = EnvAssignment(secrets[i]) \o b
        BY <4>1, <1>1
      <4> QED BY <4>1, <4>2, <4>3
    <3>2. m <= Len(J) /\ m <= Len(R)
      BY <2>1, <1>1
    <3> QED BY <3>1, <3>2, <2>1, <1>1, FlatSame
  <2>5. f \in Seq(S)
    <3>1. m \in 0 .. Len(R)
      BY <2>1, <1>1, <1>2
    <3> QED BY <3>1, <1>1, FlatType
  <2>6. Flat(J, n) = f \o a
    <3>1. m \in 0 .. Len(J) - 1
      BY <2>1, <1>1, <1>2
    <3>2. Flat(J, m + 1) = Flat(J, m) \o J[m + 1]
      BY <3>1, <1>1, FlatIs
    <3> QED BY <3>2, <2>1, <2>3, <2>4
  <2>7. Flat(R, n) = f \o (a \o b)
    <3>1. m \in 0 .. Len(R) - 1
      BY <2>1, <1>1, <1>2
    <3>2. Flat(R, m + 1) = Flat(R, m) \o R[m + 1]
      BY <3>1, <1>1, FlatIs
    <3> QED BY <3>2, <2>1, <2>3
  <2> HIDE DEF f
  <2>8. (f \o a) \o b = f \o (a \o b)
    BY <2>2, <2>5, <1>3, ConcatAssociative
  <2> QED BY <2>6, <2>7, <2>8, <1>4, <1>5, <1>7 DEF R, n
<1> QED BY <1>6, <1>7

\* An empty line, or the empty end of a text, is skipped.
LEMMA EmptyLine ==
  ASSUME NEW S, NEW text \in Seq(S), NEW state \in ReadState(S), state.valid,
         state.start \in 1 .. Len(text) + 1,
         state.start <= Len(text) => text[state.start] = "\n"
  PROVE  ReadStatement(text, state) =
           State(state.start + 1, state.environment, state.secrets, TRUE)
<1> DEFINE start == state.start
<1>1. start \in 1 .. Len(text) + 1 /\ start \in start .. Len(text) + 1 /\ Len(text) \in Nat
      /\ (start <= Len(text) => text[start] = "\n")
  BY StateIs
<1> HIDE DEF start
<1>2. LineEnd(text, start) = start
  <2>1. \A i \in start .. start - 1 : text[i] # "\n"
    BY <1>1
  <2> QED BY <1>1, <2>1, LineEndOnly
<1>3. LineAt(text, start) = <<>>
  <2> DEFINE b == start - 1
             part == SubSeq(text, start, b)
  <2>1. b \in start - 1 .. Len(text) /\ b - start + 1 = 0 /\ b = start - 1
    BY <1>1
  <2> HIDE DEF b
  <2>2. part \in Seq(S) /\ Len(part) = 0
    BY <2>1, <1>1, PartIs
  <2> HIDE DEF part
  <2>3. Inked(part, 1, Len(part)) = {}
    BY <2>2 DEF Inked
  <2>4. Trim(part) = <<>>
    BY <2>2, <2>3, TrimBlank
  <2> QED BY <2>1, <2>4, <1>2 DEF LineAt, part
<1>4. Skips(text, start) /\ ~(start > Len(text) + 1)
  BY <1>1, <1>3 DEF Skips
<1>5. ReadStatement(text, state) =
        State(LineEnd(text, start) + 1, state.environment, state.secrets, TRUE)
  BY <1>4, RoundSkips DEF start
<1> QED BY <1>2, <1>5 DEF start

\* What is read after the first lines of an export.
Imported(secrets, k) == State(Len(Flat(Rows(secrets), k)) + 1, <<>>, SubSeq(secrets, 1, k), TRUE)

\* The first k secrets and the next one are the first k + 1.
LEMMA FirstSecrets ==
  ASSUME NEW S, NEW s \in Seq(S), NEW k \in 0 .. Len(s) - 1
  PROVE  Append(SubSeq(s, 1, k), s[k + 1]) = SubSeq(s, 1, k + 1)
<1> DEFINE n == k + 1
           a == SubSeq(s, 1, k)
           b == SubSeq(s, 1, n)
<1>1. k \in Nat /\ n \in Nat /\ n = k + 1 /\ 1 \in 1 .. Len(s) + 1 /\ k \in 1 - 1 .. Len(s) /\ n \in 1 - 1 .. Len(s)
      /\ n \in 1 .. Len(s) /\ k - 1 + 1 = k /\ n - 1 + 1 = n
  OBVIOUS
<1> HIDE DEF n
<1>2. a \in Seq(S) /\ Len(a) = k - 1 + 1 /\ \A i \in 1 .. k - 1 + 1 : a[i] = s[1 + i - 1]
  BY <1>1, PartIs
<1>3. b \in Seq(S) /\ Len(b) = n - 1 + 1 /\ \A i \in 1 .. n - 1 + 1 : b[i] = s[1 + i - 1]
  BY <1>1, PartIs
<1> DEFINE x == s[n]
           c == Append(a, x)
<1>x. x \in S
  BY <1>1
<1>4. \A i \in 1 .. n : 1 + i - 1 = i
  BY <1>1
<1>5. Len(a) = k /\ Len(b) = n /\ \A i \in 1 .. k : a[i] = s[i]
  BY <1>1, <1>2, <1>4
<1>6. \A i \in 1 .. n : b[i] = s[i]
  BY <1>1, <1>3, <1>4
<1> HIDE DEF a, b, x
<1>7. c \in Seq(S) /\ Len(c) = Len(a) + 1 /\ (\A i \in 1 .. Len(a) : c[i] = a[i]) /\ c[Len(a) + 1] = x
  BY <1>x, <1>2, AppendProperties
<1> HIDE DEF c
<1>8. Len(c) = n /\ Len(b) = n
  BY <1>1, <1>5, <1>7
<1>9. ASSUME NEW i \in 1 .. n PROVE c[i] = b[i]
  <2>1. CASE i = n
    <3>1. c[n] = x
      BY <1>1, <1>5, <1>7
    <3> QED BY <3>1, <2>1, <1>6 DEF x
  <2>2. CASE i # n
    <3>1. i \in 1 .. k
      BY <2>2, <1>1
    <3> QED BY <3>1, <1>5, <1>6, <1>7
  <2> QED BY <2>1, <2>2
<1>10. c = b
  BY <1>3, <1>7, <1>8, <1>9, SameSeq
<1> QED BY <1>1, <1>10 DEF a, b, c, x

AddsExported(text, state, secret) ==
  ReadStatement(text, state) =
    State(state.start + Len(EnvAssignment(secret)) + 1, <<>>, Append(state.secrets, secret), TRUE)

\* A round that starts at an exported line adds its secret.
LEMMA ExportedRound ==
  ASSUME NEW C, NEW S, NEW text \in Seq(S), NEW secret \in Exported(C),
         EnvAssignment(secret) \in Seq(S), NEW state \in ReadState(S), state.valid = TRUE,
         state.environment = <<>>, IsLine(EnvAssignment(secret), text, state.start)
  PROVE  AddsExported(text, state, secret)
<1>1. secret = In(secret, <<>>)
  BY ExportedIs DEF In
<1>2. state.valid
  OBVIOUS
<1>3. Adds(text, state, secret)
  BY <1>2, WrittenRound
<1> QED BY <1>1, <1>3 DEF Adds, AddsExported

\* One line of an export after the other.
LEMMA ExportRound ==
  ASSUME NEW C, NEW secrets \in Seq(Exported(C)), NEW k \in 0 .. Len(secrets) - 1,
         Imported(secrets, k) \in ReadState(Lines(C))
  PROVE  ReadStatement(Flat(Rows(secrets), Len(secrets)), Imported(secrets, k)) =
           Imported(secrets, k + 1)
<1> DEFINE S == Lines(C)
           R == Rows(secrets)
           n == Len(secrets)
           f == Flat(R, k)
           secret == secrets[k + 1]
           s == EnvAssignment(secret)
           text == Flat(Rows(secrets), Len(secrets))
           state == Imported(secrets, k)
<1>1. k \in Nat /\ n \in Nat /\ k + 1 \in 1 .. n /\ n \in k + 1 .. n
  OBVIOUS
<1>2. secret \in Exported(C)
  BY <1>1
<1>3. R \in Seq(Seq(S)) /\ Len(R) = n /\ R[k + 1] = s \o <<"\n">>
  <2>1. \A i \in 1 .. n : R[i] = EnvAssignment(secrets[i]) \o <<"\n">>
    BY RowsAre
  <2> QED BY <2>1, <1>1, RowsAre
<1>s. Append(SubSeq(secrets, 1, k), secret) = SubSeq(secrets, 1, k + 1)
  BY FirstSecrets
<1> HIDE DEF S, R, n, secret
<1>4. /\ s \in Seq(S) /\ Len(s \o <<"\n">>) = Len(s) + 1
      /\ \A i \in 1 .. Len(s) : (s \o <<"\n">>)[i] = s[i]
      /\ (s \o <<"\n">>)[Len(s) + 1] = "\n"
  BY <1>2, RowIs DEF S
<1>t. state \in ReadState(S)
  BY DEF S
<1> HIDE DEF s, state
<1>5. /\ f \in Seq(S) /\ text \in Seq(S)
      /\ Len(Flat(R, k + 1)) = Len(f) + Len(R[k + 1])
      /\ Len(f) + Len(R[k + 1]) <= Len(text)
      /\ \A i \in 1 .. Len(R[k + 1]) : text[Len(f) + i] = R[k + 1][i]
  <2>1. k \in 0 .. Len(R) - 1 /\ n \in k + 1 .. Len(R)
    BY <1>1, <1>3
  <2> QED BY <2>1, <1>3, FlatPlace DEF R, n
<1> DEFINE L == Len(s)
           a == Len(f)
<1>6. L \in Nat /\ a \in Nat
  BY <1>4, <1>5
<1> HIDE DEF f
<1>7. /\ Len(Flat(R, k + 1)) = a + L + 1 /\ a + L + 1 <= Len(text)
      /\ (\A i \in 1 .. L : text[a + i] = s[i]) /\ text[a + (L + 1)] = "\n"
  <2>1. Len(R[k + 1]) = L + 1
    BY <1>3, <1>4
  <2>2. Len(Flat(R, k + 1)) = a + (L + 1) /\ a + (L + 1) <= Len(text)
    BY <2>1, <1>5
  <2>3. ASSUME NEW i \in 1 .. L PROVE text[a + i] = s[i]
    <3>1. i \in 1 .. Len(R[k + 1])
      BY <2>1, <1>6
    <3> QED BY <3>1, <1>3, <1>4, <1>5
  <2>4. text[a + (L + 1)] = "\n"
    <3>1. L + 1 \in 1 .. Len(R[k + 1])
      BY <2>1, <1>6
    <3> QED BY <3>1, <1>3, <1>4, <1>5
  <2>5. a + (L + 1) = a + L + 1
    BY <1>6
  <2> QED BY <2>2, <2>3, <2>4, <2>5
<1> HIDE DEF L, a, text
<1>8. /\ state.start = a + 1 /\ state.environment = <<>> /\ state.secrets = SubSeq(secrets, 1, k)
      /\ state.valid = TRUE
  BY DEF Imported, State, a, f, R, state
<1>9. IsLine(s, text, state.start)
  <2> DEFINE start == a + 1
  <2>1. start # 0 /\ start + L = a + (L + 1) /\ start + L = a + L + 1
    BY <1>6
  <2>2. \A i \in 1 .. L : start + i - 1 = a + i
    BY <1>6
  <2>3. \A i \in 1 .. L : text[start + i - 1] = s[i]
    BY <2>2, <1>7
  <2> HIDE DEF start
  <2>4. text[start + L] = "\n" /\ start + L <= Len(text)
    BY <2>1, <1>7
  <2>5. IsLine(s, text, start)
    BY <2>1, <2>3, <2>4 DEF IsLine, L
  <2> QED BY <2>5, <1>8 DEF start
<1>10. ReadStatement(text, state) = State(state.start + L + 1, <<>>, Append(state.secrets, secret), TRUE)
  <2>1. state.valid = TRUE /\ state.environment = <<>>
    BY <1>8
  <2>2. state \in ReadState(S)
    BY <1>t
  <2>3. EnvAssignment(secret) \in Seq(S)
    BY <1>4 DEF s
  <2>4. IsLine(EnvAssignment(secret), text, state.start)
    BY <1>9 DEF s
  <2>5. text \in Seq(S)
    BY <1>5
  <2>6. AddsExported(text, state, secret)
    BY <2>1, <2>2, <2>3, <2>4, <2>5, <1>2, ExportedRound
  <2> QED BY <2>6 DEF s, L, AddsExported
<1>12. state.start + L + 1 = Len(Flat(R, k + 1)) + 1
  <2>1. Len(Flat(R, k + 1)) = a + L + 1
    BY <1>7
  <2>2. state.start = a + 1
    BY <1>8
  <2> QED BY <2>1, <2>2, <1>6
<1>13. ReadStatement(text, state) = State(Len(Flat(R, k + 1)) + 1, <<>>, SubSeq(secrets, 1, k + 1), TRUE)
  BY <1>8, <1>10, <1>12, <1>s
<1> QED BY <1>13 DEF Imported, R, state, text

\* An export is a text.
LEMMA FormatType ==
  ASSUME NEW C, NEW secrets \in Seq(Exported(C))
  PROVE  FormatSecrets(secrets) \in Seq(Lines(C))
<1> DEFINE S == Lines(C)
           R == Rows(secrets)
           n == Len(secrets)
           text == FormatSecrets(secrets)
<1>1. n \in Nat /\ R \in Seq(Seq(S)) /\ Len(R) = n
  BY RowsAre
<1>2. text = IF n = 0 THEN <<"\n">> ELSE Flat(R, n)
  BY FormatIs
<1>3. text \in Seq(S)
  <2>1. "\n" \in S
    BY DEF Lines
  <2> HIDE DEF S
  <2>2. <<"\n">> \in Seq(S)
    BY <2>1
  <2>3. n \in 0 .. Len(R)
    BY <1>1
  <2>4. Flat(R, n) \in Seq(S)
    BY <2>3, <1>1, FlatType
  <2> QED BY <2>2, <2>4, <1>2
<1> QED BY <1>3

\* An import gives secrets over the characters of its text.
LEMMA ImportType ==
  ASSUME NEW S, NEW text \in Seq(S)
  PROVE  ParseImport(text).secrets \in Seq(Secret(S))
<1> DEFINE t == LineBreaks(text)
           state == Statements(t)
           n == Len(t) + 1
<1>1. t \in Seq(S)
  BY PiecesAre
<1>2. ParseImport(text) = state
  BY DEF ParseImport
<1> HIDE DEF t
<1>3. n \in Nat
  BY <1>1
<1>4. state = Read(t)[n] /\ Read(t) \in [Nat -> Reads(S)]
  BY <1>1, ReadRuns
<1> HIDE DEF n, state
<1>5. state \in ReadState(S)
  BY <1>3, <1>4 DEF Reads
<1> QED BY <1>2, <1>5, StateIs

\* What is appended is last, and what was there is the front.
LEMMA FrontOfAppend ==
  ASSUME NEW S, NEW s \in Seq(S), NEW x \in S
  PROVE  Front(Append(s, x)) = s /\ Last(Append(s, x)) = x
<1> DEFINE a == Append(s, x)
           n == Len(s)
           f == SubSeq(a, 1, n)
<1>1. n \in Nat /\ a \in Seq(S) /\ Len(a) = n + 1 /\ (\A i \in 1 .. n : a[i] = s[i]) /\ a[n + 1] = x
  BY AppendProperties
<1>n. s \in Seq(S) /\ Len(s) = n
  OBVIOUS
<1> HIDE DEF a, n
<1>2. Front(a) = f /\ Last(a) = x
  <2>1. Len(a) - 1 = n
    BY <1>1
  <2> QED BY <2>1, <1>1 DEF Front, Last
<1>3. 1 \in 1 .. Len(a) + 1 /\ n \in 1 - 1 .. Len(a) /\ n - 1 + 1 = n /\ \A i \in 1 .. n : 1 + i - 1 = i
  BY <1>1
<1>4. f \in Seq(S) /\ Len(f) = n - 1 + 1 /\ \A i \in 1 .. n - 1 + 1 : f[i] = a[1 + i - 1]
  BY <1>1, <1>3, PartIs
<1> HIDE DEF f
<1>5. Len(f) = Len(s) /\ \A i \in 1 .. Len(f) : f[i] = s[i]
  BY <1>n, <1>1, <1>3, <1>4
<1>6. f = s
  BY <1>n, <1>4, <1>5, SameSeq
<1> QED BY <1>2, <1>6 DEF a

\* What is exported is read as what it was.
THEOREM ImportOfExport ==
  ASSUME NEW C, NEW secrets \in Seq(Exported(C))
  PROVE  ParseImport(FormatSecrets(secrets)).valid /\ ParseImport(FormatSecrets(secrets)).secrets = secrets
<1> DEFINE S == Lines(C)
           R == Rows(secrets)
           n == Len(secrets)
           text == FormatSecrets(secrets)
<1>1. n \in Nat /\ R \in Seq(Seq(S)) /\ Len(R) = n
  BY RowsAre
<1>2. text = IF n = 0 THEN <<"\n">> ELSE Flat(R, n)
  BY FormatIs
<1>3. text \in Seq(S)
  BY FormatType
<1>4. "\r" \notin S
  BY SignsArePlain DEF Lines
<1>5. ParseImport(text) = Statements(text)
  BY <1>3, <1>4, LineBreaksNone DEF ParseImport
<1> HIDE DEF S, R, n, text
<1> DEFINE r == Read(text)
<1>6. /\ r \in [Nat -> Reads(S)] /\ r[0] = ReadStart
      /\ \A m \in Nat : r[m + 1] = ReadStatement(text, r[m])
  BY <1>3, ReadRuns
<1>7. \A m \in Nat : r[m] \in ReadState(S)
  BY <1>6 DEF Reads
<1> HIDE DEF r
<1>8. SubSeq(secrets, 1, n) = secrets
  BY DEF n
<1>9. \E m \in Nat : m <= Len(text) /\ r[m] = State(Len(text) + 1, <<>>, secrets, TRUE)
  <2>1. CASE n = 0
    <3>1. Len(text) = 1 /\ text[1] = "\n"
      BY <2>1, <1>2
    <3>2. r[0] = State(1, <<>>, <<>>, TRUE)
      BY <1>6 DEF ReadStart, State
    <3>3. r[0].start = 1 /\ r[0].environment = <<>> /\ r[0].secrets = <<>> /\ r[0].valid = TRUE
      BY <3>2 DEF State
    <3>4. ReadStatement(text, r[0]) = State(r[0].start + 1, r[0].environment, r[0].secrets, TRUE)
      <4>1. r[0] \in ReadState(S)
        BY <1>7
      <4>2. r[0].start \in 1 .. Len(text) + 1 /\ (r[0].start <= Len(text) => text[r[0].start] = "\n") /\ r[0].valid
        BY <3>1, <3>3
      <4> QED BY <4>1, <4>2, <1>3, EmptyLine
    <3>5. r[0 + 1] = ReadStatement(text, r[0])
      BY <1>6
    <3>6. 0 + 1 = 1 /\ 1 + 1 = Len(text) + 1
      BY <3>1
    <3>7. secrets = <<>>
      BY <2>1 DEF n
    <3>8. r[1] = State(Len(text) + 1, <<>>, secrets, TRUE)
      BY <3>3, <3>4, <3>5, <3>6, <3>7
    <3>9. 1 \in Nat /\ 1 <= Len(text)
      BY <3>1
    <3> DEFINE Is(m) == m <= Len(text) /\ r[m] = State(Len(text) + 1, <<>>, secrets, TRUE)
    <3>10. Is(1)
      BY <3>8, <3>9
    <3> HIDE DEF Is
    <3>11. \E m \in Nat : Is(m)
      BY <3>9, <3>10
    <3> QED BY <3>11 DEF Is
  <2>2. CASE n # 0
    <3>1. text = Flat(R, n)
      BY <2>2, <1>2
    <3> DEFINE Met == {k \in Nat : k <= n => /\ r[k] = Imported(secrets, k) /\ k <= Len(Flat(R, k))}
    <3>2. 0 \in Met
      <4>1. Flat(R, 0) = <<>>
        BY <1>1, FlatIs
      <4>2. Len(Flat(R, 0)) = 0
        BY <4>1
      <4>3. SubSeq(secrets, 1, 0) = <<>>
        OBVIOUS
      <4>4. r[0] = State(0 + 1, <<>>, <<>>, TRUE)
        BY <1>6 DEF ReadStart, State
      <4>5. r[0] = Imported(secrets, 0)
        BY <4>2, <4>3, <4>4 DEF Imported, R
      <4> QED BY <4>2, <4>5
    <3>3. ASSUME NEW k \in Nat, k \in Met PROVE k + 1 \in Met
      <4> SUFFICES ASSUME k + 1 <= n
                   PROVE  r[k + 1] = Imported(secrets, k + 1) /\ k + 1 <= Len(Flat(R, k + 1))
        OBVIOUS
      <4>1. k \in 0 .. n - 1 /\ k <= n
        BY <1>1
      <4>2. r[k] = Imported(secrets, k) /\ k <= Len(Flat(R, k))
        BY <4>1, <3>3
      <4>3. ReadStatement(text, r[k]) = Imported(secrets, k + 1)
        <5>1. text = Flat(Rows(secrets), Len(secrets)) /\ k \in 0 .. Len(secrets) - 1
          BY <3>1, <4>1 DEF R, n
        <5>2. r[k] \in ReadState(Lines(C))
          BY <1>7 DEF S
        <5>3. Imported(secrets, k) \in ReadState(Lines(C))
          BY <5>2, <4>2
        <5>4. ReadStatement(Flat(Rows(secrets), Len(secrets)), Imported(secrets, k)) =
                Imported(secrets, k + 1)
          BY <5>1, <5>3, ExportRound
        <5> QED BY <5>1, <5>4, <4>2
      <4>4. Len(Flat(R, k + 1)) = Len(Flat(R, k)) + Len(R[k + 1])
        <5>1. k \in 0 .. Len(R) - 1 /\ n \in k + 1 .. Len(R)
          BY <4>1, <1>1
        <5> QED BY <5>1, <1>1, FlatPlace
      <4>5. Len(Flat(R, k)) \in Nat
        <5>1. k \in 0 .. Len(R)
          BY <4>1, <1>1
        <5>2. Flat(R, k) \in Seq(S)
          BY <5>1, <1>1, FlatType
        <5> QED BY <5>2
      <4>6. Len(R[k + 1]) \in Nat /\ Len(R[k + 1]) >= 1
        <5>1. k + 1 \in 1 .. Len(secrets)
          BY <4>1 DEF n
        <5>2. secrets[k + 1] \in Exported(C)
          BY <5>1
        <5>3. R[k + 1] = EnvAssignment(secrets[k + 1]) \o <<"\n">>
          BY <5>1, RowsAre DEF R
        <5> DEFINE s == EnvAssignment(secrets[k + 1])
        <5>4. s \in Seq(Lines(C)) /\ Len(s \o <<"\n">>) = Len(s) + 1
          BY <5>2, RowIs
        <5> HIDE DEF s
        <5>5. Len(s) \in Nat
          BY <5>4
        <5> QED BY <5>3, <5>4, <5>5 DEF s
      <4>7. k + 1 <= Len(Flat(R, k + 1))
        BY <4>2, <4>4, <4>5, <4>6
      <4> QED BY <4>3, <4>7, <1>6
    <3> HIDE DEF Met
    <3>4. \A k \in Nat : k \in Met
      BY <3>2, <3>3, Induction
    <3>5. r[n] = Imported(secrets, n) /\ n <= Len(Flat(R, n))
      BY <3>4, <1>1 DEF Met
    <3>6. r[n] = State(Len(text) + 1, <<>>, secrets, TRUE)
      BY <3>1, <3>5, <1>8 DEF Imported, R
    <3> QED BY <3>1, <3>5, <3>6, <1>1
  <2> QED BY <2>1, <2>2
<1>10. PICK m \in Nat : m <= Len(text) /\ r[m] = State(Len(text) + 1, <<>>, secrets, TRUE)
  BY <1>9
<1> DEFINE state == r[m]
           l == Len(text)
<1>11. l \in Nat
  BY <1>3
<1>12. state.start = l + 1 /\ state.environment = <<>> /\ state.secrets = secrets /\ state.valid = TRUE
  BY <1>10 DEF State
<1>13. ReadStatement(text, state) = State(state.start + 1, state.environment, state.secrets, TRUE)
  <2>1. state \in ReadState(S)
    BY <1>7
  <2>2. state.start \in 1 .. Len(text) + 1 /\ (state.start <= Len(text) => text[state.start] = "\n") /\ state.valid
    BY <1>11, <1>12
  <2> HIDE DEF state
  <2> QED BY <2>1, <2>2, <1>3, EmptyLine
<1>14. r[m + 1] = State(l + 1 + 1, <<>>, secrets, TRUE)
  BY <1>6, <1>12, <1>13
<1>15. Statements(text) = r[m + 1]
  <2> DEFINE k == m + 1
  <2>1. k \in Nat /\ k <= Len(text) + 1
    BY <1>10, <1>11
  <2>2. r[k].start = l + 1 + 1
    BY <1>14 DEF State
  <2>3. r[k].start > Len(text) + 1
    BY <2>2, <1>11
  <2> HIDE DEF k
  <2>4. Statements(text) = r[k]
    BY <2>1, <2>3, <1>3, ReadEnds DEF r
  <2> QED BY <2>4 DEF k
<1>16. ParseImport(text).valid = TRUE /\ ParseImport(text).secrets = secrets
  BY <1>5, <1>14, <1>15 DEF State
<1> QED BY <1>16 DEF text
=============================================================================
