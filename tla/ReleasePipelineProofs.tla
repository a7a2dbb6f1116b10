------------------------ MODULE ReleasePipelineProofs ------------------------
(***************************************************************************)
(* The safety properties of ReleasePipeline for any number of merges, job  *)
(* instances, build results and failures.                                  *)
(***************************************************************************)
EXTENDS ReleasePipeline, TLAPS

\* A job that has passed its ordering check, its tag check, packing, publish-npm.
Ordered == {"ordered", "checked", "packed", "publishing", "reconciling", "published", "done"}
Checked == Ordered \ {"ordered"}
Packed == Checked \ {"checked"}
Published == {"published", "done"}

\* What a job has established stays true of the registry and of origin.
JobIsRight(j) ==
  /\ pc[j] \in Ordered /\ Commit(j) > 1 => tags[Version(j) - 1] = Commit(j) - 1
  /\ pc[j] \in Checked => tags[Version(j)] \in {Nobody, Commit(j)}
  /\ pc[j] \in Packed => build[j] \in Builds
  /\ pc[j] \in Published => Exact(j)

JobsAreRight == \A j \in Jobs : JobIsRight(j)

\* npm, the tags and the releases agree with one another, version by version.
VersionsAgree ==
  \A v \in Versions :
    /\ v \in visible => registry[v] # NoBuild
    /\ tags[v] \in Merges => VersionOf(tags[v]) = v /\ v \in visible
    /\ releases[v] # Nobody => releases[v] \in Merges /\ tags[v] = releases[v]

\* A published version is that of one merge in line, which alone can tag it.
OwnedInLine ==
  \A v \in Versions : registry[v] # NoBuild =>
    \E m \in Merges : InLine(m, v) /\ tags[v] \in {Nobody, m}

LatestIsNewest ==
  /\ latest # 0 => registry[latest] # NoBuild
  /\ \A v \in Versions : registry[v] # NoBuild => v <= latest

\* The inductive invariant.
IInv == TypeOK /\ JobsAreRight /\ VersionsAgree /\ OwnedInLine /\ LatestIsNewest

\* A merge is a positive number and neither no commit nor the foreign one.
LEMMA MergeIsCommit ==
  ASSUME NEW m \in Merges
  PROVE  m \in Nat \ {0} /\ m # Nobody /\ m # Foreign /\ m \in 0 .. Foreign
  BY MergesAssumption DEF Merges, Nobody, Foreign

\* The commit of a job is one of the merges.
LEMMA CommitOfJob ==
  ASSUME NEW j \in Jobs
  PROVE  Commit(j) \in Merges
  BY DEF Jobs, Commit

\* The version of a merge is one of the versions, and so is the one before it
\* when there is a merge before it.
LEMMA VersionOfMerge ==
  ASSUME TypeOK, NEW m \in Merges
  PROVE  /\ VersionOf(m) \in Versions /\ VersionOf(m) \in Nat \ {0}
         /\ m > 1 => VersionOf(m) - 1 \in Versions /\ m - 1 \in Merges
<1>1. base[m] \in 1 .. MaxBase /\ m \in 1 .. NumMerges
  BY DEF TypeOK, Merges
<1> QED
  BY <1>1, MergesAssumption DEF VersionOf, Versions, Merges

\* The versions are positive numbers.
LEMMA VersionsAreNumbers == \A v \in Versions : v \in Nat \ {0}
  BY MergesAssumption DEF Versions

\* A version is that of one merge in line at most.
LEMMA InLineUnique ==
  ASSUME NEW m \in Merges, NEW n \in Merges, NEW v \in Versions, InLine(m, v), InLine(n, v)
  PROVE  m = n
<1>1. m \in Nat \ {0} /\ n \in Nat \ {0} /\ v \in Nat \ {0}
  BY MergeIsCommit, VersionsAreNumbers
<1>2. ASSUME m < n PROVE FALSE
  <2>1. m \in 1 .. n - 1
    BY <1>1, <1>2
  <2>2. VersionOf(m) = v - (n - m) /\ VersionOf(m) = v
    BY <2>1 DEF InLine
  <2> QED
    BY <1>1, <1>2, <2>2
<1>3. ASSUME n < m PROVE FALSE
  <2>1. n \in 1 .. m - 1
    BY <1>1, <1>3
  <2>2. VersionOf(n) = v - (m - n) /\ VersionOf(n) = v
    BY <2>1 DEF InLine
  <2> QED
    BY <1>1, <1>3, <2>2
<1> QED
  BY <1>1, <1>2, <1>3

\* A job that has passed its ordering check is in line: the tag before it is of a
\* version that npm serves, and so on down to the first merge.
LEMMA OrderedInLine ==
  ASSUME IInv, NEW j \in Jobs, pc[j] \in Ordered
  PROVE  InLine(Commit(j), Version(j))
<1> DEFINE c == Commit(j)
<1> DEFINE v == Version(j)
<1>1. /\ c \in Merges /\ c \in Nat \ {0} /\ v \in Versions /\ v \in Nat \ {0} /\ v = VersionOf(c)
      /\ c > 1 => v - 1 \in Versions /\ c - 1 \in Merges
  BY CommitOfJob, MergeIsCommit, VersionOfMerge DEF IInv, Version
<1>2. CASE c = 1
  BY <1>1, <1>2 DEF InLine
<1>3. CASE c > 1
  <2>1. tags[v - 1] = c - 1
    BY <1>3 DEF IInv, JobsAreRight, JobIsRight
  <2>2. VersionOf(c - 1) = v - 1 /\ registry[v - 1] # NoBuild
    BY <1>1, <1>3, <2>1 DEF IInv, VersionsAgree
  <2>3. PICK m \in Merges : InLine(m, v - 1) /\ tags[v - 1] \in {Nobody, m}
    BY <1>1, <1>3, <2>2 DEF IInv, OwnedInLine
  <2>4. m = c - 1
    BY <1>1, <1>3, <2>1, <2>3, MergeIsCommit
  <2>5. ASSUME NEW n \in 1 .. c - 1
        PROVE  VersionOf(n) = v - (c - n) /\ tags[VersionOf(n)] = n /\ registry[VersionOf(n)] # NoBuild
    <3>1. CASE n = c - 1
      BY <1>1, <2>1, <2>2, <3>1
    <3>2. CASE n # c - 1
      <4>1. n \in 1 .. m - 1 /\ (v - 1) - (m - n) = v - (c - n)
        BY <1>1, <2>4, <3>2
      <4>2. VersionOf(n) = (v - 1) - (m - n) /\ tags[VersionOf(n)] = n /\ registry[VersionOf(n)] # NoBuild
        BY <2>3, <4>1 DEF InLine
      <4> QED
        BY <4>1, <4>2
    <3> QED
      BY <3>1, <3>2
  <2> QED
    BY <1>1, <2>5 DEF InLine
<1> QED
  BY <1>1, <1>2, <1>3

\* Who is in line stays in line: a version that has been published remains so, a
\* tag at a merge is not moved, and package.json of a merge does not change.
LEMMA InLineStays ==
  ASSUME TypeOK, NEW m \in Merges, NEW v \in Versions, InLine(m, v),
         base' = base,
         \A u \in Versions : registry[u] # NoBuild => registry'[u] # NoBuild,
         \A u \in Versions : tags[u] # Nobody => tags'[u] = tags[u]
  PROVE  InLine(m, v)'
<1>1. \A n \in Merges : VersionOf(n)' = VersionOf(n)
  BY DEF VersionOf
<1>2. (v = VersionOf(m))'
  BY <1>1 DEF InLine
<1>3. ASSUME NEW n \in 1 .. m - 1
      PROVE  (VersionOf(n) = v - (m - n) /\ tags[VersionOf(n)] = n /\ registry[VersionOf(n)] # NoBuild)'
  <2>1. n \in Merges /\ n # Nobody
    BY MergesAssumption DEF Merges, Nobody
  <2>2. VersionOf(n) = v - (m - n) /\ tags[VersionOf(n)] = n /\ registry[VersionOf(n)] # NoBuild
    BY DEF InLine
  <2>3. VersionOf(n) \in Versions
    BY <2>1, VersionOfMerge
  <2>4. tags'[VersionOf(n)] = n /\ registry'[VersionOf(n)] # NoBuild
    BY <2>1, <2>2, <2>3
  <2> QED
    BY <1>1, <2>1, <2>2, <2>4
<1> QED
  BY <1>2, <1>3 DEF InLine

\* The invariant holds before anything is merged.
THEOREM InitInvariant == Init => IInv
<1> SUFFICES ASSUME Init PROVE IInv
  OBVIOUS
<1>0. Nobody \in 0 .. Foreign /\ Foreign \in 0 .. Foreign /\ Nobody \notin Merges /\ Foreign \notin Merges
  BY MergesAssumption DEF Nobody, Foreign, Merges
<1>1. TypeOK
  BY <1>0, MergesAssumption DEF Init, TypeOK, Labels
<1>2. JobsAreRight
  BY DEF Init, JobsAreRight, JobIsRight, Ordered, Checked, Packed, Published
<1>3. VersionsAgree
  BY <1>0 DEF Init, VersionsAgree
<1>4. OwnedInLine /\ LatestIsNewest
  BY DEF Init, OwnedInLine, LatestIsNewest
<1> QED
  BY <1>1, <1>2, <1>3, <1>4 DEF IInv

\* A step that leaves main, npm and origin alone disturbs nothing that is said of
\* the versions.
LEMMA VersionsUndisturbed ==
  ASSUME IInv, UNCHANGED <<base, npmVars, gitVars>>
  PROVE  VersionsAgree' /\ OwnedInLine' /\ LatestIsNewest'
<1>1. \A m \in Merges : VersionOf(m)' = VersionOf(m)
  BY DEF VersionOf
<1>2. VersionsAgree'
  BY <1>1 DEF IInv, VersionsAgree, npmVars, gitVars
<1>3. OwnedInLine'
  <2> SUFFICES ASSUME NEW v \in Versions, registry[v] # NoBuild
      PROVE  \E m \in Merges : InLine(m, v)' /\ tags[v] \in {Nobody, m}
    BY DEF OwnedInLine, npmVars, gitVars
  <2>1. PICK m \in Merges : InLine(m, v) /\ tags[v] \in {Nobody, m}
    BY DEF IInv, OwnedInLine
  <2>2. InLine(m, v)'
    BY <2>1, InLineStays DEF IInv, npmVars, gitVars
  <2> QED
    BY <2>1, <2>2
<1>4. LatestIsNewest'
  BY DEF IInv, LatestIsNewest, npmVars
<1> QED
  BY <1>2, <1>3, <1>4

\* A step of a job that leaves npm and origin alone only has to be right about
\* what the job has established.
LEMMA LocalStep ==
  ASSUME IInv, NEW j \in Jobs, NEW label \in Labels,
         Goto(j, label), UNCHANGED <<mainVars, npmVars, gitVars>>,
         build' \in [Jobs -> Builds \cup {NoBuild}], faults' \in 0 .. MaxFaults,
         \A i \in Jobs \ {j} : build'[i] = build[i],
         label \in Ordered /\ Commit(j) > 1 => tags[Version(j) - 1] = Commit(j) - 1,
         label \in Checked => tags[Version(j)] \in {Nobody, Commit(j)},
         label \in Packed => build'[j] \in Builds,
         label \in Published => Exact(j)'
  PROVE  IInv'
<1>1. TypeOK'
  BY DEF IInv, TypeOK, Goto, mainVars, npmVars, gitVars
<1>2. JobsAreRight'
  <2> SUFFICES ASSUME NEW i \in Jobs PROVE JobIsRight(i)'
    BY DEF JobsAreRight
  <2>0. Version(i)' = Version(i) /\ Commit(i)' = Commit(i)
    BY DEF Version, VersionOf, Commit, mainVars
  <2>1. CASE i = j
    <3>1. pc'[i] = label
      BY <2>1 DEF IInv, TypeOK, Goto
    <3> QED
      BY <2>0, <2>1, <3>1 DEF JobIsRight, gitVars
  <2>2. CASE i # j
    <3>1. pc'[i] = pc[i] /\ build'[i] = build[i]
      BY <2>2 DEF IInv, TypeOK, Goto
    <3> QED
      BY <2>0, <3>1 DEF IInv, JobsAreRight, JobIsRight, Exact, npmVars, gitVars
  <2> QED
    BY <2>1, <2>2
<1>3. VersionsAgree' /\ OwnedInLine' /\ LatestIsNewest'
  BY VersionsUndisturbed DEF mainVars
<1> QED
  BY <1>1, <1>2, <1>3 DEF IInv

\* npm publish: what is stored becomes the newest version, because every version
\* before it has been published and none after it.
LEMMA PublishStep == ASSUME IInv, NEW j \in Jobs, NpmPublish(j) PROVE IInv'
<1> DEFINE c == Commit(j)
<1> DEFINE v == Version(j)
<1>0. /\ c \in Merges /\ c \in Nat \ {0} /\ v \in Versions /\ v \in Nat \ {0} /\ v = VersionOf(c)
      /\ c > 1 => v - 1 \in Versions
  BY CommitOfJob, MergeIsCommit, VersionOfMerge DEF IInv, Version
<1>1. pc[j] \in Packed /\ pc[j] \in Checked /\ pc[j] \in Ordered
  BY DEF NpmPublish, Packed, Checked, Ordered
<1>2. tags[v] \in {Nobody, c} /\ (c > 1 => tags[v - 1] = c - 1) /\ build[j] \in Builds
  BY <1>1 DEF IInv, JobsAreRight, JobIsRight
<1>3. CASE UNCHANGED <<registry, latest>>
  <2>1. "reconciling" \in Labels /\ "reconciling" \notin Published
    BY DEF Labels, Published
  <2>2. faults' \in 0 .. MaxFaults
    BY MergesAssumption DEF NpmPublish, IInv, TypeOK
  <2> QED
    BY <1>2, <1>3, <2>1, <2>2, LocalStep DEF NpmPublish, npmVars, IInv, TypeOK
<1>4. CASE registry[v] = NoBuild /\ registry' = [registry EXCEPT ![v] = build[j]] /\ latest' = v
           /\ UNCHANGED faults
  <2>1. /\ UNCHANGED <<base, merged, build, visible, tags, releases, faults>>
        /\ pc' = [pc EXCEPT ![j] = "reconciling"]
    BY <1>4 DEF NpmPublish, Goto, mainVars, gitVars
  <2>2. \A u \in Versions : u # v => registry'[u] = registry[u]
    BY <1>4 DEF IInv, TypeOK
  <2>3. v \notin visible
    BY <1>0, <1>4 DEF IInv, VersionsAgree
  <2>4. TypeOK'
    BY <1>0, <1>2, <1>4, <2>1 DEF IInv, TypeOK, Labels
  <2>5. registry'[v] # NoBuild
    BY <1>0, <1>2, <1>4, BuildsAssumption DEF IInv, TypeOK
  <2>6. \A u \in Versions : registry[u] # NoBuild => registry'[u] # NoBuild
    BY <1>4, <2>2
  <2>7. \A m \in Merges : VersionOf(m)' = VersionOf(m)
    BY <2>1 DEF VersionOf
  <2>8. JobsAreRight'
    <3> SUFFICES ASSUME NEW i \in Jobs PROVE JobIsRight(i)'
      BY DEF JobsAreRight
    <3>0. Version(i)' = Version(i) /\ Commit(i)' = Commit(i) /\ Version(i) \in Versions
      BY <2>1, CommitOfJob, VersionOfMerge DEF Version, VersionOf, Commit, IInv
    <3>1. CASE i = j
      <4>1. pc'[i] = "reconciling"
        BY <2>1, <3>1 DEF IInv, TypeOK
      <4> QED
        BY <1>2, <2>1, <3>0, <3>1, <4>1 DEF JobIsRight, Published
    <3>2. CASE i # j
      <4>1. pc'[i] = pc[i]
        BY <2>1, <3>2 DEF IInv, TypeOK
      <4>2. pc[i] \in Published => Exact(i)'
        BY <2>1, <2>2, <2>3, <3>0 DEF IInv, JobsAreRight, JobIsRight, Exact
      <4> QED
        BY <2>1, <3>0, <4>1, <4>2 DEF IInv, JobsAreRight, JobIsRight
    <3> QED
      BY <3>1, <3>2
  <2>9. VersionsAgree'
    BY <2>1, <2>6, <2>7 DEF IInv, VersionsAgree
  <2>10. InLine(c, v)
    BY <1>1, OrderedInLine
  <2>11. OwnedInLine'
    <3> SUFFICES ASSUME NEW u \in Versions, registry'[u] # NoBuild
        PROVE  \E m \in Merges : InLine(m, u)' /\ tags[u] \in {Nobody, m}
      BY <2>1 DEF OwnedInLine
    <3>1. PICK m \in Merges : InLine(m, u) /\ tags[u] \in {Nobody, m}
      <4>1. CASE u = v
        BY <1>0, <1>2, <2>10, <4>1
      <4>2. CASE u # v
        BY <2>2, <4>2 DEF IInv, OwnedInLine
      <4> QED
        BY <4>1, <4>2
    <3>2. InLine(m, u)'
      BY <2>1, <2>6, <3>1, InLineStays DEF IInv
    <3> QED
      BY <3>1, <3>2
  <2>12. LatestIsNewest'
    <3> SUFFICES ASSUME NEW u \in Versions, registry'[u] # NoBuild, u # v PROVE u <= v
      BY <1>0, <1>4, <2>5 DEF LatestIsNewest
    <3>1. PICK m \in Merges : InLine(m, u)
      BY <2>2 DEF IInv, OwnedInLine
    <3>2. m \in Nat \ {0} /\ u \in Nat \ {0} /\ u = VersionOf(m)
      BY <3>1, MergeIsCommit, VersionsAreNumbers DEF InLine
    <3>3. CASE c < m
      <4>1. c \in 1 .. m - 1
        BY <1>0, <3>2, <3>3
      <4> QED
        BY <1>0, <1>4, <3>1, <4>1 DEF InLine
    <3>4. CASE m < c
      <4>1. m \in 1 .. c - 1
        BY <1>0, <3>2, <3>4
      <4>2. VersionOf(m) = v - (c - m)
        BY <2>10, <4>1 DEF InLine
      <4> QED
        BY <1>0, <3>2, <3>4, <4>2
    <3>5. CASE m = c
      BY <1>0, <3>2, <3>5
    <3> QED
      BY <1>0, <3>2, <3>3, <3>4, <3>5
  <2> QED
    BY <2>4, <2>8, <2>9, <2>11, <2>12 DEF IInv
<1> QED
  BY <1>3, <1>4 DEF NpmPublish

\* create-release: the tag and the release are at the commit of a version that
\* npm serves.
LEMMA ReleaseStep ==
  ASSUME IInv, NEW j \in Jobs, CreateRelease(j) \/ CreateReleaseUnanswered(j)
  PROVE  IInv'
<1> DEFINE c == Commit(j)
<1> DEFINE v == Version(j)
<1>0. /\ c \in Merges /\ c # Nobody /\ c # Foreign /\ c \in 0 .. Foreign
      /\ v \in Versions /\ v = VersionOf(c)
  BY CommitOfJob, MergeIsCommit, VersionOfMerge DEF IInv, Version
<1>1. pc[j] \in Published /\ pc[j] \in Checked /\ pc[j] \in Packed /\ pc[j] \in Ordered
  BY DEF CreateRelease, CreateReleaseUnanswered, Published, Packed, Checked, Ordered
<1>2. /\ tags[v] \in {Nobody, c} /\ v \in visible /\ build[j] \in Builds /\ Exact(j)
      /\ c > 1 => tags[v - 1] = c - 1
  BY <1>1 DEF IInv, JobsAreRight, JobIsRight, Exact
<1>3. /\ UNCHANGED <<base, merged, build, registry, visible, latest>>
      /\ faults' \in 0 .. MaxFaults
  BY MergesAssumption DEF CreateRelease, CreateReleaseUnanswered, mainVars, npmVars, IInv, TypeOK
<1>4. PICK label \in Labels :
        pc' = [pc EXCEPT ![j] = label] /\ (label \in Ordered => label = "done")
  BY DEF CreateRelease, CreateReleaseUnanswered, Goto, Labels, Ordered
<1>5. /\ tags' = [tags EXCEPT ![v] = c] \/ tags' = tags
      /\ releases' = [releases EXCEPT ![v] = c] \/ releases' = releases
      /\ tags'[v] = c /\ releases'[v] = c
  <2>1. CASE releases[v] = Nobody
    BY <1>0, <1>2, <2>1 DEF CreateRelease, CreateReleaseUnanswered, IInv, TypeOK
  <2>2. CASE releases[v] # Nobody
    <3>1. releases[v] = tags[v] /\ tags[v] = c
      BY <1>0, <1>2, <2>2, MergeIsCommit DEF IInv, VersionsAgree
    <3> QED
      BY <2>2, <3>1 DEF CreateRelease, CreateReleaseUnanswered, gitVars
  <2> QED
    BY <2>1, <2>2
<1>6. \A u \in Versions : u # v => tags'[u] = tags[u] /\ releases'[u] = releases[u]
  BY <1>5 DEF IInv, TypeOK
<1>7. \A u \in Versions : tags[u] # Nobody => tags'[u] = tags[u]
  BY <1>2, <1>5, <1>6
<1>8. \A m \in Merges : VersionOf(m)' = VersionOf(m)
  BY <1>3 DEF VersionOf
<1>9. TypeOK'
  BY <1>0, <1>3, <1>4, <1>5 DEF IInv, TypeOK
<1>10. JobsAreRight'
  <2> SUFFICES ASSUME NEW i \in Jobs PROVE JobIsRight(i)'
    BY DEF JobsAreRight
  <2>0. /\ Version(i)' = Version(i) /\ Commit(i)' = Commit(i) /\ Version(i) \in Versions
        /\ Commit(i) \in Nat \ {0} /\ Version(i) = VersionOf(Commit(i)) /\ Commit(i) \in Merges
        /\ Commit(i) > 1 => Version(i) - 1 \in Versions /\ Commit(i) - 1 # Nobody
    BY <1>3, CommitOfJob, MergeIsCommit, VersionOfMerge DEF Version, VersionOf, Commit, IInv, Nobody
  <2>1. Exact(i) => Exact(i)'
    BY <1>3, <2>0 DEF Exact
  <2>2. Commit(i) > 1 /\ tags[Version(i) - 1] = Commit(i) - 1 => tags'[Version(i) - 1] = Commit(i) - 1
    BY <1>7, <2>0
  <2>3. CASE i = j
    <3>1. pc'[i] = label
      BY <1>4, <2>3 DEF IInv, TypeOK
    <3> QED
      BY <1>2, <1>3, <1>5, <2>0, <2>1, <2>2, <2>3, <3>1 DEF JobIsRight
  <2>4. CASE i # j
    <3>1. pc'[i] = pc[i]
      BY <1>4, <2>4 DEF IInv, TypeOK
    <3>2. pc[i] \in Checked => tags'[Version(i)] \in {Nobody, Commit(i)}
      <4> SUFFICES ASSUME pc[i] \in Checked, Version(i) = v PROVE Commit(i) = c
        BY <1>5, <1>6, <2>0 DEF IInv, JobsAreRight, JobIsRight
      <4>1. InLine(Commit(i), v) /\ InLine(c, v)
        BY <1>1, OrderedInLine DEF Checked
      <4> QED
        BY <1>0, <2>0, <4>1, InLineUnique
    <3> QED
      BY <1>3, <2>0, <2>1, <2>2, <3>1, <3>2 DEF IInv, JobsAreRight, JobIsRight
  <2> QED
    BY <2>3, <2>4
<1>11. VersionsAgree'
  <2> SUFFICES ASSUME NEW u \in Versions
      PROVE  /\ u \in visible => registry[u] # NoBuild
             /\ tags'[u] \in Merges => VersionOf(tags'[u]) = u /\ u \in visible
             /\ releases'[u] # Nobody => releases'[u] \in Merges /\ tags'[u] = releases'[u]
    BY <1>3, <1>8 DEF VersionsAgree
  <2> QED
    BY <1>0, <1>2, <1>5, <1>6 DEF IInv, VersionsAgree
<1>12. OwnedInLine'
  <2> SUFFICES ASSUME NEW u \in Versions, registry[u] # NoBuild
      PROVE  \E m \in Merges : InLine(m, u)' /\ tags'[u] \in {Nobody, m}
    BY <1>3 DEF OwnedInLine
  <2>1. PICK m \in Merges : InLine(m, u) /\ tags[u] \in {Nobody, m}
    BY DEF IInv, OwnedInLine
  <2>2. InLine(m, u)'
    BY <1>3, <1>7, <2>1, InLineStays DEF IInv
  <2>3. u = v => m = c
    BY <1>0, <1>1, <2>1, OrderedInLine, InLineUnique
  <2> QED
    BY <1>5, <1>6, <2>1, <2>2, <2>3
<1>13. LatestIsNewest'
  BY <1>3 DEF IInv, LatestIsNewest
<1> QED
  BY <1>9, <1>10, <1>11, <1>12, <1>13 DEF IInv

\* The registry begins to serve what it has stored; main gets another merge.
LEMMA OutsideStep ==
  ASSUME IInv, Merge \/ \E v \in Versions : Expose(v)
  PROVE  IInv'
<1>1. CASE Merge
  <2>1. TypeOK'
    BY <1>1, MergesAssumption DEF IInv, TypeOK, Merge, npmVars, gitVars
  <2>2. JobsAreRight'
    BY <1>1 DEF IInv, JobsAreRight, JobIsRight, Exact, Version, VersionOf, Commit, Merge, npmVars, gitVars
  <2>3. VersionsAgree' /\ OwnedInLine' /\ LatestIsNewest'
    BY <1>1, VersionsUndisturbed DEF Merge
  <2> QED
    BY <2>1, <2>2, <2>3 DEF IInv
<1>2. ASSUME NEW v \in Versions, Expose(v) PROVE IInv'
  <2>1. TypeOK'
    BY <1>2 DEF IInv, TypeOK, Expose, mainVars, gitVars
  <2>2. JobsAreRight'
    BY <1>2 DEF IInv, JobsAreRight, JobIsRight, Exact, Version, VersionOf, Commit, Expose, mainVars, gitVars
  <2>3. VersionsAgree'
    BY <1>2 DEF IInv, VersionsAgree, VersionOf, Expose, mainVars, gitVars
  <2>4. OwnedInLine'
    <3> SUFFICES ASSUME NEW u \in Versions, registry[u] # NoBuild
        PROVE  \E m \in Merges : InLine(m, u)' /\ tags[u] \in {Nobody, m}
      BY <1>2 DEF OwnedInLine, Expose, gitVars
    <3>1. PICK m \in Merges : InLine(m, u) /\ tags[u] \in {Nobody, m}
      BY DEF IInv, OwnedInLine
    <3>2. InLine(m, u)'
      BY <1>2, <3>1, InLineStays DEF IInv, Expose, mainVars, gitVars
    <3> QED
      BY <3>1, <3>2
  <2>5. LatestIsNewest'
    BY <1>2 DEF IInv, LatestIsNewest, Expose
  <2> QED
    BY <2>1, <2>2, <2>3, <2>4, <2>5 DEF IInv
<1> QED
  BY <1>1, <1>2

\* A step of a job, one case per command.
LEMMA JobInvariant ==
  ASSUME IInv, NEW j \in Jobs, JobStep(j) \/ CreateReleaseUnanswered(j) \/ Fail(j)
  PROVE  IInv'
<1> USE DEF Ordered, Checked, Packed, Published, Labels
<1> DEFINE v == Version(j)
<1> DEFINE c == Commit(j)
<1>0. /\ c \in Nat \ {0}
      /\ pc[j] \in Labels
      /\ build \in [Jobs -> Builds \cup {NoBuild}] /\ faults \in 0 .. MaxFaults
      /\ pc[j] \in Ordered /\ c > 1 => tags[v - 1] = c - 1
      /\ pc[j] \in Checked => tags[v] \in {Nobody, c}
      /\ pc[j] \in Packed => build[j] \in Builds
  BY CommitOfJob, MergeIsCommit DEF IInv, TypeOK, JobsAreRight, JobIsRight
<1>1. CASE Prepare(j)
  BY <1>0, <1>1, LocalStep DEF Prepare
<1>2. CASE WaitForPredecessor(j)
  BY <1>0, <1>2, LocalStep DEF WaitForPredecessor
<1>3. CASE PredecessorMissing(j)
  BY <1>0, <1>3, LocalStep DEF PredecessorMissing
<1>4. CASE VerifyTag(j)
  BY <1>0, <1>4, LocalStep DEF VerifyTag
<1>5. CASE Pack(j)
  <2>1. build' \in [Jobs -> Builds \cup {NoBuild}] /\ build'[j] \in Builds
        /\ \A i \in Jobs \ {j} : build'[i] = build[i]
    BY <1>0, <1>5 DEF Pack
  <2> QED
    BY <1>0, <1>5, <2>1, LocalStep DEF Pack
<1>6. CASE Reconcile(j)
  <2>1. Exact(j) => (UNCHANGED <<base, build, npmVars>> => Exact(j)')
    BY DEF Exact, Version, VersionOf, Commit, npmVars
  <2> QED
    BY <1>0, <1>6, <2>1, LocalStep DEF Reconcile, mainVars
<1>7. CASE NpmPublish(j)
  BY <1>7, PublishStep
<1>8. CASE Confirm(j)
  <2>1. Exact(j) => (UNCHANGED <<base, build, npmVars>> => Exact(j)')
    BY DEF Exact, Version, VersionOf, Commit, npmVars
  <2> QED
    BY <1>0, <1>8, <2>1, LocalStep DEF Confirm, mainVars
<1>9. CASE NotExposed(j)
  BY <1>0, <1>9, LocalStep DEF NotExposed
<1>10. CASE CreateRelease(j) \/ CreateReleaseUnanswered(j)
  BY <1>10, ReleaseStep
<1>11. CASE Retry(j)
  <2>1. build' \in [Jobs -> Builds \cup {NoBuild}] /\ \A i \in Jobs \ {j} : build'[i] = build[i]
    BY <1>0, <1>11 DEF Retry
  <2> QED
    BY <1>0, <1>11, <2>1, LocalStep DEF Retry
<1>12. CASE Fail(j)
  <2>1. faults' \in 0 .. MaxFaults
    BY <1>0, <1>12, MergesAssumption DEF Fail
  <2> QED
    BY <1>0, <1>12, <2>1, LocalStep DEF Fail
<1> QED
  BY <1>1, <1>2, <1>3, <1>4, <1>5, <1>6, <1>7, <1>8, <1>9, <1>10, <1>11, <1>12 DEF JobStep

\* Every step preserves the invariant.
THEOREM StepInvariant == IInv /\ [Next]_vars => IInv'
<1> SUFFICES ASSUME IInv, [Next]_vars PROVE IInv'
  OBVIOUS
<1>1. CASE Merge \/ \E v \in Versions : Expose(v)
  BY <1>1, OutsideStep
<1>2. CASE \E j \in Jobs : JobStep(j) \/ CreateReleaseUnanswered(j) \/ Fail(j)
  BY <1>2, JobInvariant
<1>3. CASE UNCHANGED vars
  <2>1. TypeOK'
    BY <1>3 DEF IInv, TypeOK, vars, mainVars, npmVars, gitVars
  <2>2. JobsAreRight'
    BY <1>3
    DEF IInv, JobsAreRight, JobIsRight, Exact, Version, VersionOf, Commit, vars, mainVars, npmVars, gitVars
  <2>3. VersionsAgree' /\ OwnedInLine' /\ LatestIsNewest'
    BY <1>3, VersionsUndisturbed DEF vars, mainVars
  <2> QED
    BY <2>1, <2>2, <2>3 DEF IInv
<1> QED
  BY <1>1, <1>2, <1>3 DEF Next

\* The invariant holds in every reachable state.
THEOREM Invariant == Spec => []IInv
  BY InitInvariant, StepInvariant, PTL DEF Spec

\* The variables keep their types.
THEOREM TypeCorrect == Spec => []TypeOK
<1>1. IInv => TypeOK
  BY DEF IInv
<1> QED
  BY <1>1, Invariant, PTL

\* Versions go to npm in the order of the merges, each after the release of the
\* one before, however the jobs are scheduled and whatever package.json says.
THEOREM InOrder == Spec => []PublishedInOrder
<1>1. IInv => PublishedInOrder
  BY DEF IInv, OwnedInLine, PublishedInOrder
<1> QED
  BY <1>1, Invariant, PTL

\* A GitLab release is of a package that npm serves, and at its commit.
THEOREM ReleasesHavePackages == Spec => []ReleaseHasPackage
<1>1. IInv => ReleaseHasPackage
  BY DEF IInv, VersionsAgree, ReleaseHasPackage
<1> QED
  BY <1>1, Invariant, PTL

\* A job that succeeded has seen npm serve exactly what it packed.
THEOREM DoneJobsAreExact == Spec => []DoneIsExact
<1>1. IInv => DoneIsExact
  BY DEF IInv, JobsAreRight, JobIsRight, DoneIsExact, Published
<1> QED
  BY <1>1, Invariant, PTL

\* A tag at another commit keeps its version from being published.
THEOREM ForeignTagsBlock == Spec => []NoPackageForForeignTag
<1>1. IInv => NoPackageForForeignTag
  <2> SUFFICES ASSUME IInv, NEW v \in Versions, tags[v] = Foreign PROVE registry[v] = NoBuild
    BY DEF NoPackageForForeignTag
  <2>1. Foreign # Nobody /\ \A m \in Merges : m # Foreign
    BY MergeIsCommit, MergesAssumption DEF Foreign, Nobody
  <2> QED
    BY <2>1 DEF IInv, OwnedInLine
<1> QED
  BY <1>1, Invariant, PTL

\* The dist-tag "latest" moves forward only.
THEOREM LatestMovesForward == Spec => LatestNeverGoesBack
<1>1. IInv /\ IInv' /\ [Next]_vars => [latest' >= latest]_vars
  <2> SUFFICES ASSUME IInv, IInv', [Next]_vars PROVE latest' >= latest
    OBVIOUS
  <2>1. latest \in Nat /\ latest' \in Nat /\ (latest # 0 => latest \in Versions)
    BY VersionsAreNumbers DEF IInv, TypeOK
  <2>2. \A v \in Versions : registry[v] # NoBuild => registry'[v] # NoBuild
    BY CommitOfJob, VersionOfMerge, BuildsAssumption
    DEF Next, JobStep, Merge, Expose, Prepare, WaitForPredecessor, PredecessorMissing, VerifyTag,
        Pack, Reconcile, NpmPublish, Confirm, NotExposed, CreateRelease, CreateReleaseUnanswered,
        Fail, Retry, vars, npmVars, IInv, TypeOK
  <2>3. latest # 0 => latest <= latest'
    BY <2>1, <2>2 DEF IInv, LatestIsNewest
  <2> QED
    BY <2>1, <2>3
<1> QED
  BY <1>1, Invariant, PTL DEF Spec, LatestNeverGoesBack
=============================================================================
