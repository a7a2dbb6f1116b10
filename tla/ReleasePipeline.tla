--------------------------- MODULE ReleasePipeline ---------------------------
(***************************************************************************)
(* The release of the SDK: the auto_release job of .gitlab-ci.yml and the  *)
(* commands of scripts/release.mjs it runs.  Every merge into main has a   *)
(* pipeline of its own.  Its version is computed: the version that its     *)
(* package.json says, and its first-parent distance from the policy        *)
(* baseline added to it.  package.json is an ordinary file, which a merge  *)
(* may raise or lower.  A job can fail anywhere and be retried, and two    *)
(* instances of it can run at once when a runner is lost; the order of the *)
(* jobs is left open, as the script's own ordering check is meant to hold  *)
(* without the resource group.  The npm registry and GitLab are external.  *)
(***************************************************************************)
EXTENDS Naturals

CONSTANTS
  NumMerges,  \* bound: merges into main
  MaxBase,    \* bound: versions that package.json can say
  Instances,  \* instances of a merge's job
  Builds,     \* what packing the same commit can result in
  NoBuild,    \* no artifact
  MaxFaults   \* bound: failures from outside

ASSUME MergesAssumption == NumMerges \in Nat /\ MaxBase \in Nat /\ MaxFaults \in Nat
ASSUME BuildsAssumption == NoBuild \notin Builds

Merges == 1 .. NumMerges
Versions == 1 .. MaxBase + NumMerges - 1
Jobs == Merges \X Instances

Nobody == 0                \* no commit: the tag, or the release, does not exist
Foreign == NumMerges + 1   \* a commit that is none of the merges

VARIABLES
  base,       \* the version in each merge's package.json
  merged,     \* merges on main so far
  pc,         \* where each job is
  build,      \* the artifact each job has packed
  registry,   \* npm: the build stored for each version
  visible,    \* versions whose metadata the registry serves
  latest,     \* the version of npm's dist-tag "latest"
  tags,       \* the commit of each version's tag at origin
  releases,   \* the commit of each version's GitLab release
  faults      \* towards MaxFaults

npmVars == <<registry, visible, latest>>
gitVars == <<tags, releases>>
mainVars == <<base, merged>>
vars == <<mainVars, pc, build, npmVars, gitVars, faults>>

\* A tag may have been set by hand before.
Init ==
  /\ base \in [Merges -> 1 .. MaxBase] /\ merged = 0
  /\ pc = [j \in Jobs |-> "created"]
  /\ build = [j \in Jobs |-> NoBuild]
  /\ registry = [v \in Versions |-> NoBuild] /\ visible = {} /\ latest = 0
  /\ tags \in [Versions -> {Nobody, Foreign}]
  /\ releases = [v \in Versions |-> Nobody]
  /\ faults = 0

Merge ==
  /\ merged < NumMerges
  /\ merged' = merged + 1
  /\ UNCHANGED <<base, pc, build, npmVars, gitVars, faults>>

Commit(j) == j[1]

\* The first release has the version that package.json says.
VersionOf(m) == base[m] + m - 1
Version(j) == VersionOf(Commit(j))

Goto(j, label) == pc' = [pc EXCEPT ![j] = label]

(***************************************************************************)
(* The job                                                                 *)
(***************************************************************************)
\* prepare: the base tag must be the first merge's, if there is one.
Prepare(j) ==
  /\ pc[j] = "created" /\ Commit(j) <= merged
  /\ Goto(j, IF tags[base[Commit(j)]] \in {Nobody, 1} THEN "prepared" ELSE "failed")
  /\ UNCHANGED <<mainVars, build, npmVars, gitVars, faults>>

\* Mutant: when the predecessor does not appear, the job goes on.
DoNotWaitForPredecessor(j) ==
  /\ pc[j] = "prepared"
  /\ Goto(j, "ordered")
  /\ UNCHANGED <<mainVars, build, npmVars, gitVars, faults>>

\* wait-predecessor polls the tag of the version before.
WaitForPredecessor(j) ==
  /\ pc[j] = "prepared"
  /\ \/ Commit(j) = 1 /\ Goto(j, "ordered")
     \/ /\ Commit(j) > 1 /\ tags[Version(j) - 1] # Nobody
        /\ Goto(j, IF tags[Version(j) - 1] = Commit(j) - 1 THEN "ordered" ELSE "failed")
  /\ UNCHANGED <<mainVars, build, npmVars, gitVars, faults>>

\* The last attempt has not found it either.
PredecessorMissing(j) ==
  /\ pc[j] = "prepared"
  /\ Commit(j) > 1 /\ tags[Version(j) - 1] = Nobody
  /\ Goto(j, "failed")
  /\ UNCHANGED <<mainVars, build, npmVars, gitVars, faults>>

\* Mutant: the tag is not looked at.
TrustTag(j) ==
  /\ pc[j] = "ordered"
  /\ Goto(j, "checked")
  /\ UNCHANGED <<mainVars, build, npmVars, gitVars, faults>>

\* verify-tag: no other commit may hold the tag.
VerifyTag(j) ==
  /\ pc[j] = "ordered"
  /\ Goto(j, IF tags[Version(j)] \in {Nobody, Commit(j)} THEN "checked" ELSE "failed")
  /\ UNCHANGED <<mainVars, build, npmVars, gitVars, faults>>

\* stage-version, npm run build, npm pack, verify-release, the smoke test.
Pack(j) ==
  /\ pc[j] = "checked"
  /\ \E b \in Builds : build' = [build EXCEPT ![j] = b]
  /\ Goto(j, "packed")
  /\ UNCHANGED <<mainVars, npmVars, gitVars, faults>>

\* reconcile of publish-npm: the registry has exactly these bytes.
Exact(j) == Version(j) \in visible /\ registry[Version(j)] = build[j]

\* publish-npm begins by asking the registry.
Reconcile(j) ==
  /\ pc[j] = "packed"
  /\ \/ Exact(j) /\ Goto(j, "published")
     \/ Version(j) \in visible /\ ~Exact(j) /\ Goto(j, "failed")
     \/ Version(j) \notin visible /\ Goto(j, "publishing")
  /\ UNCHANGED <<mainVars, build, npmVars, gitVars, faults>>

\* npm publish.  The registry accepts a version once; the job does not depend on
\* the answer, which may get lost, as may the request.
NpmPublish(j) ==
  /\ pc[j] = "publishing"
  /\ Goto(j, "reconciling")
  /\ \/ /\ registry[Version(j)] = NoBuild
        /\ registry' = [registry EXCEPT ![Version(j)] = build[j]]
        /\ latest' = Version(j)
        /\ UNCHANGED faults
     \/ /\ registry[Version(j)] # NoBuild
        /\ UNCHANGED <<registry, latest, faults>>
     \/ /\ faults < MaxFaults /\ faults' = faults + 1
        /\ UNCHANGED <<registry, latest>>
  /\ UNCHANGED <<mainVars, build, visible, gitVars>>

\* The registry serves what it stored after a while.
Expose(v) ==
  /\ registry[v] # NoBuild /\ v \notin visible
  /\ visible' = visible \cup {v}
  /\ UNCHANGED <<mainVars, pc, build, registry, latest, gitVars, faults>>

\* Mutant: any bytes of the version will do.
ConfirmAny(j) ==
  /\ pc[j] = "reconciling" /\ Version(j) \in visible
  /\ Goto(j, "published")
  /\ UNCHANGED <<mainVars, build, npmVars, gitVars, faults>>

\* Mutant: the answer of npm publish is taken for the fact.
ConfirmUnseen(j) ==
  /\ pc[j] = "reconciling"
  /\ Goto(j, "published")
  /\ UNCHANGED <<mainVars, build, npmVars, gitVars, faults>>

\* After npm publish, publish-npm waits for the registry to serve the version.
Confirm(j) ==
  /\ pc[j] = "reconciling" /\ Version(j) \in visible
  /\ Goto(j, IF Exact(j) THEN "published" ELSE "failed")
  /\ UNCHANGED <<mainVars, build, npmVars, gitVars, faults>>

\* The last attempt has not found it either.
NotExposed(j) ==
  /\ pc[j] = "reconciling" /\ Version(j) \notin visible
  /\ Goto(j, "failed")
  /\ UNCHANGED <<mainVars, build, npmVars, gitVars, faults>>

\* Mutant: a release that exists already is an error.
CreateOnce(j) ==
  /\ pc[j] = "published"
  /\ \/ /\ releases[Version(j)] = Nobody
        /\ releases' = [releases EXCEPT ![Version(j)] = Commit(j)]
        /\ tags' = [tags EXCEPT ![Version(j)] = Commit(j)]
        /\ Goto(j, "done")
     \/ /\ releases[Version(j)] # Nobody
        /\ Goto(j, "failed")
        /\ UNCHANGED gitVars
  /\ UNCHANGED <<mainVars, build, npmVars, faults>>

\* create-release: POST makes the tag, if there is none, and the release; when
\* the release is there already, GET fetches it.  Its commit has to be the job's.
CreateRelease(j) ==
  LET v == Version(j)
      tagged == IF tags[v] = Nobody THEN Commit(j) ELSE tags[v]
  IN
  /\ pc[j] = "published"
  /\ IF releases[v] = Nobody
     THEN tags' = [tags EXCEPT ![v] = tagged] /\ releases' = [releases EXCEPT ![v] = tagged]
     ELSE UNCHANGED gitVars
  /\ Goto(j, IF releases'[v] = Commit(j) THEN "done" ELSE "failed")
  /\ UNCHANGED <<mainVars, build, npmVars, faults>>

\* GitLab has done it, but the answer is lost.
CreateReleaseUnanswered(j) ==
  /\ pc[j] = "published" /\ releases[Version(j)] = Nobody
  /\ faults < MaxFaults /\ faults' = faults + 1
  /\ LET v == Version(j)
         tagged == IF tags[v] = Nobody THEN Commit(j) ELSE tags[v]
     IN /\ tags' = [tags EXCEPT ![v] = tagged]
        /\ releases' = [releases EXCEPT ![v] = tagged]
  /\ Goto(j, "failed")
  /\ UNCHANGED <<mainVars, build, npmVars>>

\* The job fails anywhere else: a command, the network, the runner.
Fail(j) ==
  /\ pc[j] \notin {"created", "failed", "done"}
  /\ faults < MaxFaults /\ faults' = faults + 1
  /\ Goto(j, "failed")
  /\ UNCHANGED <<mainVars, build, npmVars, gitVars>>

\* Retried by GitLab or by hand, from the beginning.
Retry(j) ==
  /\ pc[j] = "failed"
  /\ Goto(j, "created")
  /\ build' = [build EXCEPT ![j] = NoBuild]
  /\ UNCHANGED <<mainVars, npmVars, gitVars, faults>>

JobStep(j) ==
  \/ Prepare(j) \/ WaitForPredecessor(j) \/ PredecessorMissing(j) \/ VerifyTag(j)
  \/ Pack(j) \/ Reconcile(j) \/ NpmPublish(j) \/ Confirm(j) \/ NotExposed(j)
  \/ CreateRelease(j) \/ Retry(j)

Next ==
  \/ Merge
  \/ \E j \in Jobs : JobStep(j) \/ CreateReleaseUnanswered(j) \/ Fail(j)
  \/ \E v \in Versions : Expose(v)

Spec == Init /\ [][Next]_vars

\* main goes on, polling ends after its attempts, jobs that failed are retried,
\* the registry serves what it has.
Fairness ==
  /\ WF_vars(Merge)
  /\ \A j \in Jobs : WF_vars(JobStep(j))
  /\ \A v \in Versions : WF_vars(Expose(v))

FairSpec == Spec /\ Fairness

(***************************************************************************)
(* Properties                                                              *)
(***************************************************************************)
Labels ==
  {"created", "prepared", "ordered", "checked", "packed", "publishing", "reconciling",
   "published", "done", "failed"}

TypeOK ==
  /\ base \in [Merges -> 1 .. MaxBase] /\ merged \in 0 .. NumMerges
  /\ pc \in [Jobs -> Labels]
  /\ build \in [Jobs -> Builds \cup {NoBuild}]
  /\ registry \in [Versions -> Builds \cup {NoBuild}]
  /\ visible \in SUBSET Versions /\ latest \in Versions \cup {0}
  /\ tags \in [Versions -> 0 .. Foreign] /\ releases \in [Versions -> 0 .. Foreign]
  /\ faults \in 0 .. MaxFaults

\* The merges before m have the versions before v, without a gap, and all of them
\* are published and tagged at their own merge.
InLine(m, v) ==
  /\ v = VersionOf(m)
  /\ \A n \in 1 .. m - 1 :
       /\ VersionOf(n) = v - (m - n)
       /\ tags[VersionOf(n)] = n /\ registry[VersionOf(n)] # NoBuild

\* A version goes to npm only after the merge before it was published and tagged
\* as the version before it, whatever the order in which the jobs get to run
\* (.gitlab-ci.yml: "The predecessor check below remains a fail-closed second
\* ordering layer"), and though package.json changes on the way: no version is
\* left out, and none is published for two merges.
PublishedInOrder ==
  \A v \in Versions : registry[v] # NoBuild => \E m \in Merges : InLine(m, v)

\* npm's "latest" never goes back to an older version.
LatestNeverGoesBack == [][latest' >= latest]_vars

\* There is a GitLab release only for a package npm serves, at the commit the
\* package was made from.
ReleaseHasPackage ==
  \A v \in Versions : releases[v] # Nobody =>
    releases[v] \in Merges /\ VersionOf(releases[v]) = v /\ v \in visible

\* A job succeeds only when what it built and tested is what npm serves, also
\* when another instance of the job was first.
DoneIsExact == \A j \in Jobs : pc[j] = "done" => Exact(j)

\* No package is published under a tag that is held by another commit.
NoPackageForForeignTag == \A v \in Versions : tags[v] = Foreign => registry[v] = NoBuild

\* Packing a commit once more has given the bytes that npm has of it.
Reproducible ==
  \A j \in Jobs :
    build[j] # NoBuild /\ registry[Version(j)] # NoBuild => build[j] = registry[Version(j)]

\* Every merge is released in the end, and a job of it succeeds, though jobs fail
\* between any two steps and answers get lost, provided that the build is
\* reproducible, no tag was set by hand and package.json stays as it is (a merge
\* that changes its version waits for a predecessor that never comes).
EveryMergeIsReleased ==
  /\ \A v \in Versions : tags[v] = Nobody
  /\ \A m \in Merges : base[m] = base[1]
  /\ []Reproducible
  => <>(\A m \in Merges :
          releases[VersionOf(m)] = m /\ \E i \in Instances : pc[<<m, i>>] = "done")
=============================================================================
