--------------------------- MODULE ManagedInstall ---------------------------
(***************************************************************************)
(* The managed CLI updater, installManagedCLI of scripts/install-cli.mjs:  *)
(* any number of Node.js processes of one user run it against the same     *)
(* installation directory.  They share five files:                         *)
(*                                                                         *)
(*   .locker-cli-update.lock   lock      (exclusive create, 15 min expiry)  *)
(*   locker.accepted.json      accepted  (the highest release ever trusted) *)
(*   locker.current.json       current   (the pointer to the active one)    *)
(*   locker.check.json         check     (when the channel was asked last)  *)
(*   releases/<version>/       releases  (immutable, renamed into place)    *)
(*                                                                         *)
(* A release is a version and a generation: the generation stands for the  *)
(* manifest digest, its size and the source commit, which the code always  *)
(* compares together.  Every file is replaced by an atomic rename, so a    *)
(* file is a value and a write is one step; temporary and staging names    *)
(* are unique to their writer and read by nobody.                          *)
(*                                                                         *)
(* The release channel is outside src/: it serves any release its key ever *)
(* signed (a CDN may replay an old one); a download ends with it, with a   *)
(* transient network error, or with an error of any other kind.            *)
(***************************************************************************)
EXTENDS Naturals

CONSTANTS
  Proc,            \* the processes that may call the updater
  Releases,        \* what the channel key has signed: [v: version, g: generation]
  NoRelease,       \* "the file is absent"
  NoProc,          \* owner of the lock file that is absent
  Never,           \* a checked_at_unix of null
  CheckInterval,   \* CHECK_INTERVAL_SECONDS, in clock units
  RetryInterval,   \* UPDATE_RETRY_SECONDS, in clock units
  LiveExpiry,      \* TRUE: a holder may be suspended for more than 15 minutes
  MaxTime,         \* bound: the clock stops here
  MaxPolls,        \* bound: 50 ms sleeps before the lock deadline (30 s)
  MaxFaults        \* bound: kills, network errors and failed steps in a run

ASSUME ReleasesAssumption ==
  /\ \A r \in Releases : r = [v |-> r.v, g |-> r.g] /\ r.v \in Nat
  /\ NoRelease \notin Releases
ASSUME BoundsAssumption ==
  /\ RetryInterval \in Nat \ {0} /\ CheckInterval \in Nat /\ RetryInterval <= CheckInterval
  /\ MaxTime \in Nat /\ MaxPolls \in Nat /\ MaxFaults \in Nat
  /\ LiveExpiry \in BOOLEAN
ASSUME SentinelAssumption == NoProc \notin Proc /\ Never \notin Nat

VARIABLES
  lock,        \* the lock file: [owner, token, stale], that is who created it,
               \* whether its token is written, whether it is past LOCK_STALE_MS
  accepted,    \* locker.accepted.json
  current,     \* locker.current.json
  check,       \* locker.check.json
  releases,    \* releases/<version>/ : version -> the release stored there
  clock,       \* Date.now(), in units
  pc,          \* where each process is
  args,        \* nowSeconds, read before the lock is asked for, and forceCheck
  polls,       \* sleeps made while waiting for the lock
  cachedBy,    \* the process's `cached`
  acceptedBy,  \* the process's `accepted`
  priorBy,     \* checkedAtUnix of the check state the process parsed
  latest,      \* the process's parsed latest.json
  result,      \* how the call ends, and nextCheckAtUnix
  faults,      \* counts towards MaxFaults
  stolen       \* history: a live holder's lock file was unlinked by another

fileVars == <<accepted, current, check, releases>>
callVars == <<args, polls, cachedBy, acceptedBy, priorBy, latest, result>>
vars == <<lock, fileVars, clock, pc, callVars, faults, stolen>>

(***************************************************************************)
(* Program locations and local state                                       *)
(***************************************************************************)
Waiting  == {"open", "inspect", "unlinkStale"}
Working  == {"loadCached", "loadAccepted", "latest", "accept", "manifest",
             "artifact", "publish", "activate", "checked", "fallback"}
Critical == {"token"} \cup Working \cup {"release", "unlock"}

Outcomes  == {"none", "fresh", "fallback", "checked", "installed", "failed"}
Succeeded == {"fresh", "fallback", "checked", "installed"}

NoArgs == [now |-> 0, force |-> FALSE]
Result(how, until) == [how |-> how, until |-> until]
NoResult == Result("none", Never)
NoLock == [owner |-> NoProc, token |-> FALSE, stale |-> FALSE]
NoCheck == [rel |-> NoRelease, checkedAt |-> Never, retryAfter |-> 0]

Goto(p, l) == pc' = [pc EXCEPT ![p] = l]
Finish(p, how, until) ==
  result' = [result EXCEPT ![p] = Result(how, until)] /\ Goto(p, "release")
Fail(p) == Finish(p, "failed", Never)

\* The call is over, its local variables are gone.
Leave(p) ==
  /\ args' = [args EXCEPT ![p] = NoArgs]
  /\ polls' = [polls EXCEPT ![p] = 0]
  /\ cachedBy' = [cachedBy EXCEPT ![p] = NoRelease]
  /\ acceptedBy' = [acceptedBy EXCEPT ![p] = NoRelease]
  /\ priorBy' = [priorBy EXCEPT ![p] = Never]
  /\ latest' = [latest EXCEPT ![p] = NoRelease]
  /\ result' = [result EXCEPT ![p] = NoResult]
  /\ Goto(p, "idle")

Fault == faults < MaxFaults /\ faults' = faults + 1

HolderIsLive == lock.owner # NoProc /\ pc[lock.owner] \in Critical
Versions == {r.v : r \in Releases}

(***************************************************************************)
(* Decisions                                                               *)
(***************************************************************************)
\* verifyCachedRelease: the directory of r's version holds exactly r.
Verified(r) == releases[r.v] = r

\* loadAccepted without the file: the current release stands for it.
AcceptedOrCached(acc, cached) == IF acc = NoRelease THEN cached ELSE acc

\* loadAccepted: the accepted state contradicts the current release.
Contradicts(acc, cached) ==
  /\ acc # NoRelease
  /\ cached # NoRelease
  /\ \/ acc.v < cached.v
     \/ acc.v = cached.v /\ acc # cached

\* Mutant: only an older version is refused.
AcceptableAnyGeneration(cand, acc) == acc # NoRelease => cand.v >= acc.v

\* acceptLatest: the candidate may neither be older than the accepted
\* release nor be another generation of the same version.
Acceptable(cand, acc) ==
  acc # NoRelease => cand.v > acc.v \/ cand = acc

\* pendingAcceptedRelease: a newer release was accepted but never activated.
Pending(acc, cached) ==
  acc # NoRelease /\ cached # NoRelease /\ acc.v > cached.v

\* Mutant: a pending release does not shorten the interval.
DeadlineIgnoringPending(c, cached, t, pending) ==
  IF c.rel # cached THEN Never
  ELSE IF c.retryAfter > 0
       THEN IF c.retryAfter > t /\ c.retryAfter - t <= RetryInterval
            THEN c.retryAfter ELSE Never
       ELSE IF c.checkedAt # Never /\ c.checkedAt <= t /\ t - c.checkedAt < CheckInterval
            THEN c.checkedAt + CheckInterval ELSE Never

\* Mutant: a check made in this very second does not count.
DeadlineStrictlyAfterCheck(c, cached, t, pending) ==
  CASE c.rel # cached -> Never
    [] c.rel = cached /\ c.retryAfter > 0 ->
         IF c.retryAfter > t /\ c.retryAfter - t <= RetryInterval
         THEN c.retryAfter ELSE Never
    [] OTHER ->
         IF /\ ~pending
            /\ c.checkedAt # Never
            /\ c.checkedAt < t
            /\ t - c.checkedAt < CheckInterval
         THEN c.checkedAt + CheckInterval ELSE Never

\* nextCheckDeadline: until when the cached release may be used unasked.
NextCheckDeadline(c, cached, t, pending) ==
  CASE c.rel # cached -> Never
    [] c.rel = cached /\ c.retryAfter > 0 ->
         IF c.retryAfter > t /\ c.retryAfter - t <= RetryInterval
         THEN c.retryAfter ELSE Never
    [] OTHER ->
         IF /\ ~pending
            /\ c.checkedAt # Never
            /\ c.checkedAt <= t
            /\ t - c.checkedAt < CheckInterval
         THEN c.checkedAt + CheckInterval ELSE Never

\* releaseLock: the lock file holds the token of p's call.
OwnToken(p) == lock.owner = p /\ lock.token

(***************************************************************************)
(* Initial state: nothing installed, no process running.                   *)
(***************************************************************************)
Init ==
  /\ lock = NoLock
  /\ accepted = NoRelease
  /\ current = NoRelease
  /\ check = NoCheck
  /\ releases = [v \in Versions |-> NoRelease]
  /\ clock = 0
  /\ pc = [p \in Proc |-> "idle"]
  /\ args = [p \in Proc |-> NoArgs]
  /\ polls = [p \in Proc |-> 0]
  /\ cachedBy = [p \in Proc |-> NoRelease]
  /\ acceptedBy = [p \in Proc |-> NoRelease]
  /\ priorBy = [p \in Proc |-> Never]
  /\ latest = [p \in Proc |-> NoRelease]
  /\ result = [p \in Proc |-> NoResult]
  /\ faults = 0
  /\ stolen = FALSE

\* The call begins; nowSeconds is read before the lock is waited for.
Begin(p) ==
  /\ pc[p] = "idle"
  /\ \E forced \in BOOLEAN : args' = [args EXCEPT ![p] = [now |-> clock, force |-> forced]]
  /\ Goto(p, "open")
  /\ UNCHANGED <<lock, fileVars, clock, polls, cachedBy, acceptedBy, priorBy, latest,
                 result, faults, stolen>>

(***************************************************************************)
(* acquireLock                                                             *)
(***************************************************************************)
\* Mutant: open(lockPath, 'w').
CreateLockAnyway(p) ==
  /\ pc[p] = "open"
  /\ lock' = [owner |-> p, token |-> FALSE, stale |-> FALSE]
  /\ Goto(p, "token")
  /\ UNCHANGED <<fileVars, callVars, clock, faults, stolen>>

\* open(lockPath, 'wx') creates the file, still without its token ...
CreateLock(p) ==
  /\ pc[p] = "open"
  /\ lock = NoLock
  /\ lock' = [owner |-> p, token |-> FALSE, stale |-> FALSE]
  /\ Goto(p, "token")
  /\ UNCHANGED <<fileVars, callVars, clock, faults, stolen>>

\* ... or fails with EEXIST.
LockExists(p) ==
  /\ pc[p] = "open"
  /\ lock # NoLock
  /\ Goto(p, "inspect")
  /\ UNCHANGED <<lock, fileVars, callVars, clock, faults, stolen>>

\* The token goes to the file this process created, which may have been
\* unlinked and replaced meanwhile.
WriteToken(p) ==
  /\ pc[p] = "token"
  /\ lock' = IF lock.owner = p THEN [lock EXCEPT !.token = TRUE] ELSE lock
  /\ Goto(p, "loadCached")
  /\ UNCHANGED <<fileVars, callVars, clock, faults, stolen>>

\* Writing the token fails (a full disk): the call throws outside the try
\* block of its caller, and leaves the lock file behind.
TokenWriteFails(p) ==
  /\ pc[p] = "token"
  /\ Fault
  /\ Leave(p)
  /\ UNCHANGED <<lock, fileVars, clock, stolen>>

\* Mutant: a stale lock file is waited for like a fresh one.
InspectLockIgnoringAge(p) ==
  /\ pc[p] = "inspect"
  /\ \/ lock = NoLock /\ Goto(p, "open") /\ UNCHANGED callVars
     \/ /\ lock # NoLock /\ polls[p] < MaxPolls
        /\ polls' = [polls EXCEPT ![p] = @ + 1]
        /\ Goto(p, "open")
        /\ UNCHANGED <<args, cachedBy, acceptedBy, priorBy, latest, result>>
     \/ lock # NoLock /\ polls[p] = MaxPolls /\ Leave(p)
  /\ UNCHANGED <<lock, fileVars, clock, faults, stolen>>

\* lstat: the file vanished (try again), is too old (unlink it), is fresh
\* (sleep and try again) or the deadline has passed (give up).
InspectLock(p) ==
  /\ pc[p] = "inspect"
  /\ \/ lock = NoLock /\ Goto(p, "open") /\ UNCHANGED callVars
     \/ lock.stale /\ Goto(p, "unlinkStale") /\ UNCHANGED callVars
     \/ /\ lock # NoLock /\ ~lock.stale
        /\ polls[p] < MaxPolls
        /\ polls' = [polls EXCEPT ![p] = @ + 1]
        /\ Goto(p, "open")
        /\ UNCHANGED <<args, cachedBy, acceptedBy, priorBy, latest, result>>
     \/ /\ lock # NoLock /\ ~lock.stale
        /\ polls[p] = MaxPolls
        /\ Leave(p)
  /\ UNCHANGED <<lock, fileVars, clock, faults, stolen>>

\* unlink removes whatever file has the name now, not the one inspected.
UnlinkStale(p) ==
  /\ pc[p] = "unlinkStale"
  /\ lock' = NoLock
  /\ stolen' = (stolen \/ HolderIsLive)
  /\ Goto(p, "open")
  /\ UNCHANGED <<fileVars, callVars, clock, faults>>

(***************************************************************************)
(* The try block of installManagedCLI                                      *)
(***************************************************************************)
LoadCached(p) ==
  /\ pc[p] = "loadCached"
  /\ \/ /\ current # NoRelease => Verified(current)
        /\ cachedBy' = [cachedBy EXCEPT ![p] = current]
        /\ Goto(p, "loadAccepted")
        /\ UNCHANGED result
     \/ /\ current # NoRelease /\ ~Verified(current)
        /\ Fail(p)
        /\ UNCHANGED cachedBy
  /\ UNCHANGED <<lock, fileVars, clock, args, polls, acceptedBy, priorBy, latest,
                 faults, stolen>>

\* loadAccepted, the check state and the decision whether to ask the channel.
LoadAccepted(p) ==
  LET cached == cachedBy[p]
      acc == AcceptedOrCached(accepted, cached)
      until == IF cached = NoRelease \/ args[p].force THEN Never
               ELSE NextCheckDeadline(check, cached, args[p].now, Pending(acc, cached))
  IN
  /\ pc[p] = "loadAccepted"
  /\ acceptedBy' = [acceptedBy EXCEPT ![p] = acc]
  /\ priorBy' = [priorBy EXCEPT ![p] = IF check.rel = cached THEN check.checkedAt ELSE Never]
  /\ \/ Contradicts(accepted, cached) /\ Fail(p)
     \/ ~Contradicts(accepted, cached) /\ until # Never /\ Finish(p, "fresh", until)
     \/ /\ ~Contradicts(accepted, cached)
        /\ until = Never
        /\ Goto(p, "latest")
        /\ UNCHANGED result
  /\ UNCHANGED <<lock, fileVars, clock, args, polls, cachedBy, latest, faults, stolen>>

\* latest.json arrives, signed: acceptLatest compares it with the accepted
\* release.
DownloadLatest(p) ==
  /\ pc[p] = "latest"
  /\ \E r \in Releases :
       \/ ~Acceptable(r, acceptedBy[p]) /\ Fail(p) /\ UNCHANGED latest
       \/ /\ Acceptable(r, acceptedBy[p])
          /\ latest' = [latest EXCEPT ![p] = r]
          /\ Goto(p, IF r = acceptedBy[p] THEN "manifest" ELSE "accept")
          /\ UNCHANGED result
  /\ UNCHANGED <<lock, fileVars, clock, args, polls, cachedBy, acceptedBy, priorBy,
                 faults, stolen>>

\* acceptLatest writes the accepted state.
WriteAccepted(p) ==
  /\ pc[p] = "accept"
  /\ accepted' = latest[p]
  /\ Goto(p, "manifest")
  /\ UNCHANGED <<lock, current, check, releases, callVars, clock, faults, stolen>>

\* The manifest arrives, bound by the digest in latest.json.  The test for a
\* rollback of the cached release precedes the download, the test for a
\* mutation follows it.
DownloadManifest(p) ==
  LET cached == cachedBy[p] IN
  /\ pc[p] = "manifest"
  /\ \/ cached # NoRelease /\ ~Acceptable(latest[p], cached) /\ Fail(p)
     \/ latest[p] = cached /\ Goto(p, "checked") /\ UNCHANGED result
     \/ /\ cached # NoRelease => latest[p].v > cached.v
        /\ Goto(p, "artifact")
        /\ UNCHANGED result
  /\ UNCHANGED <<lock, fileVars, clock, args, polls, cachedBy, acceptedBy, priorBy,
                 latest, faults, stolen>>

\* The artifact and its signature arrive.
DownloadArtifact(p) ==
  /\ pc[p] = "artifact"
  /\ Goto(p, "publish")
  /\ UNCHANGED <<lock, fileVars, callVars, clock, faults, stolen>>

\* Mutant: an existing directory is an error.
PublishOnlyOnce(p) ==
  LET r == latest[p] IN
  /\ pc[p] = "publish"
  /\ \/ /\ releases[r.v] = NoRelease
        /\ releases' = [releases EXCEPT ![r.v] = r]
        /\ Goto(p, "activate")
        /\ UNCHANGED result
     \/ releases[r.v] # NoRelease /\ Fail(p) /\ UNCHANGED releases
  /\ UNCHANGED <<lock, accepted, current, check, clock, args, polls, cachedBy,
                 acceptedBy, priorBy, latest, faults, stolen>>

\* publishRelease renames the staging directory; an existing directory of
\* the version (EEXIST, ENOTEMPTY) stays as it is.
PublishDirectory(p) ==
  LET r == latest[p] IN
  /\ pc[p] = "publish"
  /\ releases' = [releases EXCEPT ![r.v] = IF @ = NoRelease THEN r ELSE @]
  /\ Goto(p, "activate")
  /\ UNCHANGED <<lock, accepted, current, check, callVars, clock, faults, stolen>>

\* Mutant: the directory is not verified again.
ActivateUnverified(p) ==
  /\ pc[p] = "activate"
  /\ current' = latest[p]
  /\ Goto(p, "checked")
  /\ UNCHANGED <<lock, accepted, check, releases, clock, callVars, faults, stolen>>

\* publishRelease verifies what the directory holds, then moves the pointer.
WriteCurrent(p) ==
  LET r == latest[p] IN
  /\ pc[p] = "activate"
  /\ \/ /\ Verified(r)
        /\ current' = r
        /\ Goto(p, "checked")
        /\ UNCHANGED result
     \/ ~Verified(r) /\ Fail(p) /\ UNCHANGED current
  /\ UNCHANGED <<lock, accepted, check, releases, clock, args, polls, cachedBy,
                 acceptedBy, priorBy, latest, faults, stolen>>

\* The check state after a completed check, dated with nowSeconds.
WriteCheck(p) ==
  /\ pc[p] = "checked"
  /\ check' = [rel |-> latest[p], checkedAt |-> args[p].now, retryAfter |-> 0]
  /\ Finish(p, IF latest[p] = cachedBy[p] THEN "checked" ELSE "installed",
            args[p].now + CheckInterval)
  /\ UNCHANGED <<lock, accepted, current, releases, clock, args, polls, cachedBy,
                 acceptedBy, priorBy, latest, faults, stolen>>

\* A download fails with UpdateNetworkError; cachedNetworkFallback throws it
\* when there is nothing to fall back to.  The bound on the clock leaves room
\* for the retry interval to pass.
NetworkError(p) ==
  /\ pc[p] \in {"latest", "manifest", "artifact"}
  /\ clock + RetryInterval <= MaxTime
  /\ Fault
  /\ \/ cachedBy[p] # NoRelease /\ Goto(p, "fallback") /\ UNCHANGED result
     \/ cachedBy[p] = NoRelease /\ Fail(p)
  /\ UNCHANGED <<lock, fileVars, clock, args, polls, cachedBy, acceptedBy, priorBy,
                 latest, stolen>>

\* Mutant: the fallback serves the accepted release, active or not.
FallbackToAccepted(p) ==
  LET retry == args[p].now + RetryInterval IN
  /\ pc[p] = "fallback"
  /\ check' = [rel |-> acceptedBy[p], checkedAt |-> priorBy[p], retryAfter |-> retry]
  /\ cachedBy' = [cachedBy EXCEPT ![p] = acceptedBy[p]]
  /\ Finish(p, "fallback", retry)
  /\ UNCHANGED <<lock, accepted, current, releases, clock, args, polls, acceptedBy,
                 priorBy, latest, faults, stolen>>

\* cachedNetworkFallback: the cached release serves for the retry interval.
NetworkFallback(p) ==
  LET retry == args[p].now + RetryInterval IN
  /\ pc[p] = "fallback"
  /\ check' = [rel |-> cachedBy[p], checkedAt |-> priorBy[p], retryAfter |-> retry]
  /\ Finish(p, "fallback", retry)
  /\ UNCHANGED <<lock, accepted, current, releases, clock, args, polls, cachedBy,
                 acceptedBy, priorBy, latest, faults, stolen>>

\* Any other error of a step of the try block: a rejected certificate or
\* signature, an HTTP 404, a failed write.  The file keeps its old content.
StepFails(p) ==
  /\ pc[p] \in Working
  /\ Fault
  /\ Fail(p)
  /\ UNCHANGED <<lock, fileVars, clock, args, polls, cachedBy, acceptedBy, priorBy,
                 latest, stolen>>

(***************************************************************************)
(* releaseLock, in the finally block                                       *)
(***************************************************************************)
\* Only the file that holds this call's token is unlinked; another token is
\* an error that replaces the result.
ReadOwnToken(p) ==
  /\ pc[p] = "release"
  /\ \/ OwnToken(p) /\ Goto(p, "unlock") /\ UNCHANGED callVars
     \/ ~OwnToken(p) /\ Leave(p)
  /\ UNCHANGED <<lock, fileVars, clock, faults, stolen>>

Unlock(p) ==
  /\ pc[p] = "unlock"
  /\ lock' = NoLock
  /\ stolen' = (stolen \/ (HolderIsLive /\ lock.owner # p))
  /\ Leave(p)
  /\ UNCHANGED <<fileVars, clock, faults>>

(***************************************************************************)
(* The environment: time, the age of the lock file, and killed processes.  *)
(***************************************************************************)
Tick ==
  /\ clock < MaxTime
  /\ clock' = clock + 1
  /\ UNCHANGED <<lock, fileVars, pc, callVars, faults, stolen>>

\* A live holder ends after four bounded downloads, so its lock file gets
\* older than 15 minutes only when it is suspended (LiveExpiry).
LockExpires ==
  /\ lock # NoLock /\ ~lock.stale
  /\ LiveExpiry \/ ~HolderIsLive
  /\ lock' = [lock EXCEPT !.stale = TRUE]
  /\ UNCHANGED <<fileVars, pc, callVars, clock, faults, stolen>>

\* A process is killed; another may take its place.
Crash(p) ==
  /\ pc[p] # "idle"
  /\ Fault
  /\ Leave(p)
  /\ UNCHANGED <<lock, fileVars, clock, stolen>>

(***************************************************************************)
(* Specification                                                           *)
(***************************************************************************)
Acquire(p) ==
  \/ CreateLock(p) \/ LockExists(p) \/ WriteToken(p) \/ TokenWriteFails(p)
  \/ InspectLock(p) \/ UnlinkStale(p)

Body(p) ==
  \/ LoadCached(p) \/ LoadAccepted(p)
  \/ DownloadLatest(p) \/ WriteAccepted(p) \/ DownloadManifest(p)
  \/ DownloadArtifact(p) \/ PublishDirectory(p) \/ WriteCurrent(p) \/ WriteCheck(p)
  \/ NetworkError(p) \/ NetworkFallback(p) \/ StepFails(p)

Release(p) == ReadOwnToken(p) \/ Unlock(p)

Step(p) == Acquire(p) \/ Body(p) \/ Release(p)

Next ==
  \/ \E p \in Proc : Begin(p) \/ Step(p) \/ Crash(p)
  \/ Tick \/ LockExpires

Spec == Init /\ [][Next]_vars

(***************************************************************************)
(* Fairness: a running process goes on (the event loop schedules it, every *)
(* download has a deadline), time passes and files age, somebody keeps     *)
(* using the SDK, and a channel that is asked again and again serves the   *)
(* release it was last accepted with.                                      *)
(***************************************************************************)
Fairness ==
  /\ \A p \in Proc :
       /\ WF_vars(Step(p)) /\ WF_vars(Begin(p))
       /\ SF_vars(DownloadLatest(p) /\ latest'[p] = accepted)
  /\ WF_vars(LockExpires) /\ WF_vars(Tick)

FairSpec == Spec /\ Fairness

(***************************************************************************)
(* Properties                                                              *)
(***************************************************************************)
NoNewer(old, new) ==
  old # NoRelease => new # NoRelease /\ (new = old \/ new.v > old.v)

Returned(p) ==
  IF result[p].how \in {"fresh", "fallback"} THEN cachedBy[p] ELSE latest[p]

\* The call of p has its result and is giving up the lock.
Returning(p) == pc[p] \in {"release", "unlock"} /\ result[p].how \in Succeeded

MaybeRelease == Releases \cup {NoRelease}
MaybeTime == Nat \cup {Never}
LockFile == [owner : Proc \cup {NoProc}, token : BOOLEAN, stale : BOOLEAN]
CheckFile == [rel : MaybeRelease, checkedAt : MaybeTime, retryAfter : Nat]
Args == [now : Nat, force : BOOLEAN]
Results == [how : Outcomes, until : MaybeTime]
Location == {"idle"} \cup Waiting \cup Critical

TypeOK ==
  /\ lock \in LockFile
  /\ accepted \in MaybeRelease /\ current \in MaybeRelease /\ check \in CheckFile
  /\ releases \in [Versions -> MaybeRelease]
  /\ clock \in Nat /\ faults \in Nat /\ stolen \in BOOLEAN
  /\ pc \in [Proc -> Location]
  /\ args \in [Proc -> Args]
  /\ polls \in [Proc -> Nat]
  /\ cachedBy \in [Proc -> MaybeRelease]
  /\ acceptedBy \in [Proc -> MaybeRelease]
  /\ priorBy \in [Proc -> MaybeTime]
  /\ latest \in [Proc -> MaybeRelease]
  /\ result \in [Proc -> Results]

\* The pointer never names a release whose directory is absent, incomplete or
\* of another generation, whoever crashes and however the lock is lost: a
\* directory left by an interrupted or competing publishRelease is verified
\* before it is activated.
ActiveReleaseIsVerified == current # NoRelease => Verified(current)

\* As long as no live holder's lock file has been unlinked, at most one process
\* is between acquireLock and releaseLock.
MutualExclusion ==
  ~stolen => \A p, q \in Proc : pc[p] \in Critical /\ pc[q] \in Critical => p = q

\* The accepted state is never behind the pointer: a crash between the two
\* writes leaves a pending release, never an active one nobody accepted.
ActiveIsAccepted ==
  ~stolen /\ current # NoRelease => accepted # NoRelease /\ NoNewer(current, accepted)

\* A successful call returns the release that the pointer names when the lock is
\* given up: whether it checked, used the cached release unasked, or fell back to
\* it on a network error with a newer release accepted but not active.
ReturnsActiveRelease ==
  ~stolen => \A p \in Proc : Returning(p) => Returned(p) = current

\* A release that was accepted but not activated is tried again within the
\* retry interval: the six-hour check state of the older one does not hide it.
PendingIsRetried ==
  \A p \in Proc :
    Returning(p) /\ Pending(acceptedBy[p], cachedBy[p]) /\ Returned(p) = cachedBy[p]
      => result[p].until <= args[p].now + RetryInterval

\* The two pointer files behave as the register of ReleaseRegister while no lock
\* is stolen: neither goes back to an older release or to another generation of
\* the same version, whatever the channel replays, and only the accepted release
\* is activated.
Register == INSTANCE ReleaseRegister WITH accepted <- accepted, current <- current
ImplementsRegister ==
  Register!Init /\ [][stolen' \/ Register!Next]_<<accepted, current>>

\* The signed channel cannot roll the SDK back, nor change a version it accepted
\* (CHANGELOG.md: "fail-closed rollback/equivocation protection").
NoRollback == [][NoNewer(accepted, accepted') /\ NoNewer(current, current')]_vars

\* p asks the channel although it was not forced, and the last completed check was
\* about the active release.
AsksUnforced(p) ==
  /\ pc[p] = "loadAccepted" /\ pc'[p] = "latest" /\ ~args[p].force
  /\ check.rel = cachedBy[p] /\ current # NoRelease /\ check.retryAfter = 0
  /\ ~Pending(accepted, cachedBy[p])

AsksWhenDue == \A p \in Proc : AsksUnforced(p) => clock - check.checkedAt >= CheckInterval

\* A call that is not forced asks the channel only when the interval since the
\* last completed check of the active release is over.
NoCheckBeforeDue == [][AsksWhenDue]_vars

\* A lock file whose holder is gone does not block updates for ever.
DeadLockFileIsRemoved ==
  (lock # NoLock /\ ~HolderIsLive) ~> (lock = NoLock \/ HolderIsLive)

\* A release that was accepted becomes the active one unless a newer one is
\* accepted, wherever the process that accepted it was interrupted.  After a
\* stolen lock this fails for good: two writers can leave an accepted state
\* older than the pointer, which loadAccepted refuses from then on.
AcceptedBecomesActive ==
  \A r \in Releases : (accepted = r) ~> (current = r \/ accepted # r \/ stolen)
=============================================================================
