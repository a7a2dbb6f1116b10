------------------------ MODULE ManagedInstallProofs ------------------------
(***************************************************************************)
(* Theorems about ManagedInstall, for every set of processes, every set of *)
(* signed releases and every value of the bounds.                          *)
(*                                                                         *)
(* The argument: while no live holder's lock file has been unlinked, every *)
(* process between acquireLock and releaseLock is the owner of the lock    *)
(* file (LockInv).  So what it read of the two pointer files still holds   *)
(* when it writes them (LocalInv), and a write moves the register forward. *)
(* What a call says about its next check needs no lock (RetryInv); that    *)
(* nobody asks before that needs that there is one updater (DueInv).       *)
(***************************************************************************)
EXTENDS ManagedInstall, TLAPS

\* A process in the critical section owns the lock file.
LockInv == ~stolen => \A p \in Proc : pc[p] \in Critical => lock.owner = p

HasCached == {"loadAccepted", "latest", "accept", "manifest", "artifact",
              "publish", "activate", "fallback"}
HasLatest == {"accept", "manifest", "artifact", "publish", "activate", "checked"}

\* What a process downloaded is a release, and it falls back to one; this does
\* not depend on the lock.
DownloadInv ==
  \A p \in Proc :
    /\ pc[p] \in HasLatest => latest[p] \in Releases
    /\ pc[p] = "fallback" => cachedBy[p] \in Releases

\* What a process read or decided still describes the files.
Local(p) ==
  /\ pc[p] \in HasCached => cachedBy[p] = current
  /\ pc[p] \in {"latest", "accept"} => acceptedBy[p] = accepted
  /\ pc[p] = "accept" => (accepted # NoRelease => latest[p].v > accepted.v)
  /\ pc[p] \in HasLatest \ {"accept"} => latest[p] = accepted
  /\ pc[p] = "checked" => latest[p] = current
  /\ Returning(p) => Returned(p) = current

LocalInv == ~stolen => \A p \in Proc : Local(p)

IInv ==
  /\ TypeOK /\ LockInv /\ DownloadInv /\ ActiveReleaseIsVerified
  /\ ActiveIsAccepted /\ LocalInv

-----------------------------------------------------------------------------
\* Locations are distinct strings: what the critical section consists of.
LEMMA Locations ==
  /\ Working \subseteq Critical
  /\ HasCached \subseteq Working
  /\ HasLatest \subseteq Working
  /\ {"token", "release", "unlock", "fallback", "accept"} \subseteq Critical
  /\ "idle" \notin Critical /\ Waiting \cap Critical = {}
BY DEF Working, Critical, HasCached, HasLatest, Waiting

\* The values that stand for nothing are none of the values they stand beside.
LEMMA Sentinels ==
  /\ NoRelease \notin Releases /\ NoProc \notin Proc
  /\ \A r \in Releases : r.v \in Nat /\ r.v \in Versions
BY ReleasesAssumption, SentinelAssumption DEF Versions

\* The values that the actions store are of their variables' types.
LEMMA Constructors ==
  /\ NoRelease \in MaybeRelease /\ Never \in MaybeTime
  /\ \A r \in Releases : r \in MaybeRelease
  /\ \A t \in Nat : t \in MaybeTime
  /\ NoLock \in LockFile
  /\ \A p \in Proc : [owner |-> p, token |-> FALSE, stale |-> FALSE] \in LockFile
  /\ NoCheck \in CheckFile
  /\ \A r \in MaybeRelease, t \in MaybeTime, n \in Nat :
       [rel |-> r, checkedAt |-> t, retryAfter |-> n] \in CheckFile
  /\ NoArgs \in Args
  /\ \A t \in Nat, f \in BOOLEAN : [now |-> t, force |-> f] \in Args
  /\ NoResult \in Results
  /\ \A h \in Outcomes, t \in MaybeTime : Result(h, t) \in Results
BY DEF MaybeRelease, MaybeTime, LockFile, NoLock, CheckFile, NoCheck, Args, NoArgs,
   Results, NoResult, Result, Outcomes

\* The fields of the records that the steps store.
LEMMA Fields ==
  /\ \A l \in LockFile : [l EXCEPT !.token = TRUE] \in LockFile
  /\ \A l \in LockFile : [l EXCEPT !.stale = TRUE] \in LockFile
  /\ \A c \in CheckFile : /\ c.rel \in MaybeRelease
                          /\ c.checkedAt \in MaybeTime
                          /\ c.retryAfter \in Nat
  /\ \A a \in Args : a.now \in Nat
BY DEF LockFile, CheckFile, Args

\* Every location that a step goes to is a location.
LEMMA Places ==
  /\ Waiting \subseteq Location /\ Critical \subseteq Location /\ Working \subseteq Location
  /\ {"idle", "open", "inspect", "unlinkStale", "token", "release", "unlock",
      "loadCached", "loadAccepted", "latest", "accept", "manifest", "artifact",
      "publish", "activate", "checked", "fallback"} \subseteq Location
  /\ Outcomes = {"none"} \cup {"failed"} \cup Succeeded
  /\ {"fresh", "fallback", "checked", "installed"} \subseteq Outcomes
BY DEF Location, Waiting, Critical, Working, Outcomes, Succeeded

\* The invariant holds before anything is installed.
THEOREM InitInvariant == Init => IInv
<1> SUFFICES ASSUME Init PROVE IInv
  OBVIOUS
<1>1. TypeOK
  BY Constructors, Places DEF Init, TypeOK
<1>2. /\ LockInv /\ DownloadInv /\ LocalInv
      /\ ActiveIsAccepted /\ ActiveReleaseIsVerified
  BY DEF Init, LockInv, DownloadInv, ActiveIsAccepted, LocalInv, Local, Returning,
     ActiveReleaseIsVerified, Critical, Working, HasCached, HasLatest
<1> QED BY <1>1, <1>2 DEF IInv

-----------------------------------------------------------------------------
\* A call that is left or that ends keeps the types of its variables.
LEMMA LeaveType ==
  ASSUME TypeOK, NEW p \in Proc, Leave(p)
  PROVE  /\ pc' \in [Proc -> Location] /\ args' \in [Proc -> Args] /\ polls' \in [Proc -> Nat]
         /\ cachedBy' \in [Proc -> MaybeRelease] /\ acceptedBy' \in [Proc -> MaybeRelease]
         /\ priorBy' \in [Proc -> MaybeTime] /\ latest' \in [Proc -> MaybeRelease]
         /\ result' \in [Proc -> Results]
BY Constructors, Places DEF TypeOK, Leave, Goto

\* A call that ends keeps the types of the variables.
LEMMA FinishType ==
  ASSUME TypeOK, NEW p \in Proc, NEW h \in Outcomes, NEW t \in MaybeTime, Finish(p, h, t)
  PROVE  pc' \in [Proc -> Location] /\ result' \in [Proc -> Results]
BY Constructors, Places DEF TypeOK, Finish, Goto

\* A call that fails keeps the types of the variables.
LEMMA FailType ==
  ASSUME TypeOK, NEW p \in Proc, Fail(p)
  PROVE  pc' \in [Proc -> Location] /\ result' \in [Proc -> Results]
BY FinishType, Constructors, Places DEF Fail

\* The deadline of the check state is a time or Never.
LEMMA DeadlineType ==
  ASSUME NEW c \in CheckFile, NEW r, NEW t \in Nat, NEW b
  PROVE  NextCheckDeadline(c, r, t, b) \in MaybeTime
<1>1. c.checkedAt # Never => c.checkedAt \in Nat
  BY Fields DEF MaybeTime
<1> QED BY <1>1, Fields, Constructors, BoundsAssumption DEF NextCheckDeadline

\* Type correctness, of every reachable state.
LEMMA TypeStep == TypeOK /\ DownloadInv /\ [Next]_vars => TypeOK'
<1> SUFFICES ASSUME TypeOK, DownloadInv, [Next]_vars PROVE TypeOK'
  OBVIOUS
<1> USE Constructors, Places DEF TypeOK, fileVars, callVars
<1>0. CASE UNCHANGED vars
  BY <1>0 DEF vars
<1>1. ASSUME NEW p \in Proc, Begin(p) PROVE TypeOK'
  BY <1>1 DEF Begin, Goto
<1>2. ASSUME NEW p \in Proc, Acquire(p) PROVE TypeOK'
  <2>1. CASE CreateLock(p) BY <2>1 DEF CreateLock, Goto
  <2>2. CASE LockExists(p) BY <2>2 DEF LockExists, Goto
  <2>3. CASE WriteToken(p)
    <3>1. [lock EXCEPT !.token = TRUE] \in LockFile BY Fields
    <3>2. lock' \in LockFile BY <2>3, <3>1 DEF WriteToken
    <3> QED BY <2>3, <3>2 DEF WriteToken, Goto
  <2>4. CASE TokenWriteFails(p) BY <2>4, LeaveType DEF TokenWriteFails, Fault
  <2>5. CASE InspectLock(p)
    <3>1. CASE Leave(p) BY <2>5, <3>1, LeaveType DEF InspectLock
    <3>2. CASE UNCHANGED callVars /\ (Goto(p, "open") \/ Goto(p, "unlinkStale"))
      BY <2>5, <3>2 DEF InspectLock, Goto
    <3>3. CASE /\ polls' = [polls EXCEPT ![p] = @ + 1] /\ Goto(p, "open")
               /\ UNCHANGED <<args, cachedBy, acceptedBy, priorBy, latest, result>>
      BY <2>5, <3>3 DEF InspectLock, Goto
    <3> QED BY <2>5, <3>1, <3>2, <3>3 DEF InspectLock
  <2>6. CASE UnlinkStale(p) BY <2>6 DEF UnlinkStale, Goto, HolderIsLive
  <2> QED BY <1>2, <2>1, <2>2, <2>3, <2>4, <2>5, <2>6 DEF Acquire
<1>3. ASSUME NEW p \in Proc, Body(p) PROVE TypeOK'
  <2>1. CASE LoadCached(p) BY <2>1, FailType DEF LoadCached, Goto
  <2>2. CASE LoadAccepted(p)
    <3>1. AcceptedOrCached(accepted, cachedBy[p]) \in MaybeRelease
      BY DEF AcceptedOrCached
    <3>2. check.rel \in MaybeRelease /\ check.checkedAt \in MaybeTime /\ args[p].now \in Nat
      BY Fields
    <3>3. (IF cachedBy[p] = NoRelease \/ args[p].force THEN Never
           ELSE NextCheckDeadline(check, cachedBy[p], args[p].now,
                  Pending(AcceptedOrCached(accepted, cachedBy[p]), cachedBy[p]))) \in MaybeTime
      BY <3>2, DeadlineType
    <3> QED BY <2>2, <3>1, <3>2, <3>3, FinishType, FailType DEF LoadAccepted, Goto
  <2>3. CASE DownloadLatest(p) BY <2>3, FailType DEF DownloadLatest, Goto
  <2>4. CASE WriteAccepted(p) BY <2>4 DEF WriteAccepted, Goto
  <2>5. CASE DownloadManifest(p) BY <2>5, FailType DEF DownloadManifest, Goto
  <2>6. CASE DownloadArtifact(p) BY <2>6 DEF DownloadArtifact, Goto
  <2>7. CASE PublishDirectory(p) BY <2>7 DEF PublishDirectory, Goto
  <2>8. CASE WriteCurrent(p) BY <2>8, FailType DEF WriteCurrent, Goto
  <2>9. CASE WriteCheck(p)
    <3>1. args[p].now \in Nat BY Fields
    <3>2. args[p].now + CheckInterval \in MaybeTime BY <3>1, BoundsAssumption
    <3> QED BY <2>9, <3>1, <3>2, FinishType DEF WriteCheck
  <2>10. CASE NetworkError(p) 
    <3>1. CASE Fail(p) BY <2>10, <3>1, FailType DEF NetworkError, Fault
    <3>2. CASE Goto(p, "fallback") /\ UNCHANGED result
      BY <2>10, <3>2 DEF NetworkError, Fault, Goto
    <3> QED BY <2>10, <3>1, <3>2 DEF NetworkError
  <2>11. CASE NetworkFallback(p)
    <3>1. args[p].now + RetryInterval \in Nat BY Fields, BoundsAssumption
    <3>2. check' \in CheckFile BY <2>11, <3>1 DEF NetworkFallback
    <3>3. Finish(p, "fallback", args[p].now + RetryInterval) BY <2>11 DEF NetworkFallback
    <3>4. pc' \in [Proc -> Location] /\ result' \in [Proc -> Results]
      BY <3>1, <3>3, FinishType
    <3> QED BY <2>11, <3>2, <3>4 DEF NetworkFallback
  <2>12. CASE StepFails(p) BY <2>12, FailType DEF StepFails, Fault
  <2> QED
    BY <1>3, <2>1, <2>2, <2>3, <2>4, <2>5, <2>6, <2>7, <2>8, <2>9, <2>10, <2>11, <2>12
    DEF Body
<1>4. ASSUME NEW p \in Proc, Release(p) PROVE TypeOK'
  <2>1. CASE ReadOwnToken(p) BY <2>1, LeaveType DEF ReadOwnToken, Goto
  <2>2. CASE Unlock(p) BY <2>2, LeaveType DEF Unlock, HolderIsLive
  <2> QED BY <1>4, <2>1, <2>2 DEF Release
<1>5. ASSUME NEW p \in Proc, Crash(p) PROVE TypeOK'
  BY <1>5, LeaveType DEF Crash, Fault
<1>6. CASE Tick
  BY <1>6 DEF Tick
<1>7. CASE LockExpires
  BY <1>7, Fields DEF LockExpires
<1> QED
  BY <1>0, <1>1, <1>2, <1>3, <1>4, <1>5, <1>6, <1>7 DEF Next, Step

-----------------------------------------------------------------------------
\* A step of p leaves the location and the variables of every other call alone.
LEMMA Others ==
  ASSUME TypeOK, NEW p \in Proc, Begin(p) \/ Step(p) \/ Crash(p),
         NEW q \in Proc, q # p
  PROVE  /\ pc'[q] = pc[q] /\ cachedBy'[q] = cachedBy[q] /\ acceptedBy'[q] = acceptedBy[q]
         /\ latest'[q] = latest[q] /\ result'[q] = result[q] /\ args'[q] = args[q]
<1> USE DEF TypeOK, callVars, Goto, Fail, Finish, Leave
<1>1. CASE Begin(p) BY <1>1 DEF Begin
<1>2. CASE Crash(p) BY <1>2 DEF Crash
<1>3. CASE Acquire(p)
  BY <1>3 DEF Acquire, CreateLock, LockExists, WriteToken, TokenWriteFails, InspectLock,
     UnlinkStale
<1>4. CASE LoadCached(p) \/ LoadAccepted(p) \/ DownloadLatest(p) \/ WriteAccepted(p)
  BY <1>4 DEF LoadCached, LoadAccepted, DownloadLatest, WriteAccepted
<1>5. CASE DownloadManifest(p) \/ DownloadArtifact(p) \/ PublishDirectory(p) \/ WriteCurrent(p)
  BY <1>5 DEF DownloadManifest, DownloadArtifact, PublishDirectory, WriteCurrent
<1>6. CASE WriteCheck(p) \/ NetworkError(p) \/ NetworkFallback(p) \/ StepFails(p)
  BY <1>6 DEF WriteCheck, NetworkError, NetworkFallback, StepFails
<1>7. CASE Release(p) BY <1>7 DEF Release, ReadOwnToken, Unlock
<1> QED BY <1>1, <1>2, <1>3, <1>4, <1>5, <1>6, <1>7 DEF Step, Body

\* A step of the try block starts and ends in the critical section and leaves
\* the lock file alone.
LEMMA BodyIsCritical ==
  ASSUME TypeOK, NEW p \in Proc, Body(p)
  PROVE  pc[p] \in Working /\ pc'[p] \in Critical /\ UNCHANGED <<lock, stolen>>
<1> USE DEF TypeOK, Working, Critical, Goto, Fail, Finish
<1>1. CASE LoadCached(p) \/ LoadAccepted(p) \/ DownloadLatest(p) \/ WriteAccepted(p)
  BY <1>1 DEF LoadCached, LoadAccepted, DownloadLatest, WriteAccepted
<1>2. CASE DownloadManifest(p) \/ DownloadArtifact(p) \/ PublishDirectory(p) \/ WriteCurrent(p)
  BY <1>2 DEF DownloadManifest, DownloadArtifact, PublishDirectory, WriteCurrent
<1>3. CASE WriteCheck(p) \/ NetworkError(p) \/ NetworkFallback(p) \/ StepFails(p)
  BY <1>3 DEF WriteCheck, NetworkError, NetworkFallback, StepFails
<1> QED BY <1>1, <1>2, <1>3 DEF Body

\* While no lock was stolen, only one process is in the critical section.
LEMMA Alone ==
  ASSUME LockInv, ~stolen, NEW p \in Proc, NEW q \in Proc,
         pc[p] \in Critical, pc[q] \in Critical
  PROVE  p = q
BY DEF LockInv

\* Whoever is in the critical section stays the owner of the lock file: the
\* file of a live holder is not unlinked without a trace in stolen.
LEMMA LockStep == TypeOK /\ LockInv /\ [Next]_vars => LockInv'
<1> SUFFICES ASSUME TypeOK, LockInv, [Next]_vars, ~stolen',
                    NEW q \in Proc, pc'[q] \in Critical
             PROVE  lock'.owner = q
  BY DEF LockInv
<1> USE DEF TypeOK, fileVars, callVars
<1>0. CASE UNCHANGED vars
  BY <1>0 DEF vars, LockInv
<1>1. ASSUME NEW p \in Proc, Begin(p) PROVE lock'.owner = q
  BY <1>1, Locations DEF Begin, Goto, LockInv, Waiting
<1>2. ASSUME NEW p \in Proc, Acquire(p) PROVE lock'.owner = q
  <2>1. CASE CreateLock(p)
    <3>1. \A r \in Proc : pc[r] \notin Critical
      BY <2>1, Sentinels DEF CreateLock, LockInv, NoLock
    <3> QED BY <2>1, <3>1 DEF CreateLock, Goto
  <2>2. CASE LockExists(p) BY <2>2, Locations DEF LockExists, Goto, LockInv, Waiting
  <2>3. CASE WriteToken(p)
    <3>1. pc[p] \in Critical BY <2>3, Locations DEF WriteToken
    <3>2. pc[q] \in Critical BY <2>3, <3>1 DEF WriteToken, Goto
    <3>3. lock'.owner = lock.owner BY <2>3 DEF WriteToken, LockFile
    <3> QED BY <2>3, <3>2, <3>3 DEF WriteToken, LockInv
  <2>4. CASE TokenWriteFails(p)
    BY <2>4, Locations DEF TokenWriteFails, Leave, Goto, LockInv
  <2>5. CASE InspectLock(p)
    BY <2>5, Locations DEF InspectLock, Leave, Goto, LockInv, Waiting
  <2>6. CASE UnlinkStale(p)
    <3>1. ~stolen /\ ~HolderIsLive BY <2>6 DEF UnlinkStale
    <3>2. \A r \in Proc : pc[r] \notin Critical
      BY <3>1, Sentinels DEF LockInv, HolderIsLive
    <3> QED BY <2>6, <3>2, Locations DEF UnlinkStale, Goto, Waiting
  <2> QED BY <1>2, <2>1, <2>2, <2>3, <2>4, <2>5, <2>6 DEF Acquire
<1>3. ASSUME NEW p \in Proc, Body(p) PROVE lock'.owner = q
  <2>1. pc[q] \in Critical
    BY <1>3, BodyIsCritical, Others, Locations DEF Step
  <2> QED BY <1>3, <2>1, BodyIsCritical DEF LockInv
<1>4. ASSUME NEW p \in Proc, Release(p) PROVE lock'.owner = q
  <2>1. CASE ReadOwnToken(p)
    BY <2>1, Locations DEF ReadOwnToken, Leave, Goto, LockInv
  <2>2. CASE Unlock(p)
    <3>1. ~stolen BY <2>2 DEF Unlock
    <3>2. pc[p] \in Critical BY <2>2, Locations DEF Unlock
    <3>3. q # p BY <2>2, Locations DEF Unlock, Leave, Goto
    <3>4. pc[q] \in Critical BY <2>2, <3>3 DEF Unlock, Leave, Goto
    <3> QED BY <3>1, <3>2, <3>3, <3>4, Alone
  <2> QED BY <1>4, <2>1, <2>2 DEF Release
<1>5. ASSUME NEW p \in Proc, Crash(p) PROVE lock'.owner = q
  BY <1>5, Locations DEF Crash, Leave, Goto, LockInv
<1>6. CASE Tick
  BY <1>6 DEF Tick, LockInv
<1>7. CASE LockExpires
  <2>1. lock'.owner = lock.owner BY <1>7 DEF LockExpires, LockFile
  <2> QED BY <1>7, <2>1 DEF LockExpires, LockInv
<1> QED
  BY <1>0, <1>1, <1>2, <1>3, <1>4, <1>5, <1>6, <1>7 DEF Next, Step

\* A downloaded release stays one.
LEMMA DownloadStep == TypeOK /\ DownloadInv /\ [Next]_vars => DownloadInv'
<1> SUFFICES ASSUME TypeOK, DownloadInv, [Next]_vars, NEW q \in Proc
             PROVE  /\ pc'[q] \in HasLatest => latest'[q] \in Releases
                    /\ pc'[q] = "fallback" => cachedBy'[q] \in Releases
  BY DEF DownloadInv
<1>0. CASE UNCHANGED vars
  BY <1>0 DEF vars, callVars, DownloadInv
<1>1. CASE Tick \/ LockExpires
  BY <1>1 DEF Tick, LockExpires, callVars, DownloadInv
<1>2. ASSUME NEW p \in Proc, Begin(p) \/ Step(p) \/ Crash(p), p # q
      PROVE  /\ pc'[q] \in HasLatest => latest'[q] \in Releases
             /\ pc'[q] = "fallback" => cachedBy'[q] \in Releases
  BY <1>2, Others DEF DownloadInv
<1>3. CASE Begin(q) \/ Crash(q) \/ Acquire(q) \/ Release(q)
  <2>1. pc'[q] \notin HasLatest /\ pc'[q] # "fallback"
    BY <1>3 DEF TypeOK, Goto, Leave, HasLatest, Begin, Crash, Acquire, CreateLock, LockExists,
       WriteToken, TokenWriteFails, InspectLock, UnlinkStale, Release, ReadOwnToken, Unlock
  <2> QED BY <2>1
<1>4. CASE Body(q)
  <2> USE DEF TypeOK, callVars, DownloadInv, HasLatest, Goto, Fail, Finish
  <2>1. CASE LoadCached(q) \/ LoadAccepted(q) \/ StepFails(q)
    BY <1>4, <2>1 DEF LoadCached, LoadAccepted, StepFails
  <2>2. CASE DownloadLatest(q) BY <2>2 DEF DownloadLatest
  <2>3. CASE WriteAccepted(q) \/ DownloadArtifact(q) \/ PublishDirectory(q)
    BY <2>3 DEF WriteAccepted, DownloadArtifact, PublishDirectory
  <2>4. CASE DownloadManifest(q) \/ WriteCurrent(q)
    BY <2>4 DEF DownloadManifest, WriteCurrent
  <2>5. CASE WriteCheck(q) \/ NetworkFallback(q)
    BY <2>5 DEF WriteCheck, NetworkFallback
  <2>6. CASE NetworkError(q)
    BY <2>6 DEF NetworkError, MaybeRelease
  <2> QED BY <1>4, <2>1, <2>2, <2>3, <2>4, <2>5, <2>6 DEF Body
<1> QED
  BY <1>0, <1>1, <1>2, <1>3, <1>4 DEF Next, Step

\* A directory that is there is never replaced, and the pointer moves to a
\* verified one only.
LEMMA VerifiedStep ==
  TypeOK /\ DownloadInv /\ ActiveReleaseIsVerified /\ [Next]_vars => ActiveReleaseIsVerified'
<1> SUFFICES ASSUME TypeOK, DownloadInv, ActiveReleaseIsVerified, [Next]_vars,
                    current' # NoRelease
             PROVE  releases'[current'.v] = current'
  BY DEF ActiveReleaseIsVerified, Verified
<1> USE DEF ActiveReleaseIsVerified, Verified, fileVars
<1>1. CASE UNCHANGED <<current, releases>>
  BY <1>1
<1>2. ASSUME NEW p \in Proc, PublishDirectory(p) PROVE releases'[current'.v] = current'
  <2>1. current \in Releases /\ current.v \in Versions /\ releases[current.v] = current
    BY <1>2, Sentinels DEF PublishDirectory, TypeOK, MaybeRelease
  <2> QED BY <1>2, <2>1, Sentinels DEF PublishDirectory, TypeOK
<1>3. ASSUME NEW p \in Proc, WriteCurrent(p) PROVE releases'[current'.v] = current'
  BY <1>3 DEF WriteCurrent
<1>4. ASSUME NEW p \in Proc, Begin(p) \/ Acquire(p) \/ Release(p) \/ Crash(p)
      PROVE  UNCHANGED <<current, releases>>
  BY <1>4 DEF Begin, Crash, Acquire, CreateLock, LockExists, WriteToken, TokenWriteFails,
     InspectLock, UnlinkStale, Release, ReadOwnToken, Unlock
<1>5. ASSUME NEW p \in Proc, Body(p), ~PublishDirectory(p), ~WriteCurrent(p)
      PROVE  UNCHANGED <<current, releases>>
  BY <1>5 DEF Body, LoadCached, LoadAccepted, DownloadLatest, WriteAccepted, DownloadManifest,
     DownloadArtifact, WriteCheck, NetworkError, NetworkFallback, StepFails
<1>6. CASE UNCHANGED vars \/ Tick \/ LockExpires
  BY <1>6 DEF vars, Tick, LockExpires
<1> QED BY <1>1, <1>2, <1>3, <1>4, <1>5, <1>6 DEF Next, Step

-----------------------------------------------------------------------------
\* What one step of the try block does to the register and to its own process,
\* which is alone in the critical section.
LEMMA BodyStep ==
  ASSUME TypeOK, DownloadInv, ActiveIsAccepted, ~stolen,
         NEW p \in Proc, Local(p), Body(p)
  PROVE  ActiveIsAccepted' /\ Local(p)'
<1> USE DEF TypeOK, Local, Returning, Returned, HasCached, HasLatest, Succeeded,
            ActiveIsAccepted, NoNewer, Goto, Fail, Finish, Result, fileVars, callVars
<1>1. CASE LoadCached(p) BY <1>1 DEF LoadCached
<1>2. CASE LoadAccepted(p)
  <2>1. AcceptedOrCached(accepted, cachedBy[p]) = accepted
    BY <1>2 DEF LoadAccepted, AcceptedOrCached
  <2> QED BY <1>2, <2>1 DEF LoadAccepted
<1>3. CASE DownloadLatest(p)
  <2>1. acceptedBy[p] = accepted BY <1>3 DEF DownloadLatest
  <2> QED BY <1>3, <2>1 DEF DownloadLatest, Acceptable
<1>4. CASE WriteAccepted(p)
  <2>1. latest[p] \in Releases /\ latest[p].v \in Nat
    BY <1>4, Sentinels DEF WriteAccepted, DownloadInv
  <2>2. ASSUME current # NoRelease PROVE current.v \in Nat /\ accepted.v \in Nat
    BY <2>2, Sentinels DEF MaybeRelease
  <2> QED BY <1>4, <2>1, <2>2, Sentinels DEF WriteAccepted
<1>5. CASE DownloadManifest(p) BY <1>5 DEF DownloadManifest
<1>6. CASE DownloadArtifact(p) BY <1>6 DEF DownloadArtifact
<1>7. CASE PublishDirectory(p) BY <1>7 DEF PublishDirectory
<1>8. CASE WriteCurrent(p) BY <1>8 DEF WriteCurrent
<1>9. CASE WriteCheck(p) BY <1>9 DEF WriteCheck
<1>10. CASE NetworkError(p) BY <1>10 DEF NetworkError
<1>11. CASE NetworkFallback(p) BY <1>11 DEF NetworkFallback
<1>12. CASE StepFails(p) BY <1>12 DEF StepFails
<1> QED BY <1>1, <1>2, <1>3, <1>4, <1>5, <1>6, <1>7, <1>8, <1>9, <1>10, <1>11, <1>12 DEF Body

\* A step outside the try block leaves the register alone, and its process
\* has nothing cached afterwards, or has its result as before.
LEMMA OuterStep ==
  ASSUME TypeOK, NEW p \in Proc, Local(p), Begin(p) \/ Acquire(p) \/ Release(p) \/ Crash(p)
  PROVE  UNCHANGED <<accepted, current>> /\ Local(p)' /\ (stolen => stolen')
<1> USE DEF TypeOK, Local, Returning, Returned, HasCached, HasLatest, Goto, Leave,
            fileVars, callVars
<1>1. CASE Begin(p) \/ Crash(p) BY <1>1 DEF Begin, Crash
<1>2. CASE CreateLock(p) \/ LockExists(p) \/ WriteToken(p) \/ TokenWriteFails(p)
  BY <1>2 DEF CreateLock, LockExists, WriteToken, TokenWriteFails
<1>3. CASE InspectLock(p) BY <1>3 DEF InspectLock
<1>4. CASE UnlinkStale(p) BY <1>4 DEF UnlinkStale
<1>5. CASE ReadOwnToken(p) BY <1>5 DEF ReadOwnToken
<1>6. CASE Unlock(p) BY <1>6 DEF Unlock
<1> QED BY <1>1, <1>2, <1>3, <1>4, <1>5, <1>6 DEF Acquire, Release

\* The register and the local variables of the process that has the lock move
\* together; every other process is outside the critical section.
LEMMA LocalStep ==
  TypeOK /\ LockInv /\ DownloadInv /\ ActiveIsAccepted /\ LocalInv /\ [Next]_vars
    => ActiveIsAccepted' /\ LocalInv'
<1> SUFFICES ASSUME TypeOK, LockInv, DownloadInv, ActiveIsAccepted, LocalInv, [Next]_vars
             PROVE  ActiveIsAccepted' /\ LocalInv'
  OBVIOUS
<1>1. CASE UNCHANGED vars \/ Tick \/ LockExpires
  BY <1>1 DEF vars, fileVars, callVars, Tick, LockExpires, ActiveIsAccepted, LocalInv, Local,
     Returning, Returned
<1>2. ASSUME NEW p \in Proc, Begin(p) \/ Acquire(p) \/ Release(p) \/ Crash(p)
      PROVE  ActiveIsAccepted' /\ LocalInv'
  <2> SUFFICES ASSUME ~stolen' PROVE ActiveIsAccepted' /\ \A q \in Proc : Local(q)'
    BY DEF LocalInv, ActiveIsAccepted
  <2>1. ~stolen BY <1>2 DEF Begin, Crash, Acquire, CreateLock, LockExists, WriteToken,
     TokenWriteFails, InspectLock, UnlinkStale, Release, ReadOwnToken, Unlock
  <2>2. \A q \in Proc : Local(q) BY <2>1 DEF LocalInv
  <2>3. UNCHANGED <<accepted, current>> /\ Local(p)' BY <1>2, <2>2, OuterStep
  <2>4. ASSUME NEW q \in Proc, q # p PROVE Local(q)'
    <3>1. /\ pc'[q] = pc[q] /\ cachedBy'[q] = cachedBy[q] /\ acceptedBy'[q] = acceptedBy[q]
          /\ latest'[q] = latest[q] /\ result'[q] = result[q]
      BY <1>2, <2>4, Others DEF Step
    <3> QED BY <2>2, <2>3, <3>1 DEF Local, Returning, Returned
  <2> QED BY <2>1, <2>3, <2>4 DEF ActiveIsAccepted
<1>3. ASSUME NEW p \in Proc, Body(p) PROVE ActiveIsAccepted' /\ LocalInv'
  <2>1. pc[p] \in Critical /\ UNCHANGED stolen BY <1>3, BodyIsCritical, Locations
  <2>2. CASE stolen BY <2>1, <2>2 DEF LocalInv, ActiveIsAccepted
  <2>3. CASE ~stolen
    <3>1. ActiveIsAccepted' /\ Local(p)' BY <1>3, <2>3, BodyStep DEF LocalInv
    <3>2. ASSUME NEW q \in Proc, q # p PROVE Local(q)'
      <4>1. pc[q] \notin Critical BY <2>1, <2>3, <3>2, Alone
      <4>2. pc'[q] \notin Critical BY <1>3, <3>2, <4>1, Others DEF Step
      <4> QED BY <4>2, Locations DEF Local, Returning, HasLatest, HasCached, Working, Critical
    <3> QED BY <3>1, <3>2 DEF LocalInv
  <2> QED BY <2>2, <2>3
<1> QED BY <1>1, <1>2, <1>3 DEF Next, Step

-----------------------------------------------------------------------------
\* Every step preserves the invariant.
THEOREM StepInvariant == IInv /\ [Next]_vars => IInv'
BY TypeStep, LockStep, DownloadStep, VerifiedStep, LocalStep DEF IInv

\* The invariant holds in every reachable state.
THEOREM Invariant == Spec => []IInv
BY InitInvariant, StepInvariant, PTL DEF Spec

\* Every variable has its type, whatever the processes, releases and bounds.
THEOREM TypeCorrect == Spec => []TypeOK
<1>1. IInv => TypeOK BY DEF IInv
<1> QED BY <1>1, Invariant, PTL

\* The pointer never names a release directory that is absent or holds another
\* generation, even when the lock is lost.
THEOREM ActiveVerified == Spec => []ActiveReleaseIsVerified
<1>1. IInv => ActiveReleaseIsVerified BY DEF IInv
<1> QED BY <1>1, Invariant, PTL

\* The update lock excludes, until the file of a live holder is unlinked.
THEOREM Exclusion == Spec => []MutualExclusion
<1>1. IInv => MutualExclusion BY DEF IInv, LockInv, MutualExclusion
<1> QED BY <1>1, Invariant, PTL

\* The accepted state is never behind the pointer.
THEOREM AcceptedIsAhead == Spec => []ActiveIsAccepted
<1>1. IInv => ActiveIsAccepted BY DEF IInv
<1> QED BY <1>1, Invariant, PTL

\* A successful call returns the release that is active when it gives up the lock.
THEOREM ReturnsActive == Spec => []ReturnsActiveRelease
<1>1. IInv => ReturnsActiveRelease BY DEF IInv, LocalInv, Local, ReturnsActiveRelease
<1> QED BY <1>1, Invariant, PTL

-----------------------------------------------------------------------------
\* What the channel served is at least what had been accepted, and a call that
\* leaves an accepted release behind says when to try again; neither depends on
\* the lock, as both are about the call's own variables.
Retried(p) ==
  /\ pc[p] \in HasLatest => Acceptable(latest[p], acceptedBy[p])
  /\ Returning(p) /\ Pending(acceptedBy[p], cachedBy[p]) /\ Returned(p) = cachedBy[p]
       => result[p].until <= args[p].now + RetryInterval

RetryInv == \A p \in Proc : Retried(p)

\* While an accepted release is pending, the check state only defers the next
\* check by a retry time within the retry interval.
LEMMA DeadlineWhilePending ==
  ASSUME NEW c \in CheckFile, NEW acc, NEW cached, NEW t \in Nat, Pending(acc, cached),
         NextCheckDeadline(c, cached, t, Pending(acc, cached)) # Never
  PROVE  NextCheckDeadline(c, cached, t, Pending(acc, cached)) <= t + RetryInterval
<1>1. c.retryAfter \in Nat BY Fields
<1> QED BY <1>1, BoundsAssumption DEF NextCheckDeadline

\* The steps of the try block, one by one.
LEMMA RetryBody ==
  ASSUME NEW p \in Proc, TypeOK, DownloadInv, Retried(p), Body(p)
  PROVE  Retried(p)'
<1> USE DEF TypeOK, HasLatest, Goto, Finish, Result
<1>1. CASE LoadCached(p) \/ StepFails(p)
  <2>1. pc'[p] = "loadAccepted" \/ (pc'[p] = "release" /\ result'[p].how = "failed")
    BY <1>1 DEF LoadCached, StepFails, Fail
  <2> QED BY <2>1 DEF Retried, Returning, Succeeded
<1>2. CASE LoadAccepted(p)
  <2> DEFINE cached == cachedBy[p]
  <2> DEFINE acc == AcceptedOrCached(accepted, cached)
  <2>1. /\ acceptedBy'[p] = acc /\ cachedBy'[p] = cached /\ args'[p] = args[p]
        /\ pc'[p] \notin HasLatest
    BY <1>2 DEF LoadAccepted, Fail
  <2>2. ASSUME Returning(p)', Pending(acc, cached)
        PROVE  result'[p].until <= args[p].now + RetryInterval
    <3> DEFINE deadline == NextCheckDeadline(check, cached, args[p].now, Pending(acc, cached))
    <3>1. deadline # Never /\ result'[p].until = deadline
      <4>1. PICK until :
              /\ until = IF cached = NoRelease \/ args[p].force THEN Never ELSE deadline
              /\ Fail(p) \/ (until # Never /\ Finish(p, "fresh", until)) \/ Goto(p, "latest")
        BY <1>2, Zenon DEF LoadAccepted
      <4> HIDE DEF deadline
      <4>2. ~Fail(p) /\ ~Goto(p, "latest")
        BY <2>2 DEF Fail, Returning, Succeeded
      <4>3. until # Never /\ result'[p].until = until
        BY <4>1, <4>2
      <4> QED BY <4>1, <4>3
    <3>2. check \in CheckFile /\ args[p].now \in Nat BY Fields
    <3> QED BY <2>2, <3>1, <3>2, DeadlineWhilePending, Zenon
  <2> QED BY <2>1, <2>2 DEF Retried
<1>3. CASE DownloadLatest(p)
  <2>1. \/ pc'[p] = "release" /\ result'[p].how = "failed"
        \/ /\ pc'[p] \in {"manifest", "accept"}
           /\ Acceptable(latest'[p], acceptedBy'[p])
    BY <1>3 DEF DownloadLatest, Fail
  <2> QED BY <2>1 DEF Retried, Returning, Succeeded
<1>4. CASE WriteAccepted(p) \/ DownloadArtifact(p) \/ PublishDirectory(p)
  BY <1>4 DEF WriteAccepted, DownloadArtifact, PublishDirectory, callVars, Retried, Returning
<1>5. CASE DownloadManifest(p) \/ WriteCurrent(p)
  <2>1. \/ pc'[p] = "release" /\ result'[p].how = "failed"
        \/ pc'[p] \in {"checked", "artifact"} /\ pc[p] \in HasLatest
    BY <1>5 DEF DownloadManifest, WriteCurrent, Fail
  <2>2. latest'[p] = latest[p] /\ acceptedBy'[p] = acceptedBy[p]
    BY <1>5 DEF DownloadManifest, WriteCurrent
  <2> QED BY <2>1, <2>2 DEF Retried, Returning, Succeeded
<1>6. CASE WriteCheck(p)
  <2>1. /\ pc'[p] = "release" /\ result'[p].how \in {"checked", "installed"}
        /\ latest'[p] = latest[p] /\ cachedBy'[p] = cachedBy[p] /\ acceptedBy'[p] = acceptedBy[p]
    BY <1>6 DEF WriteCheck
  <2>2. latest[p] \in Releases /\ Acceptable(latest[p], acceptedBy[p])
    BY <1>6 DEF WriteCheck, Retried, DownloadInv
  <2>3. ASSUME Pending(acceptedBy[p], cachedBy[p]), latest[p] = cachedBy[p] PROVE FALSE
    <3>1. acceptedBy[p] \in Releases /\ cachedBy[p] \in Releases
          /\ acceptedBy[p].v > cachedBy[p].v
      BY <2>3 DEF Pending, MaybeRelease
    <3> QED BY <2>2, <2>3, <3>1, Sentinels DEF Acceptable
  <2> QED BY <2>1, <2>3 DEF Retried, Returned
<1>7. CASE NetworkError(p)
  <2>1. pc'[p] = "fallback" \/ (pc'[p] = "release" /\ result'[p].how = "failed")
    BY <1>7 DEF NetworkError, Fail
  <2> QED BY <2>1 DEF Retried, Returning, Succeeded
<1>8. CASE NetworkFallback(p)
  <2>1. /\ pc'[p] = "release" /\ args'[p] = args[p]
        /\ result'[p].until = args[p].now + RetryInterval
    BY <1>8 DEF NetworkFallback
  <2>2. args[p].now + RetryInterval \in Nat BY Fields, BoundsAssumption
  <2> QED BY <2>1, <2>2 DEF Retried
<1> QED
  BY <1>1, <1>2, <1>3, <1>4, <1>5, <1>6, <1>7, <1>8 DEF Body

\* A step of any other kind neither ends a call nor changes what it returns.
LEMMA RetryStep == TypeOK /\ DownloadInv /\ RetryInv /\ [Next]_vars => RetryInv'
<1> SUFFICES ASSUME TypeOK, DownloadInv, RetryInv, [Next]_vars, NEW q \in Proc PROVE Retried(q)'
  BY DEF RetryInv
<1>0. CASE UNCHANGED vars \/ Tick \/ LockExpires
  BY <1>0 DEF vars, callVars, Tick, LockExpires, RetryInv, Retried, Returning, Returned
<1>1. ASSUME NEW p \in Proc, Begin(p) \/ Step(p) \/ Crash(p), p # q PROVE Retried(q)'
  <2>1. /\ pc'[q] = pc[q] /\ cachedBy'[q] = cachedBy[q] /\ acceptedBy'[q] = acceptedBy[q]
        /\ latest'[q] = latest[q] /\ result'[q] = result[q] /\ args'[q] = args[q]
    BY <1>1, Others
  <2> QED BY <2>1 DEF RetryInv, Retried, Returning, Returned
<1>2. CASE Begin(q) \/ Crash(q) \/ Acquire(q)
  <2>1. pc'[q] \notin HasLatest /\ pc'[q] \notin {"release", "unlock"}
    BY <1>2 DEF TypeOK, Goto, Leave, HasLatest, Begin, Crash, Acquire, CreateLock, LockExists,
       WriteToken, TokenWriteFails, InspectLock, UnlinkStale
  <2> QED BY <2>1 DEF Retried, Returning
<1>3. CASE Release(q)
  <2>1. \/ pc'[q] = "idle"
        \/ pc[q] = "release" /\ pc'[q] = "unlock" /\ UNCHANGED callVars
    BY <1>3 DEF TypeOK, Goto, Leave, Release, ReadOwnToken, Unlock
  <2> QED BY <2>1 DEF callVars, HasLatest, RetryInv, Retried, Returning, Returned
<1>4. CASE Body(q)
  BY <1>4, RetryBody DEF RetryInv
<1> QED
  BY <1>0, <1>1, <1>2, <1>3, <1>4 DEF Next, Step

\* A release that was accepted but not activated is tried again within the retry
\* interval, with any number of updaters and though locks are stolen.
THEOREM PendingRetried == Spec => []PendingIsRetried
<1>1. Init => RetryInv
  BY DEF Init, RetryInv, Retried, Returning, HasLatest
<1>2. IInv => TypeOK /\ DownloadInv
  BY DEF IInv
<1>3. RetryInv => PendingIsRetried
  BY DEF RetryInv, Retried, PendingIsRetried
<1> QED
  BY <1>1, <1>2, <1>3, RetryStep, Invariant, PTL DEF Spec

-----------------------------------------------------------------------------
\* A completed check is dated before now, and so is every call.  The last conjunct
\* needs one updater: another one may complete a check after a call has begun and
\* before it reads the check state.
CheckIsPast ==
  check.rel # NoRelease /\ check.retryAfter = 0 =>
    /\ check.checkedAt \in Nat /\ check.checkedAt <= clock
    /\ \A p \in Proc : pc[p] \in Waiting \cup {"token", "loadCached", "loadAccepted"} =>
         check.checkedAt <= args[p].now

DueInv == ~stolen /\ (\A p \in Proc : args[p].now <= clock) /\ CheckIsPast

\* Whoever waited for the lock: a call that is dated after the last completed check
\* asks the channel when the interval since that check is over.
LEMMA DecisionIsDue ==
  ASSUME TypeOK, LocalInv, ~stolen, NEW p \in Proc, LoadAccepted(p), AsksUnforced(p),
         check.checkedAt \in Nat, check.checkedAt <= args[p].now, args[p].now <= clock
  PROVE  clock - check.checkedAt >= CheckInterval
<1> DEFINE cached == cachedBy[p]
           acc == AcceptedOrCached(accepted, cached)
           until == NextCheckDeadline(check, cached, args[p].now, Pending(acc, cached))
<1> USE DEF AsksUnforced
<1>1. cached = current /\ cached # NoRelease
  BY DEF LoadAccepted, LocalInv, Local, HasCached
<1>2. cached \in Releases /\ cached.v \in Nat
  BY <1>1, Sentinels DEF TypeOK, MaybeRelease
<1>3. ~Pending(acc, cached)
  BY <1>2 DEF AcceptedOrCached, Pending
<1>4. until = Never
  <2> HIDE DEF until
  <2>1. pc \in [Proc -> Location] BY DEF TypeOK
  <2> QED BY <1>1, <2>1 DEF LoadAccepted, Fail, Finish, Goto, until
<1>5. args[p].now \in Nat /\ clock \in Nat
  BY Fields DEF TypeOK
<1>6. ~(args[p].now - check.checkedAt < CheckInterval)
  <2>1. ASSUME args[p].now - check.checkedAt < CheckInterval PROVE FALSE
    <3>1. check.checkedAt # Never /\ check.checkedAt + CheckInterval # Never
      BY SentinelAssumption, BoundsAssumption
    <3>2. until = check.checkedAt + CheckInterval
      BY <1>3, <2>1, <3>1 DEF NextCheckDeadline
    <3> QED BY <1>4, <3>1, <3>2
  <2> QED BY <2>1
<1> QED BY <1>5, <1>6, BoundsAssumption

\* One updater takes the lock of nobody alive, and dates its calls one after another.
LEMMA DueStep ==
  ASSUME NEW p, Proc = {p}, TypeOK, DownloadInv, LockInv, DueInv, [Next]_vars
  PROVE  DueInv'
<1> USE DEF TypeOK
<1>0. CASE UNCHANGED vars
  BY <1>0 DEF vars, fileVars, callVars, DueInv, CheckIsPast
<1>1. CASE Tick \/ LockExpires
  <2>1. clock' \in Nat /\ clock' >= clock /\ UNCHANGED <<check, pc, args, stolen>>
    BY <1>1 DEF Tick, LockExpires, fileVars, callVars
  <2>2. \A q \in Proc : args[q].now \in Nat BY Fields
  <2> QED BY <2>1, <2>2 DEF DueInv, CheckIsPast
<1>2. CASE Begin(p)
  BY <1>2 DEF Begin, Goto, fileVars, DueInv, CheckIsPast
<1>3. CASE TokenWriteFails(p) \/ Crash(p) \/ ReadOwnToken(p) \/ Unlock(p)
  <2>1. ~stolen'
    <3>1. CASE Unlock(p) BY <1>3, <3>1, Sentinels DEF Unlock, DueInv, HolderIsLive, LockFile
    <3> QED BY <1>3, <3>1 DEF TokenWriteFails, Crash, ReadOwnToken, DueInv
  <2>2. /\ UNCHANGED <<check, clock>>
        /\ args'[p] = args[p] \/ args'[p] = NoArgs
        /\ pc'[p] \in {"idle", "unlock"}
    BY <1>3 DEF TokenWriteFails, Crash, ReadOwnToken, Unlock, Leave, Goto, fileVars, callVars
  <2> QED BY <2>1, <2>2 DEF DueInv, CheckIsPast, NoArgs, Waiting
<1>4. CASE CreateLock(p) \/ LockExists(p) \/ WriteToken(p) \/ InspectLock(p) \/ UnlinkStale(p) \/ LoadCached(p)
  <2>1. ~stolen'
    <3>1. CASE UnlinkStale(p)
      <4>1. ~HolderIsLive
        BY <3>1 DEF UnlinkStale, HolderIsLive, LockFile, Critical, Working
      <4> QED BY <3>1, <4>1 DEF UnlinkStale, DueInv
    <3> QED BY <1>4, <3>1 DEF CreateLock, LockExists, WriteToken, InspectLock, LoadCached, DueInv
  <2>2. /\ UNCHANGED <<check, clock>> /\ pc[p] \in Waiting \cup {"token", "loadCached", "loadAccepted"}
        /\ args'[p] = args[p] \/ (args'[p] = NoArgs /\ pc'[p] = "idle")
    BY <1>4 DEF CreateLock, LockExists, WriteToken, InspectLock, UnlinkStale, LoadCached,
       Leave, Goto, fileVars, callVars, Waiting
  <2> QED BY <2>1, <2>2 DEF DueInv, CheckIsPast, NoArgs, Waiting
<1>5. CASE WriteCheck(p)
  <2>1. /\ check' = [rel |-> latest[p], checkedAt |-> args[p].now, retryAfter |-> 0]
        /\ UNCHANGED <<clock, args, stolen>> /\ pc'[p] = "release"
    BY <1>5 DEF WriteCheck, Finish, Goto
  <2>2. args[p].now \in Nat BY Fields
  <2> QED BY <2>1, <2>2 DEF DueInv, CheckIsPast, Waiting
<1>6. CASE NetworkFallback(p)
  <2>1. check'.retryAfter = args[p].now + RetryInterval /\ UNCHANGED <<clock, args, stolen>>
    BY <1>6 DEF NetworkFallback
  <2>2. args[p].now + RetryInterval # 0 BY Fields, BoundsAssumption
  <2> QED BY <2>1, <2>2 DEF DueInv, CheckIsPast
<1>7. CASE \/ LoadAccepted(p) \/ DownloadLatest(p) \/ WriteAccepted(p) \/ DownloadManifest(p)
           \/ DownloadArtifact(p) \/ PublishDirectory(p) \/ WriteCurrent(p)
           \/ NetworkError(p) \/ StepFails(p)
  <2>1. UNCHANGED <<check, clock, args, stolen>>
    BY <1>7 DEF LoadAccepted, DownloadLatest, WriteAccepted, DownloadManifest, DownloadArtifact,
       PublishDirectory, WriteCurrent, NetworkError, StepFails, fileVars, callVars
  <2>2. pc'[p] \notin Waiting \cup {"token", "loadCached", "loadAccepted"}
    BY <1>7 DEF LoadAccepted, DownloadLatest, WriteAccepted, DownloadManifest, DownloadArtifact,
       PublishDirectory, WriteCurrent, NetworkError, StepFails, Fail, Finish, Goto, Waiting
  <2> QED BY <2>1, <2>2 DEF DueInv, CheckIsPast
<1> QED
  BY <1>0, <1>1, <1>2, <1>3, <1>4, <1>5, <1>6, <1>7
  DEF Next, Step, Acquire, Body, Release

\* Where one process updates, the channel is asked only when the interval since the
\* last completed check of the active release is over, though calls are killed and
\* repeated.  With two processes this fails, as a call is dated before it waits.
THEOREM OneUpdaterChecksWhenDue ==
  ASSUME NEW updater, Proc = {updater}
  PROVE  Spec => NoCheckBeforeDue
<1>1. Init => DueInv
  BY DEF Init, DueInv, CheckIsPast, NoCheck, NoArgs
<1>2. IInv /\ DueInv /\ [Next]_vars => DueInv'
  BY DueStep DEF IInv
<1>3. ASSUME IInv, DueInv, [Next]_vars, NEW q \in Proc, AsksUnforced(q)
      PROVE  clock - check.checkedAt >= CheckInterval
  <2>1. LoadAccepted(q)
    <3>1. ~UNCHANGED vars BY <1>3 DEF vars, AsksUnforced
    <3>2. pc \in [Proc -> Location] /\ Proc = {q} BY <1>3 DEF IInv, TypeOK
    <3> QED
      BY <1>3, <3>1, <3>2 DEF Next, Step, Acquire, Body, Release, Tick, LockExpires, Begin, Crash,
         CreateLock, LockExists, WriteToken, TokenWriteFails, InspectLock, UnlinkStale, LoadCached,
         DownloadLatest, WriteAccepted, DownloadManifest, DownloadArtifact, PublishDirectory,
         WriteCurrent, WriteCheck, NetworkError, NetworkFallback, StepFails, ReadOwnToken, Unlock,
         Leave, Fail, Finish, Goto, AsksUnforced
  <2>2. cachedBy[q] # NoRelease
    BY <1>3 DEF AsksUnforced, IInv, DueInv, LocalInv, Local, HasCached
  <2>3. /\ TypeOK /\ LocalInv /\ ~stolen /\ args[q].now <= clock
        /\ check.checkedAt \in Nat /\ check.checkedAt <= args[q].now
    BY <1>3, <2>2 DEF AsksUnforced, IInv, DueInv, CheckIsPast, Waiting
  <2> QED BY <1>3, <2>1, <2>3, DecisionIsDue DEF AsksUnforced
<1>4. IInv /\ DueInv /\ [Next]_vars => [AsksWhenDue]_vars
  BY <1>3 DEF AsksWhenDue
<1> QED
  BY <1>1, <1>2, <1>4, Invariant, PTL DEF Spec, NoCheckBeforeDue

-----------------------------------------------------------------------------
\* Only the try block of the updater writes the two pointer files, and while the
\* lock is not stolen each write is a step of the abstract register.
LEMMA RegisterStep ==
  IInv /\ [Next]_vars => [stolen' \/ Register!Next]_<<accepted, current>>
<1> SUFFICES ASSUME IInv, [Next]_vars, ~stolen', ~UNCHANGED <<accepted, current>>
             PROVE  Register!Next
  OBVIOUS
<1> USE DEF IInv, fileVars
<1>1. PICK p \in Proc : Body(p)
  BY OuterStep DEF Next, Step, vars, Tick, LockExpires, Begin, Crash, Acquire, CreateLock,
     LockExists, WriteToken, TokenWriteFails, InspectLock, UnlinkStale, Release, ReadOwnToken,
     Unlock
<1>2. ~stolen /\ Local(p) BY <1>1, BodyIsCritical DEF LocalInv
<1>3. CASE WriteAccepted(p)
  <2>1. latest[p] \in Releases BY <1>3 DEF WriteAccepted, DownloadInv, HasLatest
  <2>2. Register!Adopt(latest[p])
    BY <1>2, <1>3 DEF WriteAccepted, Local, Register!Adopt
  <2> QED BY <2>1, <2>2 DEF Register!Next
<1>4. CASE WriteCurrent(p)
  <2>1. latest[p] \in Releases /\ latest[p] = accepted
    BY <1>2, <1>4 DEF WriteCurrent, DownloadInv, Local, HasLatest
  <2>2. Register!Activate
    BY <1>4, <2>1, Sentinels DEF WriteCurrent, Register!Activate
  <2> QED BY <2>2 DEF Register!Next
<1> QED
  BY <1>1, <1>3, <1>4 DEF Body, LoadCached, LoadAccepted, DownloadLatest, DownloadManifest,
     DownloadArtifact, PublishDirectory, WriteCheck, NetworkError, NetworkFallback, StepFails

\* The updater implements the register of ReleaseRegister: the trusted and the
\* active release only move forward, and only what is trusted becomes active.
THEOREM Implements == Spec => ImplementsRegister
<1>1. Init => Register!Init BY DEF Init, Register!Init
<1> QED BY <1>1, Invariant, RegisterStep, PTL DEF Spec, ImplementsRegister
=============================================================================
