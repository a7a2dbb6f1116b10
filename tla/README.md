# Verification of the Locker Secrets SDK for JavaScript

TLA+ specifications of the parts of this SDK that are hard to test: processes
that share files, calls that share an executor, a child process that dies at the
wrong moment, a release job that runs twice, requests whose answers are lost,
downloads that are cut, files that two functions must read alike. TLC checks them
on small instances; TLAPS proves the most important safety properties for every
value of the constants. Paths below are relative to the root of the repository.

    tlc -workers 2 -config MCManagedInstall_updaters.cfg MCManagedInstall.tla
    tlapm ManagedInstallProofs.tla

## 1. Inventory

The SDK is a thin, careful client: it installs a signed CLI binary, starts it
once per request, talks JSON-RPC to it over pipes and maps the answer to objects
and error classes. It keeps no data of its own. The state is in the file system
(the managed installation), in the executor object and in the CLI's processes.

| Component | State it keeps | Operations | What is hard |
|---|---|---|---|
| Managed CLI updater, `scripts/install-cli.mjs` | five files of the installation directory: lock, accepted, current, check, `releases/<version>` | `installManagedCLI`, `verifyManagedCLI` | several Node processes; kill between any two writes; a channel that replays; stale locks; two intervals of time |
| CLI resolver, `src/cli/resolver.ts` | module variable `managedResolution` | `resolveCLIPath*`, `verifyResolvedCLI*` | awaits between reading and storing the path |
| Protocol executor, `src/executors/binary.ts` | `binaryPath`, `binaryIdentity`, `capabilities`, `capabilityPromise` | `execute`, `executeSync` | calls interleave at every await; the binary is replaced under them; shared negotiation with one deadline |
| Process runner, `src/executors/process.ts` | one exchange: buffers, timers, listeners | `run`, `runSync` with its helper program | event order, process groups, signals that are ignored, pipes held by descendants, secrets in buffers |
| Locker facade, `src/locker.ts` | credentials, options | get/retrieve/list/create/modify for secrets and environments, import, export | the vault changes under the call; lost answers; an import that fails half way |
| Error catalogue, `src/abstraction/errors.ts`, `protocol/locker-rpc-errors.v1.json` | none | `errorFromResponse`, `isLocker...Error` | codes and kinds of old and new CLI releases; which errors may be retried |
| Release pipeline, `scripts/release.mjs`, `.gitlab-ci.yml` | tags, GitLab releases, npm | the commands of the `auto_release` job | several jobs at once, retries, lost answers, late visibility |
| Download, `downloadBuffer` of `scripts/install-cli.mjs` | one transfer: pieces in memory, two timers, listeners | fetch a release document or the binary | event order, framing, cut and overlong bodies, peers that drip |
| JSON readers, `src/utils/json.ts` and its copies in `scripts/install-cli.mjs`, `scripts/verify-release.mjs` | none | parse, limit the depth, write canonically | three copies, levels counted from different starts, fields spelled in two ways |
| Import and export files, `src/utils/import.ts`, `files.ts` | none | parse and write dotenv files; write JSON and text | two passes over a quoted value must agree; quoting and escaping |
| Release verifier, `scripts/verify-release.mjs` | none | take the npm package apart and compare it with the source | bytes that the check skips and another program unpacks |
| Converters, resources, logger, types | none | validate, redact, log | field by field |
| Supply-chain check, build and test scripts | none | sequential checks and commands | nothing concurrent |

Interactions. `Locker` calls `BinaryExecutor.execute`; the executor asks the
resolver for the binary (which starts the updater as a child process when the
installation is due for a check), verifies it, and hands one request to the
process runner, which owns the CLI process until it is gone. The updater talks
to the other updaters of the machine only through the files of the installation
directory. The release pipeline is what fills the npm registry; it shares no
state with the SDK at run time. What the updater downloads goes through
`downloadBuffer`, `parseStrictJSON` and `canonicalJSON` to `verifyEnvelope`; what
the CLI answers through another copy of the reader; a file to import through
`readUTF8FileBounded` to `parseImport`.

What makes each part correct:

* Updater: the pointer names a verified release only; what was accepted is never
  taken back or exchanged; an interrupted update is completed; one updater works
  at a time; nobody asks the channel earlier or much later than due.
* Executor: a result comes from the binary that was verified; a request is shaped by
  the capabilities of the binary the executor has; a deadline ends no call that does
  not share its negotiation; every call ends; a new binary is
  noticed.
* Process runner: an accepted response is complete and from a process that ended
  well; nothing goes on running; no secret stays in a buffer; one outcome, always.
* Facade: an import is a prefix of its file; a refusal has had no effect; absence
  is real; only transient errors are retryable.
* Pipeline: versions in order; exactly the tested bytes; every merge is released.
* Inputs: a download settles and hands on only what is whole; a signed document is
  read only as the bytes that were signed; the readers accept the grammar within
  their limit and nothing else; an export can be imported; a package holds the
  reviewed source and nothing beside it.

`PROJECT.json` lists the hazards at their lines and the properties that cover them.

## 2. Modules

| Module | Models | Composition |
|---|---|---|
| `ManagedInstall` | `installManagedCLI`, any number of processes | refines `ReleaseRegister` |
| `ReleaseRegister` | what the updater promises: a trusted and an active release that only move forward | abstract specification |
| `BinaryExecutor` | `execute`, `executeSync` and the resolution of the binary, any number of calls of one executor | the process runner is its `spawn`/`run` steps |
| `ProcessTree` | the CLI process, a descendant, their pipes and signals | external; used by the two runners |
| `ProcessExchange` | what the process runner promises: one outcome, a response only of a CLI that ended well, was read to its end and left nothing running | abstract specification |
| `ProcessRunner` | `NodeProcessRunner.run` | extends `ProcessTree`, refines `ProcessExchange` |
| `SyncRunner` | `NodeProcessRunner.runSync` and its helper program | extends `ProcessTree`, refines `ProcessExchange` |
| `ErrorCatalog` | `errors.ts` as operators | |
| `LockerCalls` | the methods of `Locker`, import above all, against a shared vault | extends `ErrorCatalog` |
| `ReleasePipeline` | the commands of the release job, any number of jobs | |
| `Download` | `downloadBuffer` against any peer | |
| `StrictJSON` | the three readers, the depth limits, canonical JSON, `verifyEnvelope` | operators |
| `DotEnv` | `formatSecrets` for dotenv, `parseImport` | operators |
| `PackageArchive` | `parseTar`, `verifyArtifact` | operators |
| `Files` | a file from the first byte to its value: an import, a package | extends `Download`, `DotEnv`, `PackageArchive` |
| `Inputs` | the same of JSON, downloaded or from a file | extends `Files`, `StrictJSON` |
| `MC...` | the finite instances | extend their modules |
| `...Proofs` | theorems and proofs | extend their modules and `TLAPS` |

Operators named "Mutant" in a comment are plausible bugs of the definition they
stand before; no specification uses them. They show that each property can fail.

### ManagedInstall

One variable per file (`lock`, `accepted`, `current`, `check`, `releases`): the
code replaces every file by an atomic rename, so that a file is a value and a
write is a step. Per process, `pc` is the place between two such steps and the
other variables are the locals that survive from one to the next. `Begin` is the
call, `Step` the union of its steps, in the code's order: inspect, wait for and
break the lock, write the token, load the accepted and the current state, fall
back to the check state, download, accept, publish, activate, write the check
state, release. `Crash` kills a process anywhere; failures of single steps and of
the network are steps of their own, bounded by `MaxFaults`. `Tick` is the clock,
`LockExpires` the fifteen minutes of a lock file. Breaking a stale lock is two
steps, as in the code (look, then unlink by name); `stolen` is a history variable
which says that this unlinked the lock of a live process.

A release is a version and a generation. The generation stands for the manifest's
digest, its size and the source commit, which the code compares as a whole.
Signatures, canonical JSON and archive contents are abstracted to "this directory
verifies as that release" (`Verified`).

### BinaryExecutor

JavaScript runs one call from one await to the next: `thread` is the call that
runs, and only that call moves until it awaits. The shared fields are `managed`,
`binary`, `caps`/`capsOf` and `promise`; per call, `pc` is the phase (refresh,
ensure capabilities, await the shared negotiation, send, request) and `rpc` the
position within one exchange (bind the binary, verify, spawn, run). `Install` is
another process replacing the binary, at any moment, also while JavaScript runs
a synchronous exchange. A binary is a number that stands for its identity and for
the capabilities it reports; `VersionOf` maps it to its version, so that a
rebuilt binary of the same version is a case.

### ProcessTree, ProcessRunner, SyncRunner

One action per handler: the `data` listeners, `error`, `close`, the stdin error,
the abort listener, the timer and the force timer. `ProcessTree` lets the CLI
write, fork, exit, ignore SIGTERM or leave a descendant that holds the pipes.
Output is counted in pieces; one piece beyond a limit is counted and no more. In
`SyncRunner` the caller, the helper and the CLI run concurrently; the exit status
of the helper carries its failure to the caller.

`ProcessExchange` knows no handlers, signals or helper. The refinement mappings
(`Exchange == INSTANCE ProcessExchange WITH ...` in both runners) say which parts
of a runner are its `outcome`, its `request`, its `unread` and `taken` pieces. The
two runners share no code in the repository; that they implement one specification
is what makes `execute` and `executeSync` interchangeable.

### LockerCalls, ErrorCatalog

A call is one request to the CLI, an import a sequence of them. The vault is the
set of secrets and environments that exist (external; taken from what the SDK
does with the answers). `OtherApplication` changes it at any moment. A request
can fail before it reaches the vault (`RequestFails`), after it has taken effect
(`AnswerLost`), or be given up and arrive later (`GiveUp`, `LateRequest`). The
answer is what `errorFromResponse` makes of code, kind and hint.

### ReleasePipeline

A merge is its first-parent distance from the baseline; its version is that
distance added to the version in its `package.json` (`base`), which a merge may
raise or lower. A job is a merge and an instance; its `pc` follows the commands in
the job's script. npm
stores the first build of a version and serves it later (`Expose`); tags and
releases are at origin. `Fail` is any failing command or lost runner, `retry`
starts the job again. A tag may have been set by hand before.

### Download, StrictJSON, DotEnv, PackageArchive, Files, Inputs

`Download` has one action per listener of the request, the response and the two
timers. The peer chooses the framing, the declared length, the body and where it
stops. The outcome tells an `UpdateNetworkError` from other errors, because only
after the first may the updater reuse its cached release. Sizes are counted in
pieces; a piece is a token of the document.

The three modules of operators read data. `StrictJSON` has one parser with the
parameters in which the three copies differ (`SDK`, `Verifier`, `Installer`:
limit, first level, strings and numbers that are read); the text is a sequence of
tokens, among them two spellings of one string; a number is a token that stands for
its value. `DotEnv` works on characters,
where `Letters` is the set of those a key may have and all others stand for
themselves. `PackageArchive` works on blocks of two numbers. A loop is a function of
its states, and its round an operator that stands still where the code leaves the
loop (`Scan`, `Decode`, `ReadStatement`, `Round`, `ParseItem`): so each can be checked
and be proved about. What calls itself in the code is a function too. `parseValue`
passes its depth on, so that `ParseLevels` is a function of the levels that are left,
whose value says what is read at each offset of the text; the writers
(`assertJSONDepth`, `validateJSONValue`, `canonicalValue`, `JSON.stringify`) are
functions of the value they go through. A value is a tree of at most `Levels` levels,
more than any limit.

The grammar the readers are compared with knows no parser: `IsText` takes a text apart
at its commas, any of them, and its parts again, and asks that every part is a value
and no name is there twice. `Said` is what is left of a text without white space and
escapes.

`Files` and `Inputs` start with an input of some kind, read it (a download or a
file), hand the bytes to their reader and keep the verdict, the value and what the
input had been made from. `FileStep`, the part of `Files`, is a disjunct of
`Inputs!Next`; a file meets no other, so that `Reading` is what happens to it.
`Taking` is what happens to any input.

## 3. Runs

| Run | Instance | What it shows |
|---|---|---|
| `updaters` | two processes, two versions (one with two generations), two faults, locks that can expire under their holder | whoever crashes wherever and however the lock is lost, the pointer names a verified directory; while no lock was stolen: mutual exclusion, and the two pointer files implement `ReleaseRegister` |
| `recovery` | one process over five instants, two faults | the channel is asked when the interval is over and not before (both ends of both intervals); a pending release is tried again within the retry interval; results name the active release, also of a call that falls back on a network error while a newer release is accepted but not active; a dead lock is removed; an accepted release becomes active |
| `replaced` | two calls, an explicit path replaced twice, the middle binary lacking the method, deadlines of every call | results come from the verified binary; a call sends its request only with capabilities of the binary the executor has then, and a synchronous result is that binary's; cached capabilities are the cached binary's; a deadline ends its own call and those that share the default negotiation with it, no other |
| `ending` | two calls of a CLI that need not answer, one failing step, deadlines of every call | every call ends; a failed shared negotiation is not joined by later calls |
| `settling` | two calls, one update of a managed CLI | the executor ends up with the installed binary, though a slow verification can take it back in between |
| `exchange` | three pieces of output, limits two and one | `run` implements `ProcessExchange`, wipes secrets, settles, and ends the process tree |
| `sync_exchange` | the same of `runSync` | `runSync` implements `ProcessExchange`, wipes secrets, returns, and the CLI has ended by then; helper, caller and CLI are three processes |
| `sync_survivor` | (violation) | a synchronous timeout does not always end the tree, section 5 |
| `rollback` | (violation) two waiters of one stale lock | breaking a stale lock is not atomic, section 5 |
| `releases` | two merges, the second with a `package.json` that says the same, a lower or a higher version, two instances of each job, two possible builds, one fault, at most one tag set by hand | order of versions without gaps and without a version of two merges, `latest`, releases, exact bytes; every merge is released |
| `imports` | one call after another, two environments, files of three items and with a duplicate, every error of the protocol catalogue with either hint, one fault | import is a prefix, definite refusals have had no effect, absence was real, retryable errors are transient |
| `inputs` | documents in every framing, cut or overrun anywhere; JSON values up to four levels with limits of two and three, each also with one token changed, lost or added; dotenv texts and lists of secrets; packages of up to three files, some with one number changed, lost or added | downloads settle and hand on only what is whole; what is accepted as signed is the signed text; readers accept the grammar and nothing else; imports read exports; lines stay separate; a package holds only the source |

The type invariants are not among the properties of the runs: they are proved
(section 6).

Why the bounds are enough. The updaters compete for one lock and one pair of
pointers; what goes wrong needs one that holds or lost the lock and one that
waits, two is that. Two versions and a second generation of the newer are the
smallest set with a replay, an equivocation and an upgrade. The clock is coarse:
`CheckInterval` 2 and `RetryInterval` 1 make "in this second", "exactly the
interval ago" and "one more" different instants; `MaxTime` 4 is two intervals.
The executor's calls exchange only the cache and one promise: a negotiating call,
one that joins it, and a binary replaced before and after it. In the process
runners one piece below, at and above the limit are the cases of a counter.
Two merges are a predecessor and a successor; two instances a lost runner and its
replacement; with the first merge at version 2 of 3 the second can go below, stay
or go above, and a tag set by hand matters at the two versions a line without a
change has (`MCInit`). A JSON text fails by the token it has too many, too few or
wrong, and the limits 2 and 3 have values one level below, at and above them for
either way of counting. The calls of `LockerCalls` share nothing but the vault and
`OtherApplication` is every other call, so that one call at a time is general.

Symmetry (processes, callers) is used only in runs without liveness properties.
`CHECK_DEADLOCK FALSE` is set for the two process runners and the release
pipeline: an exchange that is over, and a history of merges all released, stop.

## 4. Fairness

* `ManagedInstall!FairSpec`: a running process takes its next step, time passes,
  lock files age, the SDK goes on being used. The channel is strongly fair only
  in serving, when asked again and again, the release it had served before.
* `BinaryExecutor!FairSpec`: the event loop runs what is ready. Strong fairness,
  because only one call runs at a time and another can always be first. Every
  exchange has a deadline (`ExchangeTimesOut`), which is a timer of the code.
  Nothing makes the CLI answer. `LiveSpec` adds that it does and that calls go on
  being made: what the executor ends up with is only decided by calls. In `settling`
  no call reaches its deadline (`Expiring`): if all did, none would learn of the
  update. In the other two runs every call may, as `executionBudget` gives it one.
* Process runners: the event loop handles due timers and events; a process that
  got SIGKILL is gone. The CLI itself is not fair: it may hang.
  `TreeIsTerminated` is about a host that is still there when the timer is due.
* `ReleasePipeline!FairSpec`: main goes on, polling ends, failed jobs are retried,
  npm serves in the end what it stored. `EveryMergeIsReleased` also assumes that
  packing the same commit gives the same bytes (`Reproducible`), that no tag
  was set by hand and that `package.json` keeps its version: without the first, a
  retried job finds other bytes on npm and fails for good, as it should; without
  the last, see section 5.
* `Inputs!FairSpec`: the absolute timer of a download fires (`OnDeadline`, an
  explicit `setTimeout` of the code), and what was handed on is read. The peer is
  not fair: it may stop or drip for ever.

## 5. Divergences

Two are runs that TLC finds violated; `findings` in `PROJECT.json` quotes the lines.

* `rollback`: `acquireLock` looks at a stale lock file (1186-1191) and unlinks it
  by name (1192). Two waiters that both looked: the second unlinks the new lock
  of the first, and the older accepted state overwrites the newer.
* `sync_survivor`: the helper clears its force timer when the CLI has closed
  (150); a descendant that ignores SIGTERM stays after a synchronous timeout.

Known divergences that have no run of their own. The first five are properties
that fail on a larger instance or without their condition; the others were met
while modelling and are transitions of the models:

* `NoCheckBeforeDue` with two processes (`OneEach`, `CheckInterval` 3, `MaxTime`
  1): `nowSeconds` is read before the wait for the lock (1902), so that the
  second of two waiters asks the channel again. README.md:42-43 says "Neither path
  performs a network check unless the normal update deadline is due."
* `CachedCapabilitiesAreOwn` with three calls of a managed CLI, private and
  shared, `Versions2`: `identityBefore` belongs to the path the executor had
  before an await (binary.ts:588). README.md:214-215.
* `RequestRunsOnNegotiatedBinary` (proved for one caller, not a property of a run)
  with two shared calls of a managed CLI: limits are taken before the verification
  awaits (binary.ts:379). CHANGELOG.md:29-30.
* `TreeIsTerminated` without its condition on the host (`node = "server"`): the
  force timer is unref'ed (process.ts:323), and a host with nothing else to do
  exits before the SIGKILL. README.md:205-206.
* `EveryMergeIsReleased` without its condition on `base`: a merge that raises or
  lowers the version in `package.json` waits for a predecessor tag that belongs to
  no merge (release.mjs:223-260), and every later merge waits for it. README.md:356-357
  says "Every accepted two-parent merge into protected `main` automatically
  publishes one stable patch release."
* The shared negotiation runs on the deadline of the call that happened to begin it
  (binary.ts:518), and ends the calls that joined it later before their own deadline:
  `TimeoutReachesSharers` allows this and nothing more, as the comment at
  binary.ts:499-500 speaks of "unrelated" callers and excepts the default negotiation.
* Overlong body without a Content-Length: `response.destroy()` emits `aborted`
  before the `data` handler calls `finish` itself (install-cli.mjs:912-923), so that
  the download ends as an `UpdateNetworkError` and the updater may reuse its cached
  release (`Download!OnData`). README.md:353-355 says "Only an actual transport
  failure may reuse a previously and fully reverified cache."
* Refused status: `response.resume()` is all that ends the response (886) and the
  absolute timer is off by then; a peer that goes on sending keeps the helper process
  alive until the timeout of its spawn (`Download!IgnoredEnds` has no fairness).
* `KEY= # comment` is imported as the value `# comment`: the value is trimmed
  before the comment is looked for with the space in front of it (import.ts:91-126).
* `validateJSONValue` counts levels from 0, the reader beside it from 1: the
  installer may write a value that it would not read. What it does write is far
  below the limit.

## 6. Proofs

TLAPS checks these for all values of the constants, from the assumptions the
modules state: `ReleasesAssumption`, `BoundsAssumption`, `SentinelAssumption`;
`ChunksAssumption`, `LimitsAssumption`; `MergesAssumption`, `BuildsAssumption`;
`NamesAssumption`, `FilesAssumption`, `ErrorsAssumption`; `CallersAssumption`,
`ModesAssumption`, `BinariesAssumption`; `DownloadAssumption`; `LettersAssumption`;
`JSONAssumption`.
They say that bounds are natural numbers and that "none" is no value;
`BoundsAssumption` also that the retry interval is positive and not longer than the
check interval, `LettersAssumption` that no white space, quote, escaped or
punctuation character is one of a key (`ENVIRONMENT_KEY` of `import.ts`), and
`JSONAssumption` that the installer's limit is not beyond the SDK's (`JSON_DEPTH` and
`MAX_JSON_DEPTH`), that the plain spelling of a string is its own and has the same
characters, and that atoms are no marks.

* `ManagedInstallProofs`. The inductive invariant adds to the type invariant what
  the processes know of each other: `LockInv` (who is in the critical section owns
  the lock file, unless one was stolen), `DownloadInv` (the release a process has
  downloaded), `LocalInv` (while no lock was stolen, the copies of accepted and
  current that a process in the critical section holds are those of the files, at
  each place of its program). From it: `MutualExclusion`, `ActiveIsAccepted`,
  `ReturnsActiveRelease` and, step by step, `ImplementsRegister`.
  `ActiveReleaseIsVerified` holds with stolen locks too: a directory never changes
  once it is renamed into place. So does `PendingRetried`, by an invariant of its
  own (`RetryInv`): what a call returns about a pending release is computed from its
  own copies, and `NextCheckDeadline` never defers a pending release beyond the retry
  interval. `NoCheckBeforeDue` is proved where one process updates
  (`OneUpdaterChecksWhenDue`), by `DueInv`: a completed check is dated before every
  call that has not decided yet. That is what a second process breaks (section 5);
  `DecisionIsDue` says that nothing else can.
* `ProcessRunnerProofs`, `SyncRunnerProofs`. The life of the CLI is ordered
  (`LifeIsOrdered`), output is counted up to one piece beyond the limit, and the
  stages of the helper say which failures and signals are behind it (`Stages`).
  From it: secrets are wiped, the CLI has ended when `runSync` returns, and, step by
  step, both runners implement `ProcessExchange` (`Implements`): every handler is a
  step of the exchange or a stutter. That a response is of a CLI that ended well and
  was read to its end, and that an outcome stays, is a consequence for either runner.
* `ReleasePipelineProofs`. `JobsAreRight` says what a job has established at each
  place, `VersionsAgree` what tag, release and package of a version say of each
  other, `LatestIsNewest` that `latest` is the newest published version. The
  induction needs that what a job established is stable under all other jobs. As
  `package.json` may say anything, a version is not one merge's by construction:
  a job that has seen its predecessor is in line (`OrderedInLine`: all merges before
  it have the versions before its own, published and tagged at themselves), nothing
  undoes that (`InLineStays`), a version is in line with one merge only
  (`InLineUnique`), and a published version is tagged at that merge or not yet
  (`OwnedInLine`).
* `LockerCallsProofs`. First the error catalogue, for every integer code and every
  kind: a retryable error is of a transient class, and the `is...Error` predicates
  agree with the classes. Then the calls, any number at a time. The invariant of a
  call (`CallInv`) counts how far an import is at each of its places, says that the
  vault acts on a request once at most and that the call then has its answer or a
  doubtful error (`Applied`), and that what is absent now has been noted
  (`Absent`). A step of one call, of the vault or of another application leaves
  the invariant of the other calls alone (`Bystander`). `ErrorsAssumption` says
  that "not found" comes from the vault only.
* `BinaryExecutorProofs`. A later binary has a greater number, and the file at an
  explicit path only moves on. The invariant of a call (`CallInv`) says which places
  of a call have an exchange and which binary is bound to it (`Exchanging`), that
  the binary that was spawned is the bound one or, at an explicit path, a later one
  that is not later than the installed one (`Started`), and that the look at the
  path after the exchange therefore finds the bound binary only when that one ran
  (`Answered`). A step of another call leaves all this alone (`Bystander`).
  Whose deadline ends a call is an invariant of who waits for whom (`Waits`): a call
  waits for its own negotiation, or for that of a call which shares the default one as
  it does; and a shared negotiation that timed out stays in `capabilityPromise` only
  until the call that began it has seen the end of it (`SharedTimedOut`). So
  `TimeoutsReachSharers` holds whichever calls have a deadline.
  Four theorems hold under a condition that they state. At an explicit path the cache
  is the cached binary's for any number of callers (`CallersOwnCache`): the path only
  moves on, so that a negotiation which finds in the end the binary it began with
  finds it in the executor too, and everyone who waited began between the two
  (`InPlace`). With one caller of a managed CLI the cache is the cached binary's
  (`OneCallerOwnsCache`) and a request runs on the binary that was negotiated
  (`OneCallerRunsOnNegotiated`): with more, both fail (section 5), as a managed path
  can move back. At an explicit path a call sends its request with capabilities of the
  binary that the executor has then, and a synchronous call has its result from it
  (`ResultsFitCapabilities`): it keeps the thread, so that nobody makes the executor
  adopt another binary between its last look at the path and the spawn (`Fitting`).
* `DotEnvProofs`, for texts and values of any length over any characters. Induction
  over the rounds of a loop is a lemma about sets of numbers (`Induction` and the
  least element it rests on), as the theorems of the library that take a predicate
  cannot be used. From it, for each loop: what its states are, that it moves on or
  stands still, and where it stops. Then:
  * the two passes agree (`PassesAgree`): `statementEnd` and `decodeQuotedValue` meet
    the same characters with the same escapes, the first over the whole text, the
    second over the statement it was given; what the second accepts ends where the
    first says;
  * what is escaped is decoded (`DecodeEscaped`), one character of the value after
    another, and so an export is imported (`ImportOfExport`): a secret is one
    statement, whatever newlines are in it, and `ReadStatement` goes from one to the
    next. `Exported` says of a secret to export what the code checks: its key is a
    non-empty sequence of letters and its environment the default one;
  * a text and the same text with a line appended are twins (`Twins`): up to the end
    of the shorter, the two loops go through the same states, unless a quote of the
    last statement is open, and then the shorter is refused (`AppendedLine`).
* `InputsProofs`. Downloads: while the body comes, all of it is in memory and within
  the limits; nothing is settled before the connection is over or ignored, and nothing
  happens to what is settled. From it: `AcceptedBytesAreWhole`, for any limit, any
  expected size and any peer. The archive: after each round the entries tile the
  bytes before the offset (`Tiled`, `Sound`), each entry in its place, no two with one
  name, zeros in the padding; at the trailer there are only zeros left
  (`VerifiedIsPacked`). Files: what is kept of a file is the file (`FileInv`), so that
  the theorems about operators become `ImportReadsExport`, `LinesStaySeparate` and
  `PackageHoldsOnlySource` of every state.

  JSON, for texts of any length and values of any depth up to `Levels`. That the
  functions of values, of levels and of rounds satisfy their equations is proved first
  (`TurnsAre`, `ValueRecursion`), and induction over values (`ValueInduction`), both
  from induction over numbers. The reader, the grammar and the writer then meet in one
  relation, `Spells`: from where to where a text spells a value, with a mark before
  each item and one place for each name.
  * The reader is sound and complete (`ReadsLevels`, `ReadsAllLevels`): by induction
    over the levels, and for each over the rounds of the loop, it reads a value if
    and only if the text spells it and it is within the limits of the copy
    (`ReaderIs`). As the value is the reader's, a text spells one at most
    (`SpelledOnce`).
  * What is written of a value spells it (`EncodedIsSpelled`), and a text that spells a
    value says what is written of it (`SpelledIsSaid`): by induction over values.
  * The grammar takes what spells a value within the limits and nothing else
    (`TakesLevels`, `GivesLevels`): the commas that it may choose are the marks of the
    relation, in their order (`RowOfMarks`, `MarksOfRow`). So each copy accepts the
    texts of the grammar (`ReaderIsGrammar`).
  * The installer's second look at the value (`validateJSONValue`, from another level)
    makes its copy the reader of one dialect (`InstallerReadsDialect`).
  * Of a signed document a proper prefix is refused (`EnvelopeIsWhole`): what is
    canonical ends with its only newline, and no prefix has it.

  `JSONInv` and `DocumentInv` carry this to every state (`TextsFollowGrammar`,
  `DocumentsAreWhole`): the verdict is that of the reader on what has come; nothing is
  transferred any more when a download has been accepted (`AcceptedIsOver`), and no
  more has come than was sent (`NoMoreThanSent`).

Only model-checked: liveness (it and `ENABLED` are out of the prover's reach). Every
invariant and every other action property of a passing run is a theorem.
`NoCheckBeforeDue` and `CachedCapabilitiesAreOwn` do not hold beyond the conditions of
their theorems: section 5 names the instances on which they fail.

## 7. Not modelled, and what is left

Not modelled: a helper of `runSync` that writes beyond the limits of its own
`spawnSync` (process.ts:618, 643), or is killed by a signal from elsewhere (647): each
is an error, but in the second case the CLI is not looked for, so that `CLIHasEnded`
speaks of helpers that nobody else kills; Windows (`taskkill`, no process groups); the converters, the resources
and the logger, which copy and check fields without state; list, which changes
nothing; the JSON and text formats of export and the atomic write of its file; the
field-by-field validation in the resolver, in the manifest and in
`verify-release.mjs`; `verify-ci-supply-chain.mjs`, a sequential check that is one
step of a release job; the build scripts. PIDs are not modelled, so that the reuse
of one is not a case. Signatures are "this document verifies"; that the verified
text and the value that is read are the same is `AcceptedDocumentIsWhole`.

The models were written in the order of what depends on what: the updater (files
and crashes), the executor, the process runners, the release pipeline, the calls,
the inputs; the proofs in the same order. What is left:

1. Several merges that reach main in one push and make one pipeline
   (`ReleasePipeline` has a pipeline for every merge), and squashed merges.
2. Credentials that change during an import.
3. A tag that is set by hand while a job runs.
