--------------------------- MODULE BinaryExecutor ---------------------------
(***************************************************************************)
(* BinaryExecutor of src/executors/binary.ts with the path resolution of   *)
(* src/cli/resolver.ts: one executor object, any number of callers of      *)
(* execute and executeSync.  JavaScript runs one caller at a time, from    *)
(* one await to the next (thread); what the callers share are the fields   *)
(* of the executor and the module variable managedResolution, and they     *)
(* read both before an await and use them after it.  Other processes       *)
(* replace the CLI at any moment, also while JavaScript runs.              *)
(*                                                                         *)
(* A binary is a number, a later one replaces an earlier one; it stands    *)
(* for executableIdentity (path, device, inode, size, times), for the      *)
(* generation of a managed release and for the capabilities this binary    *)
(* reports.  With an explicit path (Managed = FALSE) the file is replaced  *)
(* in place; a managed release has a directory of its own, which stays,    *)
(* and the pointer locker.current.json moves.                              *)
(***************************************************************************)
EXTENDS Naturals

CONSTANTS
  Caller,       \* the calls that may be in progress at a time
  NoCaller,
  Managed,      \* TRUE: no explicit path, the CLI is a managed release
  Modes,        \* which calls are made: "sync", "private", "shared"
  Expiring,     \* the modes whose calls may reach their deadline or be aborted
  VersionOf,    \* binary -> CLI version it reports
  Lacking,      \* binaries without the requested method
  MaxInstalls,  \* bound: how many binaries there are
  MaxFaults     \* bound: failed resolutions and protocol exchanges in a run

Binary == 1 .. MaxInstalls
None == 0

ASSUME CallersAssumption == NoCaller \notin Caller
ASSUME ModesAssumption ==
  /\ Managed \in BOOLEAN
  /\ Modes \subseteq {"sync", "private", "shared"} /\ Expiring \subseteq Modes
ASSUME BinariesAssumption ==
  /\ MaxInstalls \in Nat \ {0} /\ MaxFaults \in Nat
  /\ DOMAIN VersionOf = Binary /\ Lacking \subseteq Binary

VARIABLES
  installed,  \* the binary at the explicit path, or the one the pointer names
  managed,    \* managedResolution: [path, fresh], fresh until nextCheckAtMs
  binary,     \* binaryPath and binaryIdentity
  caps,       \* capabilities, as the binary that reported them
  capsOf,     \* capabilityIdentity
  promise,    \* capabilityPromise: [by, how, caps], by the caller that made it
  thread,     \* the caller whose JavaScript is running
  pc,         \* where each call is
  mode,       \* execute with options (private), without (shared), executeSync
  again,      \* the second refresh of the call has begun
  over,       \* the deadline has passed, or the signal is aborted
  held,       \* the local variable `capabilities`
  negId,      \* negotiationIdentity and identityBefore
  joined,     \* whose negotiation the call waits for
  answer,     \* what the awaited negotiation came to: [how, caps]
  rpc,        \* where the call's protocol exchange is
  seen,       \* the pointer as the verification of the exchange read it
  bound,      \* binding.identity
  ran,        \* the binary that was really spawned
  outcome,    \* how the call ends
  faults

executorVars == <<binary, caps, capsOf, promise>>
worldVars == <<installed, managed>>
rpcVars == <<rpc, seen, bound, ran>>
localVars == <<mode, again, over, held, negId, joined, answer>>
vars == <<worldVars, executorVars, thread, pc, localVars, rpcVars, outcome, faults>>

(***************************************************************************)
(* Values and helpers                                                      *)
(***************************************************************************)
Answer(how, b) == [how |-> how, caps |-> b]
Pending == Answer("pending", None)
NoPromise == [by |-> NoCaller, how |-> "pending", caps |-> None]

CanRun(c) == thread \in {NoCaller, c}

\* An await hands the thread to whoever is ready; executeSync never awaits.
Yield(c) == thread' = IF mode[c] = "sync" THEN c ELSE NoCaller

Goto(c, l) == pc' = [pc EXCEPT ![c] = l]
End(c, how) ==
  /\ outcome' = [outcome EXCEPT ![c] = how]
  /\ Goto(c, "done")
  /\ thread' = NoCaller

\* executableIdentity of a path that was resolved to b earlier.
IdentityOf(b) == IF Managed THEN b ELSE installed

\* Mutant: the negotiation in progress survives.
AdoptKeepingPromise(b) == binary' = b /\ caps' = None /\ capsOf' = None /\ UNCHANGED promise

\* The executor meets another binary: everything cached about the old one goes.
Adopt(b) ==
  /\ binary' = b
  /\ caps' = None
  /\ capsOf' = None
  /\ promise' = NoPromise

Fault == faults < MaxFaults /\ faults' = faults + 1

(***************************************************************************)
(* Initial state: the constructor has resolved the first binary.           *)
(***************************************************************************)
Init ==
  /\ installed = 1
  /\ managed = [path |-> 1, fresh |-> TRUE]
  /\ binary = 1
  /\ caps = None
  /\ capsOf = None
  /\ promise = NoPromise
  /\ thread = NoCaller
  /\ pc = [c \in Caller |-> "idle"]
  /\ mode = [c \in Caller |-> "private"]
  /\ again = [c \in Caller |-> FALSE]
  /\ over = [c \in Caller |-> FALSE]
  /\ held = [c \in Caller |-> None]
  /\ negId = [c \in Caller |-> None]
  /\ joined = [c \in Caller |-> NoCaller]
  /\ answer = [c \in Caller |-> Pending]
  /\ rpc = [c \in Caller |-> "none"]
  /\ seen = [c \in Caller |-> None]
  /\ bound = [c \in Caller |-> None]
  /\ ran = [c \in Caller |-> None]
  /\ outcome = [c \in Caller |-> "none"]
  /\ faults = 0

(***************************************************************************)
(* execute and executeSync                                                 *)
(***************************************************************************)
Call(c) ==
  /\ pc[c] = "idle" /\ thread = NoCaller
  /\ \E m \in Modes : mode' = [mode EXCEPT ![c] = m]
  /\ Goto(c, "refresh")
  /\ thread' = c
  /\ UNCHANGED <<worldVars, executorVars, again, over, held, negId, joined, answer,
                 rpcVars, outcome, faults>>

\* remainingOptions throws.
OutOfTime(c) ==
  /\ pc[c] \in {"refresh", "ensure", "send"} /\ CanRun(c)
  /\ over[c]
  /\ End(c, "timeout")
  /\ UNCHANGED <<worldVars, executorVars, localVars, rpcVars, faults>>

\* Mutant: the call keeps the capabilities it has, whatever the refresh found.
AfterRefreshAnyway(c, cs) == IF again[c] THEN "send" ELSE "ensure"

\* Where the call goes after a refresh that left the capabilities cs.
AfterRefresh(c, cs) == IF again[c] /\ cs = held[c] THEN "send" ELSE "ensure"

\* refreshBinaryIdentity, with a path that needs no update helper.
Refresh(c) ==
  LET observed == IF Managed THEN managed.path ELSE installed IN
  /\ pc[c] = "refresh" /\ CanRun(c) /\ ~over[c]
  /\ Managed => managed.fresh
  /\ \/ /\ observed = binary
        /\ Goto(c, AfterRefresh(c, caps))
        /\ UNCHANGED executorVars
     \/ /\ observed # binary
        /\ Adopt(observed)
        /\ Goto(c, AfterRefresh(c, None))
  /\ thread' = c
  /\ UNCHANGED <<worldVars, localVars, rpcVars, outcome, faults>>

\* resolveDefaultCLIPath after nextCheckAtMs: the update helper runs, and may
\* install the next release.
RefreshWithUpdate(c) ==
  /\ pc[c] = "refresh" /\ CanRun(c) /\ ~over[c]
  /\ Managed /\ ~managed.fresh
  /\ \E b \in {installed, installed + 1} \cap Binary :
       /\ installed' = b
       /\ managed' = [path |-> b, fresh |-> TRUE]
       /\ \/ b = binary /\ Goto(c, AfterRefresh(c, caps)) /\ UNCHANGED executorVars
          \/ b # binary /\ Adopt(b) /\ Goto(c, AfterRefresh(c, None))
  /\ thread' = c
  /\ UNCHANGED <<localVars, rpcVars, outcome, faults>>

\* The file is missing, not executable, or the helper fails closed.
ResolutionFails(c) ==
  /\ pc[c] = "refresh" /\ CanRun(c)
  /\ Fault
  /\ End(c, "failed")
  /\ UNCHANGED <<worldVars, executorVars, localVars, rpcVars>>

\* ensureCapabilities returned: the second refresh, then the request.
Proceed(c) ==
  /\ Goto(c, IF again[c] THEN "send" ELSE "refresh")
  /\ again' = [again EXCEPT ![c] = TRUE]
  /\ Yield(c)

(***************************************************************************)
(* ensureCapabilities and ensureCapabilitiesSync                           *)
(***************************************************************************)
CapabilitiesCached == caps # None /\ capsOf = binary

UseCached(c) ==
  /\ pc[c] = "ensure" /\ CanRun(c) /\ ~over[c]
  /\ CapabilitiesCached
  /\ held' = [held EXCEPT ![c] = caps]
  /\ Proceed(c)
  /\ UNCHANGED <<worldVars, executorVars, mode, over, negId, joined, answer, rpcVars,
                 outcome, faults>>

\* Mutant: the negotiation of a caller with a timeout of its own is shared too.
NegotiateForAll(c) ==
  /\ pc[c] = "ensure" /\ CanRun(c) /\ ~over[c]
  /\ ~CapabilitiesCached
  /\ mode[c] = "shared" => promise = NoPromise
  /\ caps' = None /\ capsOf' = None
  /\ promise' = IF mode[c] # "sync" THEN [NoPromise EXCEPT !.by = c] ELSE promise
  /\ negId' = [negId EXCEPT ![c] = binary]
  /\ joined' = [joined EXCEPT ![c] = c]
  /\ answer' = [answer EXCEPT ![c] = Pending]
  /\ rpc' = [rpc EXCEPT ![c] = "bind"]
  /\ Goto(c, "await")
  /\ Yield(c)
  /\ UNCHANGED <<worldVars, binary, mode, again, over, held, seen, bound, ran, outcome,
                 faults>>

\* The call starts a negotiation; without options of its own it is the shared
\* one.
Negotiate(c) ==
  /\ pc[c] = "ensure" /\ CanRun(c) /\ ~over[c]
  /\ ~CapabilitiesCached
  /\ mode[c] = "shared" => promise = NoPromise
  /\ caps' = None /\ capsOf' = None
  /\ promise' = IF mode[c] = "shared" THEN [by |-> c, how |-> "pending", caps |-> None] ELSE promise
  /\ negId' = [negId EXCEPT ![c] = binary]
  /\ joined' = [joined EXCEPT ![c] = c]
  /\ answer' = [answer EXCEPT ![c] = Pending]
  /\ rpc' = [rpc EXCEPT ![c] = "bind"]
  /\ Goto(c, "await")
  /\ Yield(c)
  /\ UNCHANGED <<worldVars, binary, mode, again, over, held, seen, bound, ran, outcome,
                 faults>>

\* The call awaits the shared negotiation of another one, which may be settled.
Join(c) ==
  /\ pc[c] = "ensure" /\ CanRun(c) /\ ~over[c]
  /\ ~CapabilitiesCached
  /\ mode[c] = "shared" /\ promise # NoPromise
  /\ caps' = None /\ capsOf' = None
  /\ negId' = [negId EXCEPT ![c] = binary]
  /\ joined' = [joined EXCEPT ![c] = promise.by]
  /\ answer' = [answer EXCEPT ![c] = Answer(promise.how, promise.caps)]
  /\ Goto(c, IF promise.how = "pending" THEN "await" ELSE "settled")
  /\ Yield(c)
  /\ UNCHANGED <<worldVars, binary, promise, mode, again, over, held, rpcVars, outcome,
                 faults>>

\* The awaited negotiation succeeded, and the executor still has the binary it
\* had when the call began to wait.
Negotiated(c) ==
  /\ pc[c] = "settled" /\ CanRun(c)
  /\ answer[c].how = "ok" /\ negId[c] = binary
  /\ caps' = IF mode[c] = "private" /\ caps # None THEN caps ELSE answer[c].caps
  /\ capsOf' = IF mode[c] = "private" /\ capsOf # None THEN capsOf ELSE negId[c]
  /\ held' = [held EXCEPT ![c] = caps']
  /\ Proceed(c)
  /\ UNCHANGED <<worldVars, binary, promise, mode, over, negId, joined, answer, rpcVars,
                 outcome, faults>>

\* Mutant: the rejected promise stays.
NegotiationLostForGood(c) ==
  /\ pc[c] = "settled" /\ CanRun(c)
  /\ answer[c].how # "ok" \/ negId[c] # binary
  /\ End(c, IF answer[c].how = "timeout" THEN "timeout" ELSE "failed")
  /\ UNCHANGED <<worldVars, executorVars, localVars, rpcVars, faults>>

\* It failed, or the executor has another binary by now.  A shared caller
\* drops the promise of the executor, whichever that is now.
NegotiationLost(c) ==
  /\ pc[c] = "settled" /\ CanRun(c)
  /\ answer[c].how # "ok" \/ negId[c] # binary
  /\ promise' = IF mode[c] = "shared" THEN NoPromise ELSE promise
  /\ End(c, IF answer[c].how = "timeout" THEN "timeout" ELSE "failed")
  /\ UNCHANGED <<worldVars, binary, caps, capsOf, localVars, rpcVars, faults>>

\* requireMethod and encodeRequest, then runRPC.
Send(c) ==
  /\ pc[c] = "send" /\ CanRun(c) /\ ~over[c]
  /\ \/ /\ held[c] \notin Lacking
        /\ rpc' = [rpc EXCEPT ![c] = "bind"]
        /\ Goto(c, "request")
        /\ Yield(c)
        /\ UNCHANGED outcome
     \/ held[c] \in Lacking /\ End(c, "failed") /\ UNCHANGED rpc
  /\ UNCHANGED <<worldVars, executorVars, localVars, seen, bound, ran, faults>>

(***************************************************************************)
(* runRPC and runRPCSync, for a negotiation or for the request             *)
(***************************************************************************)
\* The negotiation of c settles, for everyone who awaits it.
Wake(c, result) ==
  LET waiting == {d \in Caller : pc[d] = "await" /\ joined[d] = c} IN
  /\ pc' = [d \in Caller |-> IF d \in waiting THEN "settled" ELSE pc[d]]
  /\ answer' = [d \in Caller |-> IF d \in waiting THEN result ELSE answer[d]]
  /\ Yield(c)
  /\ UNCHANGED outcome

\* negotiateCapabilities, after the exchange: the executable is looked at again.
NegotiationResult(c, how, b) ==
  CASE how = "ok" /\ IdentityOf(binary) = negId[c] -> Answer("ok", b)
    [] how = "timeout" -> Answer("timeout", None)
    [] OTHER -> Answer("failed", None)

\* The exchange of c is over: a request goes on with its result, a negotiation
\* settles.
ExchangeEnds(c, how, b) ==
  LET result == NegotiationResult(c, how, b) IN
  /\ rpc' = [rpc EXCEPT ![c] = "none"]
  /\ \/ /\ pc[c] = "await"
        /\ Wake(c, result)
        /\ promise' = IF mode[c] = "shared" /\ promise.by = c
                      THEN [by |-> c, how |-> result.how, caps |-> result.caps]
                      ELSE promise
     \/ /\ pc[c] = "request"
        /\ \/ how = "ok" /\ Goto(c, "reply") /\ Yield(c) /\ UNCHANGED outcome
           \/ how # "ok" /\ End(c, how)
        /\ UNCHANGED <<answer, promise>>

\* The verifier reads the pointer.  Its input and output may be done while the
\* JavaScript of another call runs.
ReadPointer(c) ==
  /\ rpc[c] = "bind"
  /\ seen' = [seen EXCEPT ![c] = installed]
  /\ rpc' = [rpc EXCEPT ![c] = "verify"]
  /\ UNCHANGED <<worldVars, executorVars, thread, pc, localVars, bound, ran, outcome, faults>>

\* The binary that finalizeExecutionBinding finds.
Resolved(c) == IF Managed THEN seen[c] ELSE installed

\* Mutant: the path stays as the last update left it.
ResolveForThisCall(c) == UNCHANGED managed

\* The verification is done: managedResolution takes what it found.
Resolve(c) == managed' = IF Managed THEN [path |-> seen[c], fresh |-> managed.fresh] ELSE managed

Bind(c) ==
  /\ rpc[c] = "verify" /\ CanRun(c)
  /\ Resolve(c)
  /\ Resolved(c) = binary /\ ~over[c]
  /\ bound' = [bound EXCEPT ![c] = binary]
  /\ rpc' = [rpc EXCEPT ![c] = "spawn"]
  /\ Yield(c)
  /\ UNCHANGED <<installed, executorVars, pc, localVars, seen, ran, outcome, faults>>

\* "changed before the protocol operation": the executor adopts what it found.
BindElsewhere(c) ==
  /\ rpc[c] = "verify" /\ CanRun(c)
  /\ Resolve(c)
  /\ Resolved(c) # binary
  /\ Adopt(Resolved(c))
  /\ rpc' = [rpc EXCEPT ![c] = "none"]
  /\ \/ pc[c] = "await" /\ Wake(c, Answer("failed", None))
     \/ pc[c] = "request" /\ End(c, "failed") /\ UNCHANGED answer
  /\ UNCHANGED <<installed, mode, again, over, held, negId, joined, seen, bound, ran, faults>>

\* runner.run: what is started is what the path holds now.
Spawn(c) ==
  /\ rpc[c] = "spawn" /\ CanRun(c)
  /\ ran' = [ran EXCEPT ![c] = IdentityOf(bound[c])]
  /\ rpc' = [rpc EXCEPT ![c] = "run"]
  /\ Yield(c)
  /\ UNCHANGED <<worldVars, executorVars, pc, localVars, seen, bound, outcome, faults>>

\* Mutant: the executable is not looked at again.
ReplyOfAnyBinary(c) ==
  /\ rpc[c] = "run" /\ CanRun(c)
  /\ ExchangeEnds(c, "ok", ran[c])
  /\ UNCHANGED <<worldVars, binary, caps, capsOf, mode, again, over, held, negId, joined,
                 seen, bound, ran, faults>>

\* A well-formed result arrives; the executable must still be the bound one.
Reply(c) ==
  /\ rpc[c] = "run" /\ CanRun(c)
  /\ ExchangeEnds(c, IF IdentityOf(bound[c]) = bound[c] THEN "ok" ELSE "failed", ran[c])
  /\ UNCHANGED <<worldVars, binary, caps, capsOf, mode, again, over, held, negId, joined,
                 seen, bound, ran, faults>>

\* The provenance check, the process or its answer is at fault.
ExchangeFails(c) ==
  /\ rpc[c] # "none" /\ CanRun(c)
  /\ Fault
  /\ ExchangeEnds(c, "failed", None)
  /\ UNCHANGED <<worldVars, binary, caps, capsOf, mode, again, over, held, negId, joined,
                 seen, bound, ran>>

\* Mutant: the process of a negotiation runs without a timeout.
RequestTimesOut(c) ==
  /\ rpc[c] # "none" /\ CanRun(c)
  /\ over[c]
  /\ pc[c] = "request" \/ rpc[c] # "run"
  /\ ExchangeEnds(c, "timeout", None)
  /\ UNCHANGED <<worldVars, binary, caps, capsOf, mode, again, over, held, negId, joined,
                 seen, bound, ran, faults>>

\* The timer or the signal of the exchange's own caller ends it.
ExchangeTimesOut(c) ==
  /\ rpc[c] # "none" /\ CanRun(c)
  /\ over[c]
  /\ \/ UNCHANGED managed
     \/ rpc[c] = "verify" /\ Resolved(c) = binary /\ Resolve(c)
  /\ ExchangeEnds(c, "timeout", None)
  /\ UNCHANGED <<installed, binary, caps, capsOf, mode, again, over, held, negId, joined,
                 seen, bound, ran, faults>>

\* requireCLIVersion and the last look at the deadline.
Finish(c) ==
  /\ pc[c] = "reply" /\ CanRun(c)
  /\ End(c, CASE VersionOf[ran[c]] # VersionOf[held[c]] -> "failed"
              [] VersionOf[ran[c]] = VersionOf[held[c]] /\ over[c] -> "timeout"
              [] OTHER -> "ok")
  /\ UNCHANGED <<worldVars, executorVars, localVars, rpcVars, faults>>

\* The call returns, its local variables are gone.
Return(c) ==
  /\ pc[c] = "done"
  /\ Goto(c, "idle")
  /\ mode' = [mode EXCEPT ![c] = "private"]
  /\ again' = [again EXCEPT ![c] = FALSE]
  /\ over' = [over EXCEPT ![c] = FALSE]
  /\ held' = [held EXCEPT ![c] = None]
  /\ negId' = [negId EXCEPT ![c] = None]
  /\ joined' = [joined EXCEPT ![c] = NoCaller]
  /\ answer' = [answer EXCEPT ![c] = Pending]
  /\ seen' = [seen EXCEPT ![c] = None]
  /\ bound' = [bound EXCEPT ![c] = None]
  /\ ran' = [ran EXCEPT ![c] = None]
  /\ outcome' = [outcome EXCEPT ![c] = "none"]
  /\ UNCHANGED <<worldVars, executorVars, thread, rpc, faults>>

(***************************************************************************)
(* The environment                                                         *)
(***************************************************************************)
\* Another process replaces the file, or installs the next managed release.
Install ==
  /\ installed < MaxInstalls
  /\ installed' = installed + 1
  /\ UNCHANGED <<managed, executorVars, thread, pc, localVars, rpcVars, outcome, faults>>

\* nextCheckAtMs passes.
CheckDue ==
  /\ Managed /\ managed.fresh
  /\ managed' = [path |-> managed.path, fresh |-> FALSE]
  /\ UNCHANGED <<installed, executorVars, thread, pc, localVars, rpcVars, outcome, faults>>

Deadline(c) ==
  /\ pc[c] \notin {"idle", "done"} /\ mode[c] \in Expiring /\ ~over[c]
  /\ over' = [over EXCEPT ![c] = TRUE]
  /\ UNCHANGED <<worldVars, executorVars, thread, pc, mode, again, held, negId, joined,
                 answer, rpcVars, outcome, faults>>

(***************************************************************************)
(* Specification                                                           *)
(***************************************************************************)
Prepare(c) == OutOfTime(c) \/ Refresh(c) \/ RefreshWithUpdate(c) \/ ResolutionFails(c)
Ensure(c) ==
  UseCached(c) \/ Negotiate(c) \/ Join(c) \/ Negotiated(c) \/ NegotiationLost(c)
Exchange(c) ==
  \/ ReadPointer(c) \/ Bind(c) \/ BindElsewhere(c) \/ Spawn(c) \/ Reply(c)
  \/ ExchangeFails(c) \/ ExchangeTimesOut(c)

Next ==
  \/ \E c \in Caller :
       \/ Call(c) \/ Prepare(c) \/ Ensure(c) \/ Send(c) \/ Exchange(c) \/ Finish(c)
       \/ Return(c) \/ Deadline(c)
  \/ Install \/ CheckDue

Spec == Init /\ [][Next]_vars
(***************************************************************************)
(* Fairness: the event loop runs what is ready, every deadline comes, and  *)
(* finished calls are followed by new ones.  Nothing makes the CLI answer. *)
(***************************************************************************)
Running(c) ==
  Prepare(c) \/ Ensure(c) \/ Send(c) \/ Bind(c) \/ BindElsewhere(c) \/ Spawn(c)
  \/ ExchangeTimesOut(c) \/ Finish(c)
Fairness ==
  \A c \in Caller :
    /\ SF_vars(Running(c)) /\ WF_vars(Return(c)) /\ WF_vars(Deadline(c))
FairSpec == Spec /\ Fairness

\* The CLI answers, and somebody keeps calling.
LiveSpec ==
  /\ FairSpec
  /\ \A c \in Caller : WF_vars(ReadPointer(c)) /\ SF_vars(Reply(c)) /\ SF_vars(Call(c))

(***************************************************************************)
(* Properties                                                              *)
(***************************************************************************)
MaybeBinary == Binary \cup {None}
Hows == {"pending", "ok", "failed", "timeout"}
Answers == [how : Hows, caps : MaybeBinary]

TypeOK ==
  /\ installed \in Binary /\ managed \in [path : Binary, fresh : BOOLEAN]
  /\ binary \in Binary /\ caps \in MaybeBinary /\ capsOf \in MaybeBinary
  /\ promise \in [by : Caller \cup {NoCaller}, how : Hows, caps : MaybeBinary]
  /\ thread \in Caller \cup {NoCaller}
  /\ pc \in [Caller -> {"idle", "refresh", "ensure", "await", "settled", "send",
                        "request", "reply", "done"}]
  /\ mode \in [Caller -> {"sync", "private", "shared"}]
  /\ again \in [Caller -> BOOLEAN] /\ over \in [Caller -> BOOLEAN]
  /\ held \in [Caller -> MaybeBinary] /\ negId \in [Caller -> MaybeBinary]
  /\ joined \in [Caller -> Caller \cup {NoCaller}]
  /\ answer \in [Caller -> Answers]
  /\ rpc \in [Caller -> {"none", "bind", "verify", "spawn", "run"}]
  /\ seen \in [Caller -> MaybeBinary] /\ bound \in [Caller -> MaybeBinary]
  /\ ran \in [Caller -> MaybeBinary]
  /\ outcome \in [Caller -> {"none", "ok", "failed", "timeout"}]
  /\ faults \in Nat

\* A result that reaches the caller was produced by the very binary whose
\* provenance was verified for this exchange, though the file can be replaced
\* between the verification and the spawn.
ResultFromVerifiedBinary ==
  \A c \in Caller : outcome[c] = "ok" => ran[c] = bound[c]

\* At an explicit path, a call is about to send its request only with capabilities
\* of the binary that the executor has at this moment: whoever meets another one
\* after the negotiation negotiates again (binary.ts:371-376, 420-424).  A
\* synchronous call, which nobody overtakes, has its result from this very binary;
\* the verification of an asynchronous one awaits, and may end with a later one.
ResultFitsCapabilities ==
  [][\A c \in Caller :
       /\ pc[c] # "send" /\ pc'[c] = "send" => held'[c] = binary'
       /\ mode[c] = "sync" /\ outcome[c] # "ok" /\ outcome'[c] = "ok" => ran[c] = held[c]]_vars

\* Cached capabilities were reported by the binary whose identity is cached with
\* them, and that is the binary of the executor: whoever meets another one drops
\* them (README.md: "Cached capabilities are discarded when a file-backed CLI
\* identity changes").
CachedCapabilitiesAreOwn == caps # None => caps = capsOf /\ capsOf = binary

\* A request runs on the binary whose capabilities limited its size and depth
\* and allowed its method (CHANGELOG.md: "invalidate cached capabilities when the
\* active binary identity changes").
RequestRunsOnNegotiatedBinary ==
  \A c \in Caller : pc[c] = "request" /\ rpc[c] = "run" => ran[c] = held[c]

\* A call times out by its own deadline, or because the negotiation it waits for
\* did; and the deadline of one call only reaches another when both share the
\* default negotiation (binary.ts: "A caller-specific signal/timeout must never
\* poison unrelated concurrent callers. Only the default negotiation is shared").
TimeoutReachesSharers ==
  [][\A c \in Caller :
       /\ outcome[c] # "timeout" /\ outcome'[c] = "timeout" =>
            over[c] \/ answer[c].how = "timeout"
       /\ answer[c].how # "timeout" /\ answer'[c].how = "timeout" =>
            LET by == joined'[c] IN
            over[by] /\ (by = c \/ (mode[by] = "shared" /\ mode[c] = "shared"))]_vars

\* A settled negotiation that failed does not stay in capabilityPromise, where
\* every later shared call would join it and fail too.
FailedNegotiationIsForgotten ==
  (promise.how \in {"failed", "timeout"}) ~> (promise.how \notin {"failed", "timeout"})

\* Every call comes to its end, also when the CLI never answers: a waiting call
\* has a negotiation with a deadline behind it.
EveryCallEnds == \A c \in Caller : pc[c] # "idle" ~> pc[c] = "idle"

\* When the installations stop, the executor ends up with the binary that is
\* installed, and stays with it, though a verification that began before the
\* last installation takes it back to the one before.
ExecutorFindsInstalledBinary == <>[](binary = installed)
=============================================================================
