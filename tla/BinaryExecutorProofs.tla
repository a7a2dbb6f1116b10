------------------------ MODULE BinaryExecutorProofs ------------------------
(***************************************************************************)
(* What a result of BinaryExecutor says of the binary it came from, for    *)
(* any number of callers and of replacements, with an explicit path and    *)
(* with a managed CLI.                                                     *)
(*                                                                         *)
(* The argument: a later binary has a greater number, so that the file at  *)
(* an explicit path moves on between verification, spawn and the look at   *)
(* it after the exchange; when it is the verified one in the end, it was   *)
(* the verified one when it was spawned.                                   *)
(***************************************************************************)
EXTENDS BinaryExecutor, TLAPS

Promises == [by : Caller \cup {NoCaller}, how : Hows, caps : MaybeBinary]

\* Where a protocol exchange is, and what was established so far.
Exchanging(c) ==
  /\ rpc[c] # "none" => pc[c] \in {"await", "request"}
  /\ rpc[c] # "none" /\ pc[c] = "await" => joined[c] = c
  /\ rpc[c] = "verify" => seen[c] \in Binary
  /\ rpc[c] \in {"spawn", "run"} => bound[c] \in Binary /\ (~Managed => bound[c] <= installed)

\* A managed release stays in its directory; the file at an explicit path may
\* be a later one than the one that was bound.
Started(c) ==
  rpc[c] = "run" =>
    /\ ran[c] \in Binary
    /\ Managed => ran[c] = bound[c]
    /\ ~Managed => bound[c] <= ran[c] /\ ran[c] <= installed

\* The exchange is over and has been found to be the bound binary's.
Answered(c) ==
  /\ pc[c] = "reply" => ran[c] = bound[c]
  /\ outcome[c] # "none" => pc[c] = "done"
  /\ outcome[c] = "ok" => ran[c] = bound[c]

CallInv(c) == Exchanging(c) /\ Started(c) /\ Answered(c)

\* The inductive invariant.
IInv == TypeOK /\ \A c \in Caller : CallInv(c)

-----------------------------------------------------------------------------
\* None is no binary, and binaries are numbered from 1.
LEMMA Binaries ==
  /\ Binary \subseteq MaybeBinary /\ None \in MaybeBinary /\ None \notin Binary
  /\ 1 \in Binary /\ Binary \subseteq Nat
  BY BinariesAssumption DEF Binary, MaybeBinary, None

\* An unanswered negotiation and the absence of one have the types of the fields.
LEMMA PendingIsTyped == Pending \in Answers /\ NoPromise \in Promises
  BY Binaries DEF Pending, Answer, Answers, NoPromise, Promises, Hows

\* A call keeps what it has established while the binaries only move on and no
\* other call touches its exchange; another call may wake it.
Untouched(d) ==
  /\ UNCHANGED <<rpc[d], seen[d], bound[d], ran[d], outcome[d], held[d], joined[d]>>
  /\ \/ pc'[d] = pc[d]
     \/ pc[d] = "await" /\ rpc[d] = "none" /\ pc'[d] = "settled"

\* A step that leaves a call untouched keeps its invariant (Untouched).
LEMMA Bystander ==
  ASSUME TypeOK, NEW d \in Caller, CallInv(d), Untouched(d), installed' \in Nat, installed <= installed'
  PROVE  CallInv(d)'
<1>1. installed \in Nat
  BY Binaries DEF TypeOK
<1>2. Exchanging(d)'
  <2>1. bound[d] \in Binary /\ bound[d] <= installed => bound[d] <= installed'
    BY <1>1 DEF Binary
  <2> QED
    BY <2>1 DEF CallInv, Untouched, Exchanging
<1>3. Started(d)'
  <2>1. ran[d] \in Binary /\ ran[d] <= installed => ran[d] <= installed'
    BY <1>1 DEF Binary
  <2> QED
    BY <2>1 DEF CallInv, Untouched, Started
<1>4. Answered(d)'
  BY DEF CallInv, Untouched, Answered, TypeOK
<1> QED
  BY <1>2, <1>3, <1>4 DEF CallInv

\* The invariant holds when the executor has been constructed.
THEOREM InitInvariant == Init => IInv
<1> SUFFICES ASSUME Init PROVE IInv
  OBVIOUS
<1>1. managed \in [path : Binary, fresh : BOOLEAN]
  BY Binaries DEF Init
<1>2. promise \in [by : Caller \cup {NoCaller}, how : Hows, caps : MaybeBinary]
  BY PendingIsTyped DEF Init, Promises
<1>3. TypeOK
  BY <1>1, <1>2, Binaries, PendingIsTyped DEF Init, TypeOK
<1>4. ASSUME NEW c \in Caller PROVE CallInv(c)
  BY DEF Init, CallInv, Exchanging, Started, Answered
<1> QED
  BY <1>3, <1>4 DEF IInv

-----------------------------------------------------------------------------
\* The other calls do not notice.
Alone(c) ==
  \A d \in Caller \ {c} :
    UNCHANGED <<rpc[d], seen[d], bound[d], ran[d], outcome[d], held[d], joined[d], pc[d]>>

MovesOn == installed' \in Nat /\ installed <= installed'

\* A step that installs nothing is a case of MovesOn.
LEMMA Still == ASSUME TypeOK, installed' = installed PROVE MovesOn
  BY DEF TypeOK, MovesOn, Binary

\* A step of one call has to be looked at for that call only.
LEMMA LocalStep ==
  ASSUME IInv, NEW c \in Caller, TypeOK', CallInv(c)', MovesOn, Alone(c)
  PROVE  IInv'
<1>1. ASSUME NEW d \in Caller, d # c PROVE CallInv(d)'
  <2>1. Untouched(d)
    BY <1>1 DEF Alone, Untouched
  <2> QED
    BY <2>1, Bystander DEF IInv, MovesOn
<1> QED
  BY <1>1 DEF IInv

\* A step of a call without a protocol exchange.
LEMMA QuietStep ==
  ASSUME IInv, NEW c \in Caller, TypeOK', MovesOn, Alone(c),
         rpc'[c] = "none", pc'[c] # "reply",
         outcome'[c] = "none" \/ (outcome'[c] \in {"failed", "timeout"} /\ pc'[c] = "done")
  PROVE  IInv'
<1>1. CallInv(c)'
  BY DEF CallInv, Exchanging, Started, Answered
<1> QED
  BY <1>1, LocalStep

\* Which calls have no exchange, and no result yet.
LEMMA Quiet ==
  ASSUME IInv, NEW c \in Caller
  PROVE  /\ pc[c] \notin {"await", "request"} => rpc[c] = "none"
         /\ pc[c] # "done" => outcome[c] = "none"
  BY DEF IInv, CallInv, Exchanging, Answered, TypeOK

\* What a call does before it negotiates: the refresh, with or without an update.
LEMMA PrepareStep == ASSUME IInv, NEW c \in Caller, Prepare(c) PROVE IInv'
<1> USE DEF Goto, End, worldVars, executorVars, localVars, rpcVars
<1>1. CASE OutOfTime(c)
  <2>1. TypeOK'
    BY <1>1 DEF IInv, TypeOK, OutOfTime
  <2>2. /\ rpc'[c] = "none" /\ pc'[c] = "done" /\ outcome'[c] = "timeout" /\ Alone(c)
        /\ installed' = installed
    BY <1>1, Quiet DEF IInv, TypeOK, OutOfTime, Alone
  <2> QED
    BY <2>1, <2>2, QuietStep, Still DEF IInv
<1>2. CASE Refresh(c)
  <2>1. /\ rpc'[c] = "none" /\ pc'[c] \in {"send", "ensure"} /\ outcome'[c] = "none" /\ Alone(c)
        /\ installed' = installed /\ pc' \in [Caller -> {"idle", "refresh", "ensure", "await",
                                             "settled", "send", "request", "reply", "done"}]
    BY <1>2, Quiet DEF IInv, TypeOK, Refresh, AfterRefresh, Alone
  <2>2. binary' \in Binary /\ caps' \in MaybeBinary /\ capsOf' \in MaybeBinary /\ promise' \in Promises
    BY <1>2, Binaries, PendingIsTyped DEF IInv, TypeOK, Promises, Refresh, Adopt
  <2>3. TypeOK'
    BY <1>2, <2>1, <2>2 DEF IInv, TypeOK, Promises, Refresh
  <2> QED
    BY <2>1, <2>3, QuietStep, Still DEF IInv
<1>3. CASE RefreshWithUpdate(c)
  <2>1. PICK b \in {installed, installed + 1} \cap Binary :
          /\ installed' = b /\ managed' = [path |-> b, fresh |-> TRUE]
          /\ \/ b = binary /\ Goto(c, AfterRefresh(c, caps)) /\ UNCHANGED executorVars
             \/ b # binary /\ Adopt(b) /\ Goto(c, AfterRefresh(c, None))
    BY <1>3 DEF RefreshWithUpdate
  <2>2. MovesOn
    BY <2>1 DEF IInv, TypeOK, MovesOn, Binary
  <2>3. /\ rpc'[c] = "none" /\ pc'[c] \in {"send", "ensure"} /\ outcome'[c] = "none" /\ Alone(c)
        /\ pc' \in [Caller -> {"idle", "refresh", "ensure", "await",
                               "settled", "send", "request", "reply", "done"}]
    BY <1>3, <2>1, Quiet DEF IInv, TypeOK, RefreshWithUpdate, AfterRefresh, Alone
  <2>4. /\ installed' \in Binary /\ managed' \in [path : Binary, fresh : BOOLEAN]
        /\ binary' \in Binary /\ caps' \in MaybeBinary /\ capsOf' \in MaybeBinary /\ promise' \in Promises
    BY <2>1, Binaries, PendingIsTyped DEF IInv, TypeOK, Promises, Adopt
  <2>5. TypeOK'
    BY <1>3, <2>3, <2>4 DEF IInv, TypeOK, Promises, RefreshWithUpdate
  <2> QED
    BY <2>2, <2>3, <2>5, QuietStep
<1>4. CASE ResolutionFails(c)
  <2>1. TypeOK'
    BY <1>4 DEF IInv, TypeOK, ResolutionFails, Fault
  <2>2. /\ rpc'[c] = "none" /\ pc'[c] = "done" /\ outcome'[c] = "failed" /\ Alone(c)
        /\ installed' = installed
    BY <1>4, Quiet DEF IInv, TypeOK, ResolutionFails, Alone
  <2> QED
    BY <2>1, <2>2, QuietStep, Still DEF IInv
<1> QED
  BY <1>1, <1>2, <1>3, <1>4 DEF Prepare

\* ensureCapabilities: cached, shared or private negotiation.
LEMMA EnsureStep == ASSUME IInv, NEW c \in Caller, Ensure(c) PROVE IInv'
<1> USE DEF Goto, End, worldVars, executorVars, localVars, rpcVars
<1>1. CASE UseCached(c)
  <2>1. TypeOK'
    BY <1>1 DEF IInv, TypeOK, UseCached, Proceed, Yield
  <2>2. /\ rpc'[c] = "none" /\ pc'[c] \in {"send", "refresh"} /\ outcome'[c] = "none" /\ Alone(c)
        /\ installed' = installed
    BY <1>1, Quiet DEF IInv, TypeOK, UseCached, Proceed, Alone
  <2> QED
    BY <2>1, <2>2, QuietStep, Still DEF IInv
<1>2. CASE Negotiate(c)
  <2>1. promise' \in Promises
    BY <1>2, Binaries DEF IInv, TypeOK, Promises, Negotiate, Hows
  <2>2. TypeOK'
    BY <1>2, <2>1, Binaries, PendingIsTyped DEF IInv, TypeOK, Promises, Negotiate, Yield
  <2>3. /\ rpc'[c] = "bind" /\ pc'[c] = "await" /\ joined'[c] = c /\ outcome'[c] = "none"
        /\ Alone(c) /\ installed' = installed
    BY <1>2, Quiet DEF IInv, TypeOK, Negotiate, Alone
  <2>4. CallInv(c)'
    BY <2>3 DEF CallInv, Exchanging, Started, Answered
  <2> QED
    BY <2>2, <2>3, <2>4, LocalStep, Still DEF IInv
<1>3. CASE Join(c)
  <2>1. Answer(promise.how, promise.caps) \in Answers /\ promise.by \in Caller \cup {NoCaller}
    BY DEF IInv, TypeOK, Answer, Answers
  <2>2. TypeOK'
    BY <1>3, <2>1, Binaries DEF IInv, TypeOK, Join, Yield
  <2>3. /\ rpc'[c] = "none" /\ pc'[c] \in {"await", "settled"} /\ outcome'[c] = "none" /\ Alone(c)
        /\ installed' = installed
    BY <1>3, Quiet DEF IInv, TypeOK, Join, Alone
  <2> QED
    BY <2>2, <2>3, QuietStep, Still DEF IInv
<1>4. CASE Negotiated(c)
  <2>1. answer[c].caps \in MaybeBinary
    BY DEF IInv, TypeOK, Answers
  <2>2. caps' \in MaybeBinary /\ capsOf' \in MaybeBinary
    BY <1>4, <2>1 DEF IInv, TypeOK, Negotiated
  <2>3. TypeOK'
    BY <1>4, <2>2 DEF IInv, TypeOK, Negotiated, Proceed, Yield
  <2>4. /\ rpc'[c] = "none" /\ pc'[c] \in {"send", "refresh"} /\ outcome'[c] = "none" /\ Alone(c)
        /\ installed' = installed
    BY <1>4, Quiet DEF IInv, TypeOK, Negotiated, Proceed, Alone
  <2> QED
    BY <2>3, <2>4, QuietStep, Still DEF IInv
<1>5. CASE NegotiationLost(c)
  <2>1. promise' \in Promises
    BY <1>5, PendingIsTyped DEF IInv, TypeOK, Promises, NegotiationLost
  <2>2. TypeOK'
    BY <1>5, <2>1 DEF IInv, TypeOK, Promises, NegotiationLost
  <2>3. /\ rpc'[c] = "none" /\ pc'[c] = "done" /\ outcome'[c] \in {"failed", "timeout"} /\ Alone(c)
        /\ installed' = installed
    BY <1>5, Quiet DEF IInv, TypeOK, NegotiationLost, Alone
  <2> QED
    BY <2>2, <2>3, QuietStep, Still DEF IInv
<1> QED
  BY <1>1, <1>2, <1>3, <1>4, <1>5 DEF Ensure

\* The beginning of a call, its request and its end.
LEMMA CallStep ==
  ASSUME IInv, NEW c \in Caller, Call(c) \/ Send(c) \/ Finish(c) \/ Return(c) \/ Deadline(c)
  PROVE  IInv'
<1> USE DEF Goto, End, worldVars, executorVars, localVars, rpcVars
<1>1. CASE Call(c)
  <2>1. TypeOK'
    BY <1>1, ModesAssumption DEF IInv, TypeOK, Call
  <2>2. /\ rpc'[c] = "none" /\ pc'[c] = "refresh" /\ outcome'[c] = "none" /\ Alone(c)
        /\ installed' = installed
    BY <1>1, Quiet DEF IInv, TypeOK, Call, Alone
  <2> QED
    BY <2>1, <2>2, QuietStep, Still DEF IInv
<1>2. CASE Send(c)
  <2>1. TypeOK'
    BY <1>2 DEF IInv, TypeOK, Send, Yield
  <2>2. /\ Alone(c) /\ installed' = installed
        /\ \/ rpc'[c] = "bind" /\ pc'[c] = "request" /\ outcome'[c] = "none"
           \/ rpc'[c] = "none" /\ pc'[c] = "done" /\ outcome'[c] = "failed"
    BY <1>2, Quiet DEF IInv, TypeOK, Send, Alone
  <2>3. CallInv(c)'
    BY <2>2 DEF CallInv, Exchanging, Started, Answered
  <2> QED
    BY <2>1, <2>2, <2>3, LocalStep, Still DEF IInv
<1>3. CASE Finish(c)
  <2>1. PICK how \in {"ok", "failed", "timeout"} : End(c, how)
    BY <1>3 DEF Finish
  <2>2. TypeOK'
    BY <1>3, <2>1 DEF IInv, TypeOK, Finish
  <2>3. /\ rpc'[c] = "none" /\ pc'[c] = "done" /\ outcome'[c] = how /\ Alone(c)
        /\ UNCHANGED <<installed, ran, bound, held>> /\ pc[c] = "reply"
    BY <1>3, <2>1, Quiet DEF IInv, TypeOK, Finish, Alone
  <2>4. ran[c] = bound[c]
    BY <2>3 DEF IInv, CallInv, Answered
  <2>5. CallInv(c)'
    BY <2>1, <2>3, <2>4 DEF CallInv, Exchanging, Started, Answered
  <2> QED
    BY <2>2, <2>3, <2>5, LocalStep, Still DEF IInv
<1>4. CASE Return(c)
  <2>1. TypeOK'
    BY <1>4, Binaries, PendingIsTyped DEF IInv, TypeOK, Return
  <2>2. /\ rpc'[c] = "none" /\ pc'[c] = "idle" /\ outcome'[c] = "none" /\ Alone(c)
        /\ installed' = installed
    BY <1>4, Quiet DEF IInv, TypeOK, Return, Alone
  <2> QED
    BY <2>1, <2>2, QuietStep, Still DEF IInv
<1>5. CASE Deadline(c)
  <2>1. TypeOK'
    BY <1>5 DEF IInv, TypeOK, Deadline
  <2>2. UNCHANGED <<pc, held, joined, rpc, seen, bound, ran, outcome, installed>>
    BY <1>5 DEF Deadline
  <2>3. ASSUME NEW d \in Caller PROVE CallInv(d)'
    <3>1. Untouched(d) /\ MovesOn
      BY <2>2, Still DEF IInv, Untouched
    <3> QED
      BY <3>1, Bystander DEF IInv, MovesOn
  <2> QED
    BY <2>1, <2>3 DEF IInv
<1> QED
  BY <1>1, <1>2, <1>3, <1>4, <1>5

\* Another binary is installed, or the next check of a managed CLI is due.
LEMMA WorldStep == ASSUME IInv, Install \/ CheckDue PROVE IInv'
<1>1. TypeOK' /\ MovesOn
  <2>1. CASE Install
    BY <2>1, BinariesAssumption
    DEF IInv, TypeOK, Install, MovesOn, Binary, executorVars, localVars, rpcVars
  <2>2. CASE CheckDue
    BY <2>2, Still DEF IInv, TypeOK, CheckDue, executorVars, localVars, rpcVars
  <2> QED
    BY <2>1, <2>2
<1>2. ASSUME NEW d \in Caller PROVE CallInv(d)'
  <2>1. Untouched(d)
    BY DEF Untouched, Install, CheckDue, localVars, rpcVars
  <2> QED
    BY <1>1, <2>1, Bystander DEF IInv, MovesOn
<1> QED
  BY <1>1, <1>2 DEF IInv

-----------------------------------------------------------------------------
\* A negotiation settles: its waiters wake, its own call among them, and none of
\* the others has an exchange of its own.
LEMMA WakeStep ==
  ASSUME IInv, NEW c \in Caller, NEW result \in Answers, pc[c] = "await", rpc[c] # "none",
         Wake(c, result), TypeOK', MovesOn, rpc' = [rpc EXCEPT ![c] = "none"],
         UNCHANGED <<seen, bound, ran, held, joined>>
  PROVE  IInv'
<1>1. \A d \in Caller : pc'[d] = IF pc[d] = "await" /\ joined[d] = c THEN "settled" ELSE pc[d]
  BY DEF Wake
<1>2. joined[c] = c /\ outcome[c] = "none"
  BY Quiet DEF IInv, CallInv, Exchanging
<1>3. CallInv(c)'
  <2>1. pc'[c] = "settled" /\ rpc'[c] = "none" /\ outcome'[c] = "none"
    BY <1>1, <1>2 DEF IInv, TypeOK, Wake
  <2> QED
    BY <2>1 DEF CallInv, Exchanging, Started, Answered
<1>4. ASSUME NEW d \in Caller, d # c PROVE CallInv(d)'
  <2>1. pc[d] = "await" /\ joined[d] = c => rpc[d] = "none"
    BY <1>4 DEF IInv, CallInv, Exchanging
  <2>2. rpc'[d] = rpc[d] /\ outcome'[d] = outcome[d]
    BY <1>4 DEF IInv, TypeOK, Wake
  <2>3. Untouched(d)
    BY <1>1, <2>1, <2>2 DEF Untouched
  <2> QED
    BY <2>3, Bystander DEF IInv, MovesOn
<1> QED
  BY <1>3, <1>4 DEF IInv

\* What the waiters are told.
LEMMA WakeTypes ==
  ASSUME IInv, NEW c \in Caller, NEW result \in Answers, Wake(c, result)
  PROVE  /\ pc' \in [Caller -> {"idle", "refresh", "ensure", "await", "settled", "send",
                               "request", "reply", "done"}]
         /\ answer' \in [Caller -> Answers] /\ thread' \in Caller \cup {NoCaller}
         /\ outcome' = outcome
  BY DEF IInv, TypeOK, Wake, Yield

\* An exchange is over.  A request goes on only with a result of the bound binary.
LEMMA EndStep ==
  ASSUME IInv, NEW c \in Caller, rpc[c] # "none", NEW how \in {"ok", "failed", "timeout"},
         NEW b \in MaybeBinary, how = "ok" => ran[c] = bound[c], ExchangeEnds(c, how, b),
         managed' \in [path : Binary, fresh : BOOLEAN], faults' \in Nat,
         UNCHANGED <<installed, binary, caps, capsOf, mode, again, over, held, negId, joined,
                     seen, bound, ran>>
  PROVE  IInv'
<1> DEFINE result == NegotiationResult(c, how, b)
<1>1. result \in Answers /\ result.how \in Hows /\ result.caps \in MaybeBinary
  BY Binaries DEF NegotiationResult, Answer, Answers, Hows
<1>2. rpc' = [rpc EXCEPT ![c] = "none"] /\ MovesOn
  BY Still DEF ExchangeEnds, IInv
<1> HIDE DEF result
<1>3. CASE pc[c] = "await"
  <2>1. Wake(c, result) /\ promise' \in Promises
    BY <1>1, <1>3 DEF ExchangeEnds, result, IInv, TypeOK, Promises
  <2>2. TypeOK'
    BY <1>1, <1>2, <2>1, WakeTypes DEF IInv, TypeOK, Promises
  <2> QED
    BY <1>1, <1>2, <1>3, <2>1, <2>2, WakeStep
<1>4. CASE pc[c] = "request"
  <2>1. /\ UNCHANGED <<answer, promise>>
        /\ \/ how = "ok" /\ Goto(c, "reply") /\ Yield(c) /\ UNCHANGED outcome
           \/ how # "ok" /\ End(c, how)
    BY <1>4 DEF ExchangeEnds
  <2>2. TypeOK'
    BY <1>2, <2>1 DEF IInv, TypeOK, Goto, Yield, End
  <2>3. /\ rpc'[c] = "none" /\ Alone(c)
        /\ \/ pc'[c] = "reply" /\ ran[c] = bound[c] /\ outcome'[c] = "none"
           \/ pc'[c] = "done" /\ outcome'[c] \in {"failed", "timeout"}
    BY <1>2, <1>4, <2>1, Quiet DEF IInv, TypeOK, Goto, End, Alone
  <2>4. CallInv(c)'
    BY <2>3 DEF CallInv, Exchanging, Started, Answered
  <2> QED
    BY <1>2, <2>2, <2>3, <2>4, LocalStep
<1> QED
  BY <1>3, <1>4 DEF IInv, CallInv, Exchanging

\* resolveDefaultCLIPath remembers what the verification found.
LEMMA ResolveTypes ==
  ASSUME IInv, NEW c \in Caller, rpc[c] = "verify", Resolve(c)
  PROVE  /\ managed' \in [path : Binary, fresh : BOOLEAN]
         /\ Resolved(c) \in Binary /\ (~Managed => Resolved(c) = installed)
  BY DEF IInv, TypeOK, CallInv, Exchanging, Resolve, Resolved

\* runRPC and runRPCSync: verification, spawn, answer and failure.
LEMMA ExchangeStep == ASSUME IInv, NEW c \in Caller, Exchange(c) PROVE IInv'
<1> USE DEF worldVars, executorVars, localVars
<1>0. installed \in Binary /\ binary \in Binary /\ CallInv(c)
  BY DEF IInv, TypeOK
<1>1. CASE ReadPointer(c)
  <2>1. TypeOK'
    BY <1>0, <1>1, Binaries DEF IInv, TypeOK, ReadPointer
  <2>2. /\ rpc[c] = "bind" /\ rpc'[c] = "verify" /\ seen'[c] = installed /\ Alone(c)
        /\ UNCHANGED <<installed, pc, joined, bound, ran, outcome, held>>
    BY <1>1 DEF IInv, TypeOK, ReadPointer, Alone
  <2>3. CallInv(c)'
    BY <1>0, <2>2 DEF CallInv, Exchanging, Started, Answered
  <2> QED
    BY <2>1, <2>2, <2>3, LocalStep, Still DEF IInv
<1>2. CASE Bind(c)
  <2>1. /\ managed' \in [path : Binary, fresh : BOOLEAN]
        /\ ~Managed => binary = installed
    BY <1>2, ResolveTypes DEF Bind
  <2>2. TypeOK'
    BY <1>0, <1>2, <2>1, Binaries DEF IInv, TypeOK, Bind, Yield
  <2>3. /\ rpc[c] = "verify" /\ rpc'[c] = "spawn" /\ bound'[c] = binary /\ Alone(c)
        /\ UNCHANGED <<installed, pc, joined, seen, ran, outcome, held>>
    BY <1>2 DEF IInv, TypeOK, Bind, Alone
  <2>4. ~Managed => binary <= installed
    BY <1>0, <2>1 DEF Binary
  <2>5. pc[c] \in {"await", "request"}
    BY <1>0, <2>3 DEF CallInv, Exchanging
  <2>6. CallInv(c)'
    BY <1>0, <2>3, <2>4, <2>5, Quiet DEF CallInv, Exchanging, Started, Answered
  <2> QED
    BY <2>2, <2>3, <2>6, LocalStep, Still DEF IInv
<1>3. CASE BindElsewhere(c)
  <2>1. managed' \in [path : Binary, fresh : BOOLEAN] /\ Resolved(c) \in Binary
    BY <1>3, ResolveTypes DEF BindElsewhere
  <2>2. binary' \in Binary /\ caps' \in MaybeBinary /\ capsOf' \in MaybeBinary /\ promise' \in Promises
    BY <1>3, <2>1, Binaries, PendingIsTyped DEF BindElsewhere, Adopt
  <2>3. /\ rpc[c] # "none" /\ rpc' = [rpc EXCEPT ![c] = "none"] /\ MovesOn
        /\ UNCHANGED <<installed, mode, again, over, held, negId, joined, seen, bound, ran, faults>>
    BY <1>3, Still DEF IInv, BindElsewhere
  <2>4. CASE pc[c] = "await" /\ Wake(c, Answer("failed", None))
    <3>1. Answer("failed", None) \in Answers
      BY Binaries DEF Answer, Answers, Hows
    <3>2. TypeOK'
      BY <2>1, <2>2, <2>3, <2>4, <3>1, WakeTypes DEF IInv, TypeOK, Promises
    <3> QED
      BY <2>3, <2>4, <3>1, <3>2, WakeStep
  <2>5. CASE pc[c] = "request" /\ End(c, "failed") /\ UNCHANGED answer
    <3>1. TypeOK'
      BY <2>1, <2>2, <2>3, <2>5 DEF IInv, TypeOK, Promises, End, Goto
    <3>2. rpc'[c] = "none" /\ pc'[c] = "done" /\ outcome'[c] = "failed" /\ Alone(c)
      BY <2>3, <2>5 DEF IInv, TypeOK, End, Goto, Alone
    <3> QED
      BY <2>3, <3>1, <3>2, QuietStep
  <2> QED
    BY <1>3, <2>4, <2>5 DEF BindElsewhere
<1>4. CASE Spawn(c)
  <2>1. /\ rpc[c] = "spawn" /\ rpc'[c] = "run" /\ ran'[c] = IdentityOf(bound[c]) /\ Alone(c)
        /\ UNCHANGED <<installed, pc, joined, seen, bound, outcome, held>>
    BY <1>4 DEF IInv, TypeOK, Spawn, Alone
  <2>2. /\ pc[c] \in {"await", "request"} /\ bound[c] \in Binary
        /\ ~Managed => bound[c] <= installed
    BY <1>0, <2>1 DEF CallInv, Exchanging
  <2>3. IdentityOf(bound[c]) \in Binary
    BY <1>0, <2>2 DEF IdentityOf
  <2>4. TypeOK'
    BY <1>4, <2>3, Binaries DEF IInv, TypeOK, Spawn, Yield
  <2>5. installed <= installed
    BY <1>0 DEF Binary
  <2>6. CallInv(c)'
    BY <1>0, <2>1, <2>2, <2>3, <2>5, Quiet
    DEF CallInv, Exchanging, Started, Answered, IdentityOf
  <2> QED
    BY <2>1, <2>4, <2>6, LocalStep, Still DEF IInv
<1>5. CASE Reply(c)
  <2>1. ran[c] \in Binary /\ bound[c] \in Binary
    BY <1>0, <1>5 DEF Reply, CallInv, Exchanging, Started
  <2>2. IdentityOf(bound[c]) = bound[c] => ran[c] = bound[c]
    <3>1. CASE Managed
      BY <1>0, <1>5, <3>1 DEF Reply, CallInv, Started
    <3>2. CASE ~Managed
      <4>1. bound[c] <= ran[c] /\ ran[c] <= installed
        BY <1>0, <1>5, <3>2 DEF Reply, CallInv, Started
      <4> QED
        BY <1>0, <2>1, <3>2, <4>1 DEF IdentityOf, Binary
    <3> QED
      BY <3>1, <3>2
  <2>3. PICK how \in {"ok", "failed", "timeout"} :
          ExchangeEnds(c, how, ran[c]) /\ (how = "ok" => IdentityOf(bound[c]) = bound[c])
    BY <1>5 DEF Reply
  <2>4. managed' \in [path : Binary, fresh : BOOLEAN] /\ faults' \in Nat /\ rpc[c] # "none"
    BY <1>5 DEF Reply, IInv, TypeOK
  <2> QED
    BY <1>5, <2>1, <2>2, <2>3, <2>4, Binaries, EndStep DEF Reply
<1>6. CASE ExchangeFails(c)
  <2>1. managed' \in [path : Binary, fresh : BOOLEAN] /\ faults' \in Nat
    BY <1>6 DEF ExchangeFails, Fault, IInv, TypeOK
  <2> QED
    BY <1>6, <2>1, Binaries, EndStep DEF ExchangeFails
<1>7. CASE ExchangeTimesOut(c)
  <2>1. managed' \in [path : Binary, fresh : BOOLEAN] /\ faults' \in Nat
    BY <1>7, ResolveTypes DEF ExchangeTimesOut, IInv, TypeOK
  <2> QED
    BY <1>7, <2>1, Binaries, EndStep DEF ExchangeTimesOut
<1> QED
  BY <1>1, <1>2, <1>3, <1>4, <1>5, <1>6, <1>7 DEF Exchange

\* Every step of a call, of an installation or of the update timer keeps the invariant.
THEOREM StepInvariant == IInv /\ [Next]_vars => IInv'
<1> SUFFICES ASSUME IInv, [Next]_vars PROVE IInv'
  OBVIOUS
<1>1. ASSUME NEW c \in Caller, Prepare(c) PROVE IInv'
  BY <1>1, PrepareStep
<1>2. ASSUME NEW c \in Caller, Ensure(c) PROVE IInv'
  BY <1>2, EnsureStep
<1>3. ASSUME NEW c \in Caller, Exchange(c) PROVE IInv'
  BY <1>3, ExchangeStep
<1>4. ASSUME NEW c \in Caller, Call(c) \/ Send(c) \/ Finish(c) \/ Return(c) \/ Deadline(c)
      PROVE  IInv'
  BY <1>4, CallStep
<1>5. CASE Install \/ CheckDue
  BY <1>5, WorldStep
<1>6. CASE UNCHANGED vars
  <2>1. UNCHANGED <<pc, held, joined, rpc, seen, bound, ran, outcome, installed>> /\ TypeOK'
    BY <1>6 DEF vars, worldVars, executorVars, localVars, rpcVars, IInv, TypeOK
  <2>2. ASSUME NEW d \in Caller PROVE CallInv(d)'
    <3>1. Untouched(d) /\ MovesOn
      BY <2>1, Still DEF IInv, Untouched
    <3> QED
      BY <3>1, Bystander DEF IInv, MovesOn
  <2> QED
    BY <2>1, <2>2 DEF IInv
<1> QED
  BY <1>1, <1>2, <1>3, <1>4, <1>5, <1>6 DEF Next

\* The invariant holds throughout, for any number of calls of one executor.
THEOREM Invariance == Spec => []IInv
  BY InitInvariant, StepInvariant, PTL DEF Spec

-----------------------------------------------------------------------------
\* The fields of the executor and of its calls keep their types.
THEOREM TypeCorrect == Spec => []TypeOK
<1>1. IInv => TypeOK
  BY DEF IInv
<1> QED
  BY <1>1, Invariance, PTL

\* Results come from the binary that was verified for the exchange, whatever is
\* replaced between verification, spawn and answer (runRPC, runRPCSync).
THEOREM ResultsAreOfVerifiedBinaries == Spec => []ResultFromVerifiedBinary
<1>1. IInv => ResultFromVerifiedBinary
  BY DEF IInv, CallInv, Answered, ResultFromVerifiedBinary
<1> QED
  BY <1>1, Invariance, PTL

-----------------------------------------------------------------------------
(***************************************************************************)
(* A single caller of a managed CLI.  What the executor has cached is      *)
(* always about the binary it has adopted, and a call sends its request to *)
(* the binary it negotiated with: only the call itself makes the executor  *)
(* adopt another one.                                                      *)
(***************************************************************************)
Cached == caps \in {None, binary} /\ capsOf = caps

Promised(c) ==
  /\ promise.how = "ok" => promise.caps = binary
  /\ promise.how = "pending" =>
       promise = NoPromise \/ (pc[c] = "await" /\ mode[c] = "shared" /\ promise.by = c)

Negotiating(c) ==
  /\ pc[c] = "await" => negId[c] = binary /\ rpc[c] # "none"
  /\ pc[c] = "settled" /\ answer[c].how = "ok" => answer[c].caps = negId[c]

Requesting(c) ==
  /\ again[c] => held[c] # None
  /\ pc[c] \in {"send", "request"} => held[c] = binary
  /\ rpc[c] \in {"spawn", "run"} => bound[c] = binary

Coherent(c) == Cached /\ Promised(c) /\ Negotiating(c) /\ Requesting(c)

\* The executor has been constructed and nothing is cached.
LEMMA CoherentInit == ASSUME NEW c \in Caller, Init PROVE Coherent(c)
  BY Binaries DEF Init, Coherent, Cached, Promised, Negotiating, Requesting, NoPromise

\* Before the negotiation.
LEMMA CoherentPrepare ==
  ASSUME IInv, NEW c \in Caller, Coherent(c), Prepare(c) \/ Call(c) \/ Send(c)
  PROVE  Coherent(c)'
<1> USE DEF Goto, End, worldVars, executorVars, localVars, rpcVars
<1>0. pc[c] \notin {"await", "request"} => rpc[c] = "none"
  BY Quiet
<1>1. CASE OutOfTime(c) \/ ResolutionFails(c)
  BY <1>0, <1>1 DEF OutOfTime, ResolutionFails, IInv, TypeOK, Coherent, Cached, Promised, Negotiating,
              Requesting
<1>2. CASE Call(c)
  BY <1>0, <1>2 DEF Call, IInv, TypeOK, Coherent, Cached, Promised, Negotiating, Requesting
<1>3. CASE Send(c)
  BY <1>0, <1>3 DEF Send, IInv, TypeOK, Coherent, Cached, Promised, Negotiating, Requesting
<1>4. CASE Refresh(c) \/ RefreshWithUpdate(c)
  <2>1. /\ pc[c] = "refresh" /\ UNCHANGED <<localVars, rpcVars>> /\ pc'[c] \in {"send", "ensure"}
        /\ pc'[c] = "send" => again[c] /\ held[c] = caps'
        /\ UNCHANGED executorVars \/ (caps' = None /\ capsOf' = None /\ promise' = NoPromise)
    BY <1>4 DEF Refresh, RefreshWithUpdate, AfterRefresh, Adopt, IInv, TypeOK
  <2>2. NoPromise.how = "pending"
    BY DEF NoPromise
  <2> QED
    BY <1>0, <2>1, <2>2 DEF Coherent, Cached, Promised, Negotiating, Requesting
<1> QED
  BY <1>1, <1>2, <1>3, <1>4 DEF Prepare

\* The negotiation.
LEMMA CoherentEnsure ==
  ASSUME IInv, NEW c \in Caller, Coherent(c), Ensure(c)
  PROVE  Coherent(c)'
<1> USE DEF Goto, End, worldVars, executorVars, localVars, rpcVars
<1>0. pc[c] \notin {"await", "request"} => rpc[c] = "none"
  BY Quiet
<1>1. CASE UseCached(c)
  BY <1>0, <1>1 DEF UseCached, Proceed, CapabilitiesCached, IInv, TypeOK, Coherent, Cached, Promised,
              Negotiating, Requesting
<1>2. CASE Negotiate(c)
  <2>1. /\ pc'[c] = "await" /\ negId'[c] = binary /\ rpc'[c] = "bind" /\ caps' = None /\ capsOf' = None
        /\ UNCHANGED <<binary, mode, again, held>>
        /\ pc[c] = "ensure"
    BY <1>2 DEF Negotiate, IInv, TypeOK
  <2>2. Promised(c)'
    <3>1. CASE mode[c] = "shared"
      <4>1. promise' = [by |-> c, how |-> "pending", caps |-> None]
        BY <1>2, <3>1 DEF Negotiate
      <4> QED
        BY <2>1, <3>1, <4>1 DEF Promised
    <3>2. CASE mode[c] # "shared"
      BY <1>2, <2>1, <3>2 DEF Negotiate, Coherent, Promised
    <3> QED
      BY <3>1, <3>2
  <2> QED
    BY <2>1, <2>2 DEF Coherent, Cached, Negotiating, Requesting
<1>3. CASE Join(c)
  <2>1. /\ pc[c] = "ensure" /\ promise.how # "pending" /\ pc'[c] = "settled"
        /\ negId'[c] = binary /\ answer'[c] = Answer(promise.how, promise.caps)
        /\ caps' = None /\ capsOf' = None
        /\ UNCHANGED <<binary, promise, again, held, rpcVars>>
    BY <1>3 DEF Join, IInv, TypeOK, Coherent, Promised
  <2> QED
    BY <1>0, <2>1 DEF Answer, Coherent, Cached, Promised, Negotiating, Requesting
<1>4. CASE Negotiated(c)
  <2>1. /\ pc[c] = "settled" /\ answer[c].caps = binary /\ binary # None
        /\ caps' \in {caps, binary} /\ caps' # None
    BY <1>4, Binaries DEF Negotiated, Coherent, Negotiating, IInv, TypeOK
  <2>2. caps' = binary /\ capsOf' = binary /\ held'[c] = binary /\ binary' = binary
    BY <1>4, <2>1 DEF Negotiated, Coherent, Cached, Negotiating, IInv, TypeOK
  <2> QED
    BY <1>0, <1>4, <2>1, <2>2
    DEF Negotiated, Proceed, IInv, TypeOK, Coherent, Cached, Promised, Negotiating, Requesting
<1>5. CASE NegotiationLost(c)
  <2>1. promise' \in {promise, NoPromise}
    BY <1>5 DEF NegotiationLost
  <2>2. NoPromise.how = "pending"
    BY DEF NoPromise
  <2> QED
    BY <1>0, <1>5, <2>1, <2>2
    DEF NegotiationLost, IInv, TypeOK, Coherent, Cached, Promised, Negotiating, Requesting
<1> QED
  BY <1>1, <1>2, <1>3, <1>4, <1>5 DEF Ensure

\* The exchange ends: only an answer of the adopted binary counts.
LEMMA CoherentEnd ==
  ASSUME IInv, NEW c \in Caller, Managed, Coherent(c), rpc[c] # "none",
         NEW how \in {"ok", "failed", "timeout"}, NEW b \in MaybeBinary,
         how = "ok" => b = binary, ExchangeEnds(c, how, b),
         UNCHANGED <<binary, caps, capsOf, mode, again, held, negId, bound>>
  PROVE  Coherent(c)'
<1> DEFINE result == NegotiationResult(c, how, b)
<1>1. result.how # "pending" /\ (result.how = "ok" => result.caps = binary /\ binary = negId[c])
  BY DEF NegotiationResult, Answer, IdentityOf
<1> HIDE DEF result
<1>2. rpc'[c] = "none"
  BY DEF ExchangeEnds, IInv, TypeOK
<1>3. CASE pc[c] = "await"
  <2>1. Wake(c, result) /\ promise' = IF mode[c] = "shared" /\ promise.by = c
                                      THEN [by |-> c, how |-> result.how, caps |-> result.caps]
                                      ELSE promise
    BY <1>3 DEF ExchangeEnds, result
  <2>2. joined[c] = c
    BY <1>3 DEF IInv, CallInv, Exchanging
  <2>3. pc'[c] = "settled" /\ answer'[c] = result
    BY <1>3, <2>1, <2>2 DEF Wake
  <2> QED
    BY <1>1, <1>2, <1>3, <2>1, <2>3 DEF Coherent, Cached, Promised, Negotiating, Requesting
<1>4. CASE pc[c] = "request"
  BY <1>2, <1>4
  DEF ExchangeEnds, Goto, End, IInv, TypeOK, Coherent, Cached, Promised, Negotiating, Requesting
<1> QED
  BY <1>3, <1>4 DEF IInv, CallInv, Exchanging

\* The exchange.
LEMMA CoherentExchange ==
  ASSUME IInv, NEW c \in Caller, Managed, Coherent(c), Exchange(c)
  PROVE  Coherent(c)'
<1> USE DEF worldVars, executorVars, localVars
<1>0. rpc[c] # "none" => pc[c] \in {"await", "request"}
  BY DEF IInv, CallInv, Exchanging
<1>1. CASE ReadPointer(c)
  BY <1>1 DEF ReadPointer, IInv, TypeOK, Coherent, Cached, Promised, Negotiating, Requesting
<1>2. CASE Bind(c)
  BY <1>2 DEF Bind, IInv, TypeOK, Coherent, Cached, Promised, Negotiating, Requesting
<1>3. CASE BindElsewhere(c)
  <2>1. /\ caps' = None /\ capsOf' = None /\ promise' = NoPromise /\ rpc'[c] = "none"
        /\ UNCHANGED <<again, held>>
    BY <1>3 DEF BindElsewhere, Adopt, IInv, TypeOK
  <2>2. \/ pc'[c] = "settled" /\ answer'[c].how = "failed"
        \/ pc'[c] = "done"
    BY <1>3 DEF BindElsewhere, Wake, End, Goto, Answer, IInv, TypeOK, CallInv, Exchanging
  <2> QED
    BY <2>1, <2>2 DEF NoPromise, Coherent, Cached, Promised, Negotiating, Requesting
<1>4. CASE Spawn(c)
  BY <1>4 DEF Spawn, IInv, TypeOK, Coherent, Cached, Promised, Negotiating, Requesting
<1>5. CASE Reply(c)
  <2>1. ran[c] = binary /\ ran[c] \in MaybeBinary /\ rpc[c] # "none"
    BY <1>5 DEF Reply, IInv, TypeOK, CallInv, Started, Coherent, Requesting
  <2>2. PICK how \in {"ok", "failed", "timeout"} : ExchangeEnds(c, how, ran[c])
    BY <1>5 DEF Reply
  <2> QED
    BY <1>5, <2>1, <2>2, CoherentEnd DEF Reply
<1>6. CASE ExchangeFails(c)
  BY <1>6, CoherentEnd, Binaries DEF ExchangeFails
<1>7. CASE ExchangeTimesOut(c)
  BY <1>7, CoherentEnd, Binaries DEF ExchangeTimesOut
<1> QED
  BY <1>1, <1>2, <1>3, <1>4, <1>5, <1>6, <1>7 DEF Exchange

\* The end of a call, and the world around it.
LEMMA CoherentRest ==
  ASSUME IInv, NEW c \in Caller, Coherent(c),
         Finish(c) \/ Return(c) \/ Deadline(c) \/ Install \/ CheckDue \/ UNCHANGED vars
  PROVE  Coherent(c)'
<1> USE DEF Goto, End, worldVars, executorVars, localVars, rpcVars
<1>1. CASE Finish(c)
  BY <1>1, Quiet DEF Finish, IInv, TypeOK, Coherent, Cached, Promised, Negotiating, Requesting
<1>2. CASE Return(c)
  BY <1>2, Quiet DEF Return, IInv, TypeOK, Coherent, Cached, Promised, Negotiating, Requesting
<1>3. CASE Deadline(c)
  BY <1>3 DEF Deadline, Coherent, Cached, Promised, Negotiating, Requesting
<1>4. CASE Install \/ CheckDue
  BY <1>4 DEF Install, CheckDue, Coherent, Cached, Promised, Negotiating, Requesting
<1>5. CASE UNCHANGED vars
  BY <1>5 DEF vars, Coherent, Cached, Promised, Negotiating, Requesting
<1> QED
  BY <1>1, <1>2, <1>3, <1>4, <1>5

\* With one caller of a managed CLI, what is cached stays coherent.
LEMMA OneCallerCoherent ==
  ASSUME NEW c \in Caller, Caller = {c}, Managed
  PROVE  Spec => []Coherent(c)
<1>1. IInv /\ Coherent(c) /\ [Next]_vars => Coherent(c)'
  BY CoherentPrepare, CoherentEnsure, CoherentExchange, CoherentRest DEF Next
<1> QED
  BY <1>1, CoherentInit, Invariance, PTL DEF Spec

\* The capabilities in the cache are those of the binary the executor has, with
\* one caller of a managed CLI, however often it is updated.
THEOREM OneCallerOwnsCache ==
  ASSUME NEW c \in Caller, Caller = {c}, Managed
  PROVE  Spec => []CachedCapabilitiesAreOwn
<1>1. Coherent(c) => CachedCapabilitiesAreOwn
  BY DEF Coherent, Cached, CachedCapabilitiesAreOwn
<1> QED
  BY <1>1, OneCallerCoherent, PTL

\* A request runs on the binary whose capabilities limited its size and depth and
\* allowed its method (CHANGELOG.md: "invalidate cached capabilities when the
\* active binary identity changes"), with one caller of a managed CLI.
THEOREM OneCallerRunsOnNegotiated ==
  ASSUME NEW c \in Caller, Caller = {c}, Managed
  PROVE  Spec => []RequestRunsOnNegotiatedBinary
<1>1. IInv /\ Coherent(c) => RequestRunsOnNegotiatedBinary
  BY DEF IInv, CallInv, Started, Coherent, Requesting, RequestRunsOnNegotiatedBinary
<1> QED
  BY <1>1, OneCallerCoherent, Invariance, PTL

-----------------------------------------------------------------------------
(***************************************************************************)
(* Any number of callers of an explicit path.  The executor only adopts    *)
(* what the path holds, which only moves on: when a negotiation that began *)
(* with a binary finds the same one in the end, the executor still has it, *)
(* and so has everyone who waits.                                          *)
(***************************************************************************)
Settling(c) ==
  /\ pc[c] \in {"await", "settled"} => negId[c] \in Binary /\ negId[c] <= binary
  /\ pc[c] = "settled" /\ answer[c].how = "ok" =>
       answer[c].caps \in Binary /\ negId[c] <= answer[c].caps /\ answer[c].caps <= binary

InPlace ==
  /\ binary <= installed
  /\ Cached
  /\ promise.how = "ok" => promise.caps = binary
  /\ \A c \in Caller : Settling(c)

\* The executor has been constructed and nothing is cached.
LEMMA InPlaceInit == Init => InPlace
  BY Binaries DEF Init, InPlace, Cached, Settling, NoPromise

\* Another binary is installed or adopted, and no negotiation has settled.
LEMMA MovedOn ==
  ASSUME TypeOK, TypeOK', InPlace, binary <= binary', binary' <= installed', Cached',
         promise'.how = "ok" => promise'.caps = binary',
         \A c \in Caller :
           \/ pc'[c] \notin {"await", "settled"}
           \/ pc'[c] = pc[c] /\ UNCHANGED <<negId[c], answer[c]>>
           \/ pc[c] = "await" /\ pc'[c] = "settled" /\ negId'[c] = negId[c] /\ answer'[c].how # "ok"
  PROVE  InPlace'
<1>1. ASSUME NEW c \in Caller PROVE Settling(c)'
  <2>1. binary \in Nat /\ binary' \in Nat
    BY Binaries DEF TypeOK
  <2>2. \A b \in Binary : b \in Nat
    BY Binaries
  <2> QED
    BY <2>1, <2>2 DEF InPlace, Settling
<1> QED
  BY <1>1 DEF InPlace

\* Before the negotiation: what is adopted is what the path holds.
LEMMA InPlacePrepare ==
  ASSUME IInv, TypeOK', ~Managed, InPlace, NEW c \in Caller, Prepare(c) \/ Call(c) \/ Send(c)
  PROVE  InPlace'
<1> USE DEF Goto, End, worldVars, executorVars, localVars, rpcVars
<1>1. binary \in Nat /\ installed \in Nat /\ NoPromise.how = "pending"
  BY Binaries DEF IInv, TypeOK, NoPromise
<1>2. /\ UNCHANGED <<negId, answer, installed>>
      /\ pc'[c] \notin {"await", "settled"} /\ \A d \in Caller \ {c} : pc'[d] = pc[d]
      /\ \/ UNCHANGED executorVars
         \/ binary' = installed /\ caps' = None /\ capsOf' = None /\ promise' = NoPromise
  <2>1. CASE Refresh(c)
    BY <2>1 DEF Refresh, AfterRefresh, Adopt, IInv, TypeOK
  <2>2. CASE RefreshWithUpdate(c)
    BY <2>2 DEF RefreshWithUpdate
  <2>3. CASE OutOfTime(c) \/ ResolutionFails(c) \/ Call(c) \/ Send(c)
    BY <2>3 DEF OutOfTime, ResolutionFails, Call, Send, IInv, TypeOK
  <2> QED
    BY <2>1, <2>2, <2>3 DEF Prepare
<1>3. Cached' /\ (promise'.how = "ok" => promise'.caps = binary') /\ binary <= binary' /\ binary' <= installed'
  BY <1>1, <1>2 DEF InPlace, Cached
<1> QED
  BY <1>2, <1>3, MovedOn DEF IInv

\* The negotiation.
LEMMA InPlaceEnsure ==
  ASSUME IInv, TypeOK', ~Managed, InPlace, NEW c \in Caller, Ensure(c)
  PROVE  InPlace'
<1> USE DEF Goto, End, Proceed, worldVars, executorVars, localVars, rpcVars
<1>0. /\ binary \in Binary /\ binary \in Nat /\ installed' = installed /\ binary' = binary
      /\ NoPromise.how = "pending" /\ \A b \in Binary : b \in Nat /\ b # None
  BY Binaries DEF IInv, TypeOK, NoPromise, Ensure, UseCached, Negotiate, Join, Negotiated, NegotiationLost
<1>1. CASE UseCached(c) \/ NegotiationLost(c)
  <2>1. /\ UNCHANGED <<negId, answer, caps, capsOf>> /\ promise' \in {promise, NoPromise}
        /\ pc'[c] \notin {"await", "settled"} /\ \A d \in Caller \ {c} : pc'[d] = pc[d]
    BY <1>1 DEF UseCached, NegotiationLost, IInv, TypeOK
  <2>2. binary <= binary' /\ binary' <= installed' /\ Cached' /\ (promise'.how = "ok" => promise'.caps = binary')
    BY <1>0, <2>1 DEF InPlace, Cached
  <2> QED
    BY <2>1, <2>2, MovedOn DEF IInv
<1>2. CASE Negotiate(c) \/ Join(c)
  <2>1. /\ caps' = None /\ capsOf' = None /\ negId'[c] = binary
        /\ \A d \in Caller \ {c} : UNCHANGED <<pc[d], negId[d], answer[d]>>
    BY <1>2 DEF Negotiate, Join, IInv, TypeOK
  <2>2. promise' = promise \/ promise'.how = "pending"
    BY <1>2 DEF Negotiate, Join
  <2>3. pc'[c] = "settled" /\ answer'[c].how = "ok" => answer'[c].caps = binary
    BY <1>2 DEF Negotiate, Join, Answer, IInv, TypeOK, InPlace
  <2>4. ASSUME NEW d \in Caller PROVE Settling(d)'
    BY <1>0, <2>1, <2>3 DEF InPlace, Settling
  <2> QED
    BY <1>0, <2>1, <2>2, <2>4 DEF InPlace, Cached
<1>3. CASE Negotiated(c)
  <2>1. answer[c].caps = binary /\ negId[c] = binary
    <3>1. /\ negId[c] = binary /\ answer[c].caps \in Binary
          /\ negId[c] <= answer[c].caps /\ answer[c].caps <= binary
      BY <1>3 DEF Negotiated, InPlace, Settling
    <3>2. answer[c].caps \in Nat
      BY <1>0, <3>1
    <3> QED
      BY <1>0, <3>1, <3>2
  <2>2. caps' = binary /\ capsOf' = binary
    BY <1>0, <1>3, <2>1 DEF Negotiated, InPlace, Cached
  <2>3. /\ UNCHANGED <<negId, answer, promise>>
        /\ pc'[c] \notin {"await", "settled"} /\ \A d \in Caller \ {c} : pc'[d] = pc[d]
    BY <1>3 DEF Negotiated, IInv, TypeOK
  <2>4. binary <= binary' /\ binary' <= installed' /\ Cached' /\ (promise'.how = "ok" => promise'.caps = binary')
    BY <1>0, <2>2, <2>3 DEF InPlace, Cached
  <2> QED
    BY <2>3, <2>4, MovedOn DEF IInv
<1> QED
  BY <1>1, <1>2, <1>3 DEF Ensure

\* The exchange ends.  A negotiation that succeeds found the path unchanged since
\* it began, and the executor with it.
LEMMA InPlaceEnd ==
  ASSUME IInv, TypeOK', ~Managed, InPlace, NEW c \in Caller, rpc[c] # "none", NEW how, NEW b,
         how = "ok" => b = installed, ExchangeEnds(c, how, b),
         UNCHANGED <<installed, binary, caps, capsOf, negId>>
  PROVE  InPlace'
<1> DEFINE result == NegotiationResult(c, how, b)
<1>1. /\ binary \in Binary /\ binary \in Nat /\ installed \in Nat
      /\ \A n \in Binary : n \in Nat
  BY Binaries DEF IInv, TypeOK
<1>2. CASE pc[c] = "await"
  <2>1. Wake(c, result) /\ promise' = IF mode[c] = "shared" /\ promise.by = c
                                      THEN [by |-> c, how |-> result.how, caps |-> result.caps]
                                      ELSE promise
    BY <1>2 DEF ExchangeEnds
  <2>2. result.how = "ok" => result.caps = binary
    <3>1. ASSUME result.how = "ok" PROVE result.caps = installed /\ installed = negId[c]
      BY <3>1 DEF NegotiationResult, Answer, IdentityOf
    <3>2. negId[c] \in Nat /\ negId[c] <= binary /\ binary <= installed
      BY <1>1, <1>2 DEF InPlace, Settling
    <3> HIDE DEF result
    <3> QED
      BY <1>1, <3>1, <3>2
  <2> HIDE DEF result
  <2>3. promise'.how = "ok" => promise'.caps = binary
    BY <2>1, <2>2 DEF InPlace
  <2>4. ASSUME NEW d \in Caller PROVE Settling(d)'
    <3>1. CASE pc[d] = "await" /\ joined[d] = c
      <4>1. pc'[d] = "settled" /\ answer'[d] = result
        BY <2>1, <3>1 DEF Wake
      <4>2. negId[d] \in Binary /\ negId[d] <= binary
        BY <3>1 DEF InPlace, Settling
      <4> QED
        BY <1>1, <2>2, <4>1, <4>2 DEF Settling
    <3>2. CASE ~(pc[d] = "await" /\ joined[d] = c)
      <4>1. pc'[d] = pc[d] /\ answer'[d] = answer[d]
        BY <2>1, <3>2 DEF Wake
      <4> QED
        BY <4>1 DEF InPlace, Settling
    <3> QED
      BY <3>1, <3>2
  <2> QED
    BY <2>3, <2>4 DEF InPlace, Cached
<1>3. CASE pc[c] = "request"
  <2>1. /\ UNCHANGED <<promise, answer>> /\ pc'[c] \notin {"await", "settled"}
        /\ \A d \in Caller \ {c} : pc'[d] = pc[d]
    BY <1>3 DEF ExchangeEnds, Goto, End, IInv, TypeOK
  <2>2. binary <= binary' /\ binary' <= installed' /\ Cached' /\ (promise'.how = "ok" => promise'.caps = binary')
    BY <1>1, <2>1 DEF InPlace, Cached
  <2> QED
    BY <2>1, <2>2, MovedOn DEF IInv
<1> QED
  BY <1>2, <1>3 DEF IInv, CallInv, Exchanging

\* The exchange: what runs is what the path holds, and a reply only counts while
\* the path holds the bound binary.
LEMMA InPlaceExchange ==
  ASSUME IInv, TypeOK', ~Managed, InPlace, NEW c \in Caller, Exchange(c)
  PROVE  InPlace'
<1> USE DEF worldVars, executorVars, localVars
<1>1. CASE ReadPointer(c) \/ Bind(c) \/ Spawn(c)
  BY <1>1 DEF ReadPointer, Bind, Spawn, InPlace, Cached, Settling
<1>2. CASE BindElsewhere(c)
  <2>1. /\ binary' = installed /\ caps' = None /\ capsOf' = None /\ promise' = NoPromise
        /\ installed' = installed /\ negId' = negId
    BY <1>2 DEF BindElsewhere, Adopt, Resolved
  <2>2. \A d \in Caller :
          \/ pc'[d] \notin {"await", "settled"}
          \/ pc'[d] = pc[d] /\ UNCHANGED answer[d]
          \/ pc[d] = "await" /\ pc'[d] = "settled" /\ answer'[d].how # "ok"
    BY <1>2 DEF BindElsewhere, Wake, Answer, End, Goto, IInv, TypeOK
  <2>3. binary <= binary' /\ binary' <= installed' /\ Cached' /\ (promise'.how = "ok" => promise'.caps = binary')
    BY <2>1, Binaries DEF InPlace, Cached, NoPromise, IInv, TypeOK
  <2> QED
    BY <2>1, <2>2, <2>3, MovedOn DEF IInv
<1>3. CASE Reply(c)
  <2>1. rpc[c] = "run" /\ ran[c] \in Binary /\ bound[c] \in Binary
        /\ bound[c] <= ran[c] /\ ran[c] <= installed
    BY <1>3 DEF Reply, IInv, CallInv, Exchanging, Started
  <2>2. PICK how \in {"ok", "failed"} :
          ExchangeEnds(c, how, ran[c]) /\ (how = "ok" => installed = bound[c])
    BY <1>3 DEF Reply, IdentityOf
  <2>3. how = "ok" => ran[c] = installed
    <3>1. installed \in Nat /\ ran[c] \in Nat
      BY <2>1, Binaries DEF IInv, TypeOK
    <3> QED
      BY <2>1, <2>2, <3>1
  <2> QED
    BY <1>3, <2>1, <2>2, <2>3, InPlaceEnd DEF Reply
<1>4. CASE ExchangeFails(c)
  BY <1>4, InPlaceEnd DEF ExchangeFails
<1>5. CASE ExchangeTimesOut(c)
  BY <1>5, InPlaceEnd DEF ExchangeTimesOut
<1> QED
  BY <1>1, <1>2, <1>3, <1>4, <1>5 DEF Exchange

\* The end of a call, and the world around it.
LEMMA InPlaceRest ==
  ASSUME IInv, TypeOK', InPlace, UNCHANGED vars \/ Install \/ CheckDue
           \/ \E c \in Caller : Finish(c) \/ Return(c) \/ Deadline(c)
  PROVE  InPlace'
<1> USE DEF Goto, End, worldVars, executorVars, localVars, rpcVars
<1>1. ASSUME NEW c \in Caller, Finish(c) \/ Return(c) \/ Deadline(c) PROVE InPlace'
  <2>1. /\ UNCHANGED <<installed, executorVars>>
        /\ \A d \in Caller : pc'[d] \notin {"await", "settled"}
                             \/ (pc'[d] = pc[d] /\ UNCHANGED <<negId[d], answer[d]>>)
    BY <1>1 DEF Finish, Return, Deadline, IInv, TypeOK
  <2>2. binary <= binary' /\ binary' <= installed' /\ Cached' /\ (promise'.how = "ok" => promise'.caps = binary')
    BY <2>1, Binaries DEF InPlace, Cached, IInv, TypeOK
  <2> QED
    BY <2>1, <2>2, MovedOn DEF IInv
<1>2. CASE UNCHANGED vars \/ Install \/ CheckDue
  <2>1. /\ UNCHANGED <<executorVars, pc, negId, answer>>
        /\ installed' \in {installed, installed + 1}
    BY <1>2 DEF vars, Install, CheckDue
  <2>2. binary <= installed'
    BY <2>1, Binaries DEF InPlace, IInv, TypeOK
  <2> QED
    BY <2>1, <2>2 DEF InPlace, Cached, Settling
<1> QED
  BY <1>1, <1>2

\* The executor keeps up with the path.
LEMMA AlwaysInPlace ==
  ASSUME ~Managed
  PROVE  Spec => []InPlace
<1>1. IInv /\ InPlace /\ [Next]_vars => InPlace'
  <2>1. IInv /\ [Next]_vars => TypeOK'
    BY StepInvariant DEF IInv
  <2> QED
    BY <2>1, InPlacePrepare, InPlaceEnsure, InPlaceExchange, InPlaceRest DEF Next
<1> QED
  BY <1>1, InPlaceInit, Invariance, PTL DEF Spec

\* The capabilities in the cache are those of the binary the executor has, for any
\* number of calls, cached, shared, private and synchronous, of an explicit path
\* whose file is replaced at any moment (README.md: "Cached capabilities are
\* discarded when a file-backed CLI identity changes").
THEOREM CallersOwnCache ==
  ASSUME ~Managed
  PROVE  Spec => []CachedCapabilitiesAreOwn
<1>1. InPlace => CachedCapabilitiesAreOwn
  BY DEF InPlace, Cached, CachedCapabilitiesAreOwn
<1> QED
  BY <1>1, AlwaysInPlace, PTL

-----------------------------------------------------------------------------
(***************************************************************************)
(* The capabilities of a call at an explicit path.  A synchronous call     *)
(* keeps the thread: from its last look at the path to the spawn nobody    *)
(* makes the executor adopt another binary.                                *)
(***************************************************************************)
Fitting(c) ==
  /\ again[c] => held[c] # None
  /\ mode[c] = "sync" =>
       /\ pc[c] \notin {"idle", "done"} => thread = c
       /\ pc[c] = "send" => held[c] = binary
       /\ pc[c] = "request" /\ rpc[c] \in {"bind", "verify"} => held[c] = binary
       /\ pc[c] = "request" /\ rpc[c] \in {"spawn", "run"} => held[c] = bound[c]
       /\ pc[c] = "reply" => held[c] = ran[c]

\* No call has begun.
LEMMA FittingInit == ASSUME NEW c \in Caller, Init PROVE Fitting(c)
  BY DEF Init, Fitting

\* The steps of d that can be taken while a synchronous call of c runs.
Aside(d) == ReadPointer(d) \/ Return(d) \/ Deadline(d)

\* What a step of d does to another call c, at most: it wakes it.
LEMMA OthersLeaveAlone ==
  ASSUME IInv, NEW c \in Caller, NEW d \in Caller, c # d,
         \/ Call(d) \/ Prepare(d) \/ Ensure(d) \/ Send(d) \/ Exchange(d) \/ Finish(d)
         \/ Return(d) \/ Deadline(d)
  PROVE  /\ UNCHANGED <<mode[c], again[c], held[c], rpc[c], bound[c], ran[c], outcome[c]>>
         /\ pc'[c] = pc[c] \/ (pc[c] = "await" /\ pc'[c] = "settled")
         /\ thread \in {NoCaller, d} \/ (Aside(d) /\ UNCHANGED <<thread, binary>> /\ pc'[c] = pc[c])
<1> USE DEF Goto, End, Proceed, executorVars, localVars, rpcVars
<1>1. CASE Call(d)
  BY <1>1 DEF Call, IInv, TypeOK
<1>2. CASE Prepare(d)
  <2>1. CASE OutOfTime(d) \/ ResolutionFails(d)
    BY <2>1 DEF OutOfTime, ResolutionFails, CanRun, IInv, TypeOK
  <2>2. CASE Refresh(d)
    BY <2>2 DEF Refresh, CanRun, IInv, TypeOK
  <2>3. CASE RefreshWithUpdate(d)
    BY <2>3 DEF RefreshWithUpdate, CanRun, IInv, TypeOK
  <2> QED
    BY <1>2, <2>1, <2>2, <2>3 DEF Prepare
<1>3. CASE Ensure(d)
  BY <1>3 DEF Ensure, UseCached, Negotiate, Join, Negotiated, NegotiationLost, CanRun, IInv, TypeOK
<1>4. CASE Send(d) \/ Finish(d)
  BY <1>4 DEF Send, Finish, CanRun, IInv, TypeOK
<1>5. CASE Return(d) \/ Deadline(d) \/ ReadPointer(d)
  BY <1>5 DEF Return, Deadline, ReadPointer, Aside, IInv, TypeOK
<1>6. CASE Bind(d) \/ Spawn(d)
  BY <1>6 DEF Bind, Spawn, CanRun, IInv, TypeOK
<1>7. CASE BindElsewhere(d)
  BY <1>7 DEF BindElsewhere, Wake, CanRun, IInv, TypeOK
<1>8. CASE Reply(d) \/ ExchangeFails(d) \/ ExchangeTimesOut(d)
  <2>1. PICK how, b : ExchangeEnds(d, how, b)
    BY <1>8 DEF Reply, ExchangeFails, ExchangeTimesOut
  <2>2. /\ rpc' = [rpc EXCEPT ![d] = "none"]
        /\ pc'[c] = pc[c] \/ (pc[c] = "await" /\ pc'[c] = "settled")
        /\ outcome'[c] = outcome[c]
    BY <2>1 DEF ExchangeEnds, Wake, IInv, TypeOK
  <2> QED
    BY <1>8, <2>2 DEF Reply, ExchangeFails, ExchangeTimesOut, CanRun, IInv, TypeOK
<1> QED
  BY <1>1, <1>2, <1>3, <1>4, <1>5, <1>6, <1>7, <1>8 DEF Exchange

\* A step of another call finds no synchronous call running, or does not disturb it.
LEMMA FittingBystander ==
  ASSUME IInv, NEW c \in Caller, NEW d \in Caller, c # d, Fitting(c),
         \/ Call(d) \/ Prepare(d) \/ Ensure(d) \/ Send(d) \/ Exchange(d) \/ Finish(d)
         \/ Return(d) \/ Deadline(d)
  PROVE  Fitting(c)'
<1>1. /\ UNCHANGED <<mode[c], again[c], held[c], rpc[c], bound[c], ran[c]>>
      /\ pc'[c] = pc[c] \/ (pc[c] = "await" /\ pc'[c] = "settled")
      /\ thread \in {NoCaller, d} \/ (UNCHANGED <<thread, binary>> /\ pc'[c] = pc[c])
  BY OthersLeaveAlone
<1>2. CASE thread \in {NoCaller, d}
  <2>1. thread # c
    BY <1>2, CallersAssumption
  <2> QED
    BY <1>1, <2>1 DEF Fitting
<1>3. CASE UNCHANGED <<thread, binary>> /\ pc'[c] = pc[c]
  BY <1>1, <1>3 DEF Fitting
<1> QED
  BY <1>1, <1>2, <1>3

\* Before the exchange: what is sent is what the path has just been found to hold.
LEMMA FittingBefore ==
  ASSUME IInv, InPlace, NEW c \in Caller, Fitting(c),
         Call(c) \/ Prepare(c) \/ Ensure(c) \/ Send(c)
  PROVE  Fitting(c)' /\ (pc[c] # "send" /\ pc'[c] = "send" => held'[c] = binary')
<1> USE DEF Goto, End, Proceed, Yield, executorVars, localVars, rpcVars
<1>0. /\ pc[c] \notin {"await", "request"} => rpc[c] = "none"
      /\ binary # None /\ \A b \in Binary : b # None /\ b \in Nat
  BY Quiet, Binaries DEF IInv, TypeOK
<1>1. CASE Call(c) \/ Send(c)
  BY <1>1 DEF Call, Send, IInv, TypeOK, Fitting
<1>2. CASE OutOfTime(c) \/ ResolutionFails(c)
  BY <1>2 DEF OutOfTime, ResolutionFails, IInv, TypeOK, Fitting
<1>3. CASE Refresh(c) \/ RefreshWithUpdate(c)
  <2>1. /\ UNCHANGED <<mode, again, held, rpc>> /\ thread' = c
        /\ \/ UNCHANGED <<binary, caps>> /\ pc'[c] = AfterRefresh(c, caps)
           \/ pc'[c] = AfterRefresh(c, None)
    BY <1>3 DEF Refresh, RefreshWithUpdate, IInv, TypeOK
  <2>2. pc'[c] \in {"send", "ensure"} /\ (pc'[c] = "send" => held[c] = binary')
    BY <2>1 DEF AfterRefresh, Fitting, InPlace, Cached
  <2> QED
    BY <2>1, <2>2 DEF Fitting
<1>4. CASE UseCached(c)
  BY <1>4 DEF UseCached, CapabilitiesCached, IInv, TypeOK, Fitting, InPlace, Cached
<1>5. CASE Negotiate(c) \/ Join(c)
  BY <1>5 DEF Negotiate, Join, IInv, TypeOK, Fitting
<1>6. CASE Negotiated(c)
  <2>1. answer[c].caps = binary
    <3>1. /\ negId[c] = binary /\ answer[c].caps \in Binary
          /\ negId[c] <= answer[c].caps /\ answer[c].caps <= binary
      BY <1>6 DEF Negotiated, InPlace, Settling
    <3>2. answer[c].caps \in Nat /\ binary \in Nat
      BY <1>0, <3>1 DEF IInv, TypeOK
    <3> QED
      BY <3>1, <3>2
  <2>2. held'[c] = binary /\ binary' = binary
    BY <1>6, <2>1 DEF Negotiated, InPlace, Cached, IInv, TypeOK
  <2> QED
    BY <1>0, <1>6, <2>2 DEF Negotiated, IInv, TypeOK, Fitting
<1>7. CASE NegotiationLost(c)
  BY <1>7 DEF NegotiationLost, IInv, TypeOK, Fitting
<1> QED
  BY <1>1, <1>2, <1>3, <1>4, <1>5, <1>6, <1>7 DEF Prepare, Ensure

\* The exchange and the end: what is bound, and what ran, is what was sent to.
LEMMA FittingAfter ==
  ASSUME IInv, IInv', NEW c \in Caller, Fitting(c),
         Exchange(c) \/ Finish(c) \/ Return(c) \/ Deadline(c)
  PROVE  Fitting(c)' /\ (pc'[c] = "send" => pc[c] = "send")
<1> USE DEF Goto, End, Yield, executorVars, localVars, rpcVars
<1>0. /\ rpc[c] # "none" => pc[c] \in {"await", "request"}
      /\ pc'[c] = "reply" => ran'[c] = bound'[c]
  BY DEF IInv, CallInv, Exchanging, Answered
<1>1. CASE ReadPointer(c) \/ Spawn(c) \/ Deadline(c)
  <2>1. CASE ReadPointer(c)
    BY <2>1 DEF ReadPointer, IInv, TypeOK, Fitting
  <2>2. CASE Spawn(c)
    BY <1>0, <2>2 DEF Spawn, IInv, TypeOK, Fitting
  <2>3. CASE Deadline(c)
    BY <2>3 DEF Deadline, IInv, TypeOK, Fitting
  <2> QED
    BY <1>1, <2>1, <2>2, <2>3
<1>2. CASE Bind(c)
  BY <1>2 DEF Bind, IInv, TypeOK, Fitting
<1>3. CASE BindElsewhere(c)
  <2>1. rpc'[c] = "none" /\ UNCHANGED <<mode, again, held>>
    BY <1>3 DEF BindElsewhere, IInv, TypeOK
  <2>2. \/ pc[c] = "await" /\ pc'[c] \in {"await", "settled"} /\ Yield(c)
        \/ pc'[c] = "done"
    BY <1>3 DEF BindElsewhere, Wake, IInv, TypeOK
  <2> QED
    BY <2>1, <2>2 DEF Fitting
<1>4. CASE Reply(c) \/ ExchangeFails(c) \/ ExchangeTimesOut(c)
  <2>1. PICK how, b : ExchangeEnds(c, how, b) /\ (how = "ok" => rpc[c] = "run")
    BY <1>4 DEF Reply, ExchangeFails, ExchangeTimesOut
  <2>2. UNCHANGED <<mode, again, held, bound, ran>> /\ rpc'[c] = "none"
    BY <1>4, <2>1 DEF Reply, ExchangeFails, ExchangeTimesOut, ExchangeEnds, IInv, TypeOK
  <2>3. \/ pc[c] = "await" /\ pc'[c] \in {"await", "settled"} /\ Yield(c)
        \/ pc[c] = "request" /\ pc'[c] = "reply" /\ Yield(c) /\ rpc[c] = "run"
        \/ pc'[c] = "done"
    BY <2>1 DEF ExchangeEnds, Wake, IInv, TypeOK
  <2> QED
    BY <1>0, <2>2, <2>3 DEF Fitting
<1>5. CASE Finish(c) \/ Return(c)
  BY <1>5 DEF Finish, Return, IInv, TypeOK, Fitting
<1> QED
  BY <1>1, <1>2, <1>3, <1>4, <1>5 DEF Exchange

\* No call is touched: another binary, the next check, or nothing at all.
LEMMA FittingWorld ==
  ASSUME NEW c \in Caller, Fitting(c), Install \/ CheckDue \/ UNCHANGED vars
  PROVE  Fitting(c)' /\ pc'[c] = pc[c]
  BY DEF Install, CheckDue, vars, executorVars, localVars, rpcVars, Fitting

\* A result is only given by the last step of a call, which had what it ran.
LEMMA ResultIsRepliedTo ==
  ASSUME IInv, NEW c \in Caller, [Next]_vars, outcome[c] # "ok", outcome'[c] = "ok"
  PROVE  pc[c] = "reply"
<1> USE DEF Goto, End, executorVars, localVars, rpcVars
<1>1. ASSUME NEW d \in Caller,
             \/ Call(d) \/ Prepare(d) \/ Ensure(d) \/ Send(d) \/ Exchange(d) \/ Finish(d)
             \/ Return(d) \/ Deadline(d)
      PROVE  d = c
  BY <1>1, OthersLeaveAlone
<1>2. CASE Call(c) \/ Send(c) \/ Return(c) \/ Deadline(c)
  BY <1>2 DEF Call, Send, Return, Deadline, IInv, TypeOK
<1>3. CASE Prepare(c)
  BY <1>3 DEF Prepare, OutOfTime, Refresh, RefreshWithUpdate, ResolutionFails, IInv, TypeOK
<1>4. CASE Ensure(c)
  BY <1>4 DEF Ensure, UseCached, Negotiate, Join, Negotiated, NegotiationLost, Proceed, IInv, TypeOK
<1>5. CASE Exchange(c)
  BY <1>5 DEF Exchange, ReadPointer, Bind, BindElsewhere, Spawn, Reply, ExchangeFails,
              ExchangeTimesOut, ExchangeEnds, Wake, IInv, TypeOK
<1>6. CASE Finish(c)
  BY <1>6 DEF Finish
<1>7. CASE Install \/ CheckDue \/ UNCHANGED vars
  BY <1>7 DEF Install, CheckDue, vars
<1> QED
  BY <1>1, <1>2, <1>3, <1>4, <1>5, <1>6, <1>7 DEF Next

\* At an explicit path, a call is about to send its request only with capabilities
\* of the binary that the executor has at this moment, and a synchronous call has
\* its result from this very binary (execute, executeSync): for any number of calls,
\* though the file is replaced at any moment.
THEOREM ResultsFitCapabilities ==
  ASSUME ~Managed
  PROVE  Spec => ResultFitsCapabilities
<1> DEFINE AllFitting == \A c \in Caller : Fitting(c)
           Sends == \A c \in Caller : pc[c] # "send" /\ pc'[c] = "send" => held'[c] = binary'
           Results == \A c \in Caller :
             mode[c] = "sync" /\ outcome[c] # "ok" /\ outcome'[c] = "ok" => ran[c] = held[c]
<1>1. IInv /\ IInv' /\ InPlace /\ AllFitting /\ [Next]_vars => AllFitting' /\ Sends
  <2> SUFFICES ASSUME IInv, IInv', InPlace, AllFitting, [Next]_vars, NEW c \in Caller
               PROVE  Fitting(c)' /\ (pc[c] # "send" /\ pc'[c] = "send" => held'[c] = binary')
    OBVIOUS
  <2>1. ASSUME NEW d \in Caller, d # c,
               \/ Call(d) \/ Prepare(d) \/ Ensure(d) \/ Send(d) \/ Exchange(d) \/ Finish(d)
               \/ Return(d) \/ Deadline(d)
        PROVE  Fitting(c)' /\ (pc[c] # "send" => pc'[c] # "send")
    BY <2>1, FittingBystander, OthersLeaveAlone
  <2>2. CASE Call(c) \/ Prepare(c) \/ Ensure(c) \/ Send(c)
    BY <2>2, FittingBefore
  <2>3. CASE Exchange(c) \/ Finish(c) \/ Return(c) \/ Deadline(c)
    BY <2>3, FittingAfter
  <2>4. CASE Install \/ CheckDue \/ UNCHANGED vars
    BY <2>4, FittingWorld
  <2> QED
    BY <2>1, <2>2, <2>3, <2>4 DEF Next
<1>2. IInv /\ AllFitting /\ [Next]_vars => Results
  <2> SUFFICES ASSUME IInv, AllFitting, [Next]_vars, NEW c \in Caller, mode[c] = "sync",
                      outcome[c] # "ok", outcome'[c] = "ok"
               PROVE  ran[c] = held[c]
    OBVIOUS
  <2> QED
    BY ResultIsRepliedTo DEF Fitting
<1>3. Init => AllFitting
  BY FittingInit
<1>4. Spec => [][Sends /\ Results]_vars
  BY <1>1, <1>2, <1>3, Invariance, AlwaysInPlace, PTL DEF Spec
<1>5. (Sends /\ Results) => \A c \in Caller :
        /\ pc[c] # "send" /\ pc'[c] = "send" => held'[c] = binary'
        /\ mode[c] = "sync" /\ outcome[c] # "ok" /\ outcome'[c] = "ok" => ran[c] = held[c]
  OBVIOUS
<1> QED
  BY <1>4, <1>5, PTL DEF ResultFitsCapabilities

-----------------------------------------------------------------------------
(***************************************************************************)
(* Deadlines.  A call waits for its own negotiation or, without options,   *)
(* for the shared one of another call without options; and a shared        *)
(* negotiation that timed out is in capabilityPromise only until the call  *)
(* that began it has seen the end of it.                                   *)
(***************************************************************************)
SharedIsPending ==
  promise # NoPromise /\ promise.how = "pending" =>
    LET c == promise.by IN
    c \in Caller /\ pc[c] = "await" /\ joined[c] = c /\ mode[c] = "shared"

SharedTimedOut ==
  promise.how = "timeout" =>
    LET c == promise.by IN
    c \in Caller /\ pc[c] = "settled" /\ answer[c].how = "timeout" /\ over[c] /\ mode[c] = "shared"

Waits(d) ==
  pc[d] = "await" =>
    LET c == joined[d] IN
    /\ c \in Caller /\ pc[c] = "await" /\ joined[c] = c
    /\ c # d => mode[c] = "shared" /\ mode[d] = "shared"

Deadlines == SharedIsPending /\ SharedTimedOut /\ \A d \in Caller : Waits(d)

\* No call has begun.
LEMMA DeadlinesInit == Init => Deadlines
  BY DEF Init, Deadlines, SharedIsPending, SharedTimedOut, Waits, NoPromise

\* What a step of one call leaves alone.
Elsewhere(c) ==
  \A d \in Caller \ {c} : UNCHANGED <<pc[d], joined[d], mode[d], over[d], answer[d]>>

\* A call that nobody waits for moves on without a negotiation; the end of a shared
\* one that timed out is not forgotten.
LEMMA DeadlinesOfOthers ==
  ASSUME Deadlines, NEW c \in Caller, pc[c] # "await", Elsewhere(c),
         promise' \in {promise, NoPromise}, pc'[c] \notin {"await", "settled"},
         \/ pc[c] # "settled" \/ mode[c] # "shared" \/ answer[c].how # "timeout"
         \/ promise' = NoPromise
  PROVE  Deadlines'
<1>1. ASSUME NEW d \in Caller PROVE Waits(d)'
  <2>1. CASE d = c
    BY <2>1 DEF Waits
  <2>2. CASE d # c
    BY <2>2 DEF Elsewhere, Deadlines, Waits
  <2> QED
    BY <2>1, <2>2
<1>2. SharedIsPending' /\ SharedTimedOut'
  BY DEF Elsewhere, Deadlines, SharedIsPending, SharedTimedOut, NoPromise
<1> QED
  BY <1>1, <1>2 DEF Deadlines

\* Everything but the negotiation itself.
LEMMA DeadlinesAround ==
  ASSUME IInv, Deadlines, NEW c \in Caller,
         \/ Prepare(c) \/ UseCached(c) \/ Negotiated(c) \/ NegotiationLost(c)
         \/ Send(c) \/ Call(c) \/ Finish(c) \/ Return(c)
  PROVE  Deadlines'
<1> USE DEF Goto, End, worldVars, executorVars, localVars, rpcVars
<1>1. CASE Prepare(c)
  <2>1. /\ pc[c] \notin {"await", "settled"} /\ Elsewhere(c) /\ promise' \in {promise, NoPromise}
        /\ pc'[c] \notin {"await", "settled"}
    <3>1. CASE OutOfTime(c) \/ ResolutionFails(c)
      BY <3>1 DEF OutOfTime, ResolutionFails, IInv, TypeOK, Elsewhere
    <3>2. CASE Refresh(c)
      BY <3>2 DEF Refresh, Adopt, AfterRefresh, IInv, TypeOK, Elsewhere
    <3>3. CASE RefreshWithUpdate(c)
      BY <3>3 DEF RefreshWithUpdate, Adopt, AfterRefresh, IInv, TypeOK, Elsewhere
    <3> QED
      BY <1>1, <3>1, <3>2, <3>3 DEF Prepare
  <2> QED
    BY <2>1, DeadlinesOfOthers
<1>2. CASE UseCached(c) \/ Negotiated(c)
  <2>1. /\ pc[c] # "await" /\ Elsewhere(c) /\ promise' = promise
        /\ pc'[c] \notin {"await", "settled"}
        /\ pc[c] # "settled" \/ answer[c].how # "timeout"
    BY <1>2 DEF UseCached, Negotiated, Proceed, IInv, TypeOK, Elsewhere
  <2> QED
    BY <2>1, DeadlinesOfOthers
<1>3. CASE NegotiationLost(c)
  <2>1. /\ pc[c] = "settled" /\ Elsewhere(c) /\ pc'[c] = "done"
        /\ promise' = IF mode[c] = "shared" THEN NoPromise ELSE promise
    BY <1>3 DEF NegotiationLost, IInv, TypeOK, Elsewhere
  <2> QED
    BY <2>1, DeadlinesOfOthers
<1>4. CASE Send(c) \/ Finish(c) \/ Call(c) \/ Return(c)
  <2>1. /\ pc[c] \notin {"await", "settled"} /\ Elsewhere(c) /\ promise' = promise
        /\ pc'[c] \notin {"await", "settled"}
    BY <1>4 DEF Send, Finish, Call, Return, IInv, TypeOK, Elsewhere
  <2> QED
    BY <2>1, DeadlinesOfOthers
<1> QED
  BY <1>1, <1>2, <1>3, <1>4

\* A negotiation begins, or is joined.
LEMMA DeadlinesNegotiate ==
  ASSUME IInv, Deadlines, NEW c \in Caller, Negotiate(c) \/ Join(c)
  PROVE  Deadlines'
<1> USE DEF Goto, worldVars, executorVars, localVars, rpcVars
<1>0. pc[c] = "ensure" /\ (\A d \in Caller : pc[d] = "await" => joined[d] # c)
  BY DEF Negotiate, Join, Deadlines, Waits
<1>1. /\ UNCHANGED <<mode, over>>
      /\ \A d \in Caller \ {c} : UNCHANGED <<pc[d], joined[d], answer[d]>>
  BY DEF Negotiate, Join, IInv, TypeOK
<1>2. CASE Negotiate(c)
  <2>1. /\ pc'[c] = "await" /\ joined'[c] = c
        /\ promise' = IF mode[c] = "shared" THEN [by |-> c, how |-> "pending", caps |-> None] ELSE promise
    BY <1>2 DEF Negotiate, IInv, TypeOK
  <2>2. SharedIsPending' /\ SharedTimedOut'
    <3>1. CASE mode[c] = "shared"
      <4>1. promise' = [by |-> c, how |-> "pending", caps |-> None]
        BY <2>1, <3>1
      <4> QED
        BY <1>1, <2>1, <3>1, <4>1 DEF SharedIsPending, SharedTimedOut
    <3>2. CASE mode[c] # "shared"
      BY <1>0, <1>1, <2>1, <3>2 DEF Deadlines, SharedIsPending, SharedTimedOut
    <3> QED
      BY <3>1, <3>2
  <2>3. ASSUME NEW d \in Caller PROVE Waits(d)'
    BY <1>0, <1>1, <2>1 DEF Deadlines, Waits
  <2> QED
    BY <2>2, <2>3 DEF Deadlines
<1>3. CASE Join(c)
  <2>1. /\ mode[c] = "shared" /\ promise # NoPromise /\ promise' = promise
        /\ joined'[c] = promise.by
        /\ pc'[c] = IF promise.how = "pending" THEN "await" ELSE "settled"
    BY <1>3 DEF Join, IInv, TypeOK
  <2>2. SharedIsPending' /\ SharedTimedOut'
    BY <1>0, <1>1, <2>1 DEF Deadlines, SharedIsPending, SharedTimedOut
  <2>3. ASSUME NEW d \in Caller PROVE Waits(d)'
    <3>1. CASE d = c
      BY <1>0, <1>1, <2>1, <3>1 DEF Deadlines, SharedIsPending, Waits
    <3>2. CASE d # c
      BY <1>0, <1>1, <3>2 DEF Deadlines, Waits
    <3> QED
      BY <3>1, <3>2
  <2> QED
    BY <2>2, <2>3 DEF Deadlines
<1> QED
  BY <1>2, <1>3

\* A negotiation settles, for its own call and for those who wait with it.
LEMMA DeadlinesWake ==
  ASSUME IInv, Deadlines, NEW c \in Caller, NEW result,
         pc[c] = "await", rpc[c] # "none", Wake(c, result),
         result.how = "timeout" => over[c],
         UNCHANGED <<mode, over, joined>>,
         \/ promise' = NoPromise
         \/ promise' = promise /\ ~(mode[c] = "shared" /\ promise.by = c)
         \/ /\ promise'.how = result.how /\ promise'.by = c
            /\ result.how # "pending" /\ mode[c] = "shared"
  PROVE  Deadlines'
<1>1. joined[c] = c
  BY DEF IInv, CallInv, Exchanging
<1>2. \A d \in Caller :
        IF pc[d] = "await" /\ joined[d] = c THEN pc'[d] = "settled" /\ answer'[d] = result
        ELSE pc'[d] = pc[d] /\ answer'[d] = answer[d]
  BY DEF Wake
<1>3. ASSUME NEW d \in Caller PROVE Waits(d)'
  BY <1>1, <1>2 DEF Deadlines, Waits
<1>4. SharedIsPending' /\ SharedTimedOut'
  <2>1. CASE promise' = NoPromise
    BY <2>1 DEF SharedIsPending, SharedTimedOut, NoPromise
  <2>2. CASE promise' = promise /\ ~(mode[c] = "shared" /\ promise.by = c)
    BY <1>1, <1>2, <2>2 DEF Deadlines, SharedIsPending, SharedTimedOut
  <2>3. CASE /\ promise'.how = result.how /\ promise'.by = c
             /\ result.how # "pending" /\ mode[c] = "shared"
    BY <1>1, <1>2, <2>3 DEF SharedIsPending, SharedTimedOut
  <2> QED
    BY <2>1, <2>2, <2>3
<1> QED
  BY <1>3, <1>4 DEF Deadlines

\* The exchange ends.
LEMMA DeadlinesEnd ==
  ASSUME IInv, Deadlines, NEW c \in Caller, rpc[c] # "none",
         NEW how \in {"ok", "failed", "timeout"}, NEW b, how = "timeout" => over[c],
         ExchangeEnds(c, how, b), UNCHANGED <<mode, over, joined>>
  PROVE  Deadlines'
<1> DEFINE result == NegotiationResult(c, how, b)
<1>1. result.how # "pending" /\ (result.how = "timeout" => over[c])
  BY DEF NegotiationResult, Answer
<1> HIDE DEF result
<1>2. CASE pc[c] = "await"
  <2>1. Wake(c, result) /\ promise' = IF mode[c] = "shared" /\ promise.by = c
                                      THEN [by |-> c, how |-> result.how, caps |-> result.caps]
                                      ELSE promise
    BY <1>2 DEF ExchangeEnds, result
  <2>2. \/ promise' = promise /\ ~(mode[c] = "shared" /\ promise.by = c)
        \/ /\ promise'.how = result.how /\ promise'.by = c
           /\ result.how # "pending" /\ mode[c] = "shared"
    BY <1>1, <2>1
  <2> QED
    BY <1>1, <1>2, <2>1, <2>2, DeadlinesWake
<1>3. CASE pc[c] = "request"
  <2>1. Elsewhere(c) /\ promise' = promise /\ pc'[c] \in {"reply", "done"}
    BY <1>3 DEF ExchangeEnds, Goto, End, IInv, TypeOK, Elsewhere
  <2> QED
    BY <1>3, <2>1, DeadlinesOfOthers
<1> QED
  BY <1>2, <1>3 DEF IInv, CallInv, Exchanging

\* The exchange.
LEMMA DeadlinesExchange ==
  ASSUME IInv, Deadlines, NEW c \in Caller, Exchange(c)
  PROVE  Deadlines'
<1> USE DEF worldVars, executorVars, localVars
<1>1. CASE ReadPointer(c) \/ Bind(c) \/ Spawn(c)
  BY <1>1 DEF ReadPointer, Bind, Spawn, Deadlines, SharedIsPending, SharedTimedOut, Waits
<1>2. CASE BindElsewhere(c)
  <2>1. /\ promise' = NoPromise /\ rpc[c] # "none" /\ UNCHANGED <<mode, over, joined>>
    BY <1>2 DEF BindElsewhere, Adopt
  <2>2. CASE pc[c] = "await" /\ Wake(c, Answer("failed", None))
    BY <2>1, <2>2, DeadlinesWake DEF Answer
  <2>3. CASE pc[c] = "request" /\ End(c, "failed") /\ UNCHANGED answer
    <3>1. Elsewhere(c) /\ pc'[c] = "done"
      BY <2>1, <2>3 DEF End, Goto, IInv, TypeOK, Elsewhere
    <3> QED
      BY <2>1, <2>3, <3>1, DeadlinesOfOthers
  <2> QED
    BY <1>2, <2>2, <2>3 DEF BindElsewhere
<1>3. CASE Reply(c)
  <2>1. PICK how \in {"ok", "failed"} : ExchangeEnds(c, how, ran[c])
    BY <1>3 DEF Reply
  <2> QED
    BY <1>3, <2>1, DeadlinesEnd DEF Reply
<1>4. CASE ExchangeFails(c)
  BY <1>4, DeadlinesEnd DEF ExchangeFails
<1>5. CASE ExchangeTimesOut(c)
  BY <1>5, DeadlinesEnd DEF ExchangeTimesOut
<1> QED
  BY <1>1, <1>2, <1>3, <1>4, <1>5 DEF Exchange

\* Who waits for whom, in every state.
LEMMA AlwaysDeadlines == Spec => []Deadlines
<1>1. ASSUME IInv, Deadlines, [Next]_vars PROVE Deadlines'
  <2>1. ASSUME NEW c \in Caller, Deadline(c) PROVE Deadlines'
    BY <1>1, <2>1
    DEF Deadline, executorVars, IInv, TypeOK, Deadlines, SharedIsPending, SharedTimedOut, Waits
  <2>2. CASE Install \/ CheckDue \/ UNCHANGED vars
    BY <1>1, <2>2
    DEF Install, CheckDue, vars, executorVars, localVars, Deadlines, SharedIsPending,
        SharedTimedOut, Waits
  <2> QED
    BY <1>1, <2>1, <2>2, DeadlinesAround, DeadlinesNegotiate, DeadlinesExchange DEF Next, Ensure
<1> QED
  BY <1>1, DeadlinesInit, Invariance, PTL DEF Spec

\* Only a deadline of its own, or what it was told, makes a call time out.
LEMMA OutcomeTimesOut ==
  ASSUME IInv, NEW c \in Caller, [Next]_vars, outcome[c] # "timeout", outcome'[c] = "timeout"
  PROVE  over[c] \/ answer[c].how = "timeout"
<1> USE DEF Goto, End, executorVars, localVars, rpcVars
<1>1. ASSUME NEW d \in Caller,
             \/ Call(d) \/ Prepare(d) \/ Ensure(d) \/ Send(d) \/ Exchange(d) \/ Finish(d)
             \/ Return(d) \/ Deadline(d)
      PROVE  d = c
  BY <1>1, OthersLeaveAlone
<1>2. CASE Call(c) \/ Send(c) \/ Finish(c) \/ Return(c) \/ Deadline(c)
  BY <1>2 DEF Call, Send, Finish, Return, Deadline, IInv, TypeOK
<1>3. CASE Prepare(c)
  BY <1>3 DEF Prepare, OutOfTime, Refresh, RefreshWithUpdate, ResolutionFails, IInv, TypeOK
<1>4. CASE Ensure(c)
  BY <1>4 DEF Ensure, UseCached, Negotiate, Join, Negotiated, NegotiationLost, Proceed, IInv, TypeOK
<1>5. CASE Exchange(c)
  BY <1>5 DEF Exchange, ReadPointer, Bind, BindElsewhere, Spawn, Reply, ExchangeFails,
              ExchangeTimesOut, ExchangeEnds, Wake, IInv, TypeOK
<1>6. CASE Install \/ CheckDue \/ UNCHANGED vars
  BY <1>6 DEF Install, CheckDue, vars
<1> QED
  BY <1>1, <1>2, <1>3, <1>4, <1>5, <1>6 DEF Next

\* Who is told that a negotiation timed out waits for his own, or shares it.
Told(c) ==
  LET by == joined'[c] IN
  over[by] /\ (by = c \/ (mode[by] = "shared" /\ mode[c] = "shared"))

\* A negotiation times out, or is joined when it has.
LEMMA AnswerTimesOut ==
  ASSUME IInv, Deadlines, NEW c \in Caller, [Next]_vars,
         answer[c].how # "timeout", answer'[c].how = "timeout"
  PROVE  Told(c)
<1> USE DEF Goto, End, executorVars, localVars, rpcVars
<1>0. Pending.how # "timeout"
  BY DEF Pending, Answer
<1>1. ASSUME NEW d \in Caller, Call(d) \/ Prepare(d) \/ Send(d) \/ Finish(d) \/ Deadline(d)
      PROVE  answer' = answer
  BY <1>1 DEF Call, Prepare, OutOfTime, Refresh, RefreshWithUpdate, ResolutionFails, Send, Finish,
              Deadline
<1>2. ASSUME NEW d \in Caller,
             Return(d) \/ UseCached(d) \/ Negotiate(d) \/ Negotiated(d) \/ NegotiationLost(d)
      PROVE  answer'[c] \in {answer[c], Pending}
  BY <1>2 DEF Return, UseCached, Negotiate, Negotiated, NegotiationLost, Proceed, IInv, TypeOK
<1>3. ASSUME NEW d \in Caller, Join(d) PROVE Told(c)
  <2>1. d = c
    BY <1>3 DEF Join, IInv, TypeOK
  <2>2. /\ joined'[c] = promise.by /\ mode[c] = "shared"
        /\ answer'[c] = Answer(promise.how, promise.caps)
    BY <1>3, <2>1 DEF Join, IInv, TypeOK
  <2>3. promise.how = "timeout"
    BY <2>2 DEF Answer
  <2> QED
    BY <2>2, <2>3 DEF Told, Deadlines, SharedTimedOut
<1>4. ASSUME NEW d \in Caller, ReadPointer(d) \/ Bind(d) \/ Spawn(d) PROVE answer' = answer
  BY <1>4 DEF ReadPointer, Bind, Spawn
<1>5. ASSUME NEW d \in Caller, NEW result, Wake(d, result), joined' = joined,
             result.how = "timeout" => over[d]
      PROVE  Told(c)
  <2>1. pc[c] = "await" /\ joined[c] = d /\ answer'[c] = result
    BY <1>5 DEF Wake
  <2> QED
    BY <1>5, <2>1 DEF Told, Deadlines, Waits
<1>6. ASSUME NEW d \in Caller, BindElsewhere(d) PROVE Told(c)
  <2>1. Wake(d, Answer("failed", None)) /\ joined' = joined
    BY <1>6 DEF BindElsewhere
  <2> QED
    BY <1>5, <2>1 DEF Answer
<1>7. ASSUME NEW d \in Caller, Reply(d) \/ ExchangeFails(d) \/ ExchangeTimesOut(d) PROVE Told(c)
  <2>1. PICK how, b : ExchangeEnds(d, how, b) /\ joined' = joined /\ (how = "timeout" => over[d])
    BY <1>7 DEF Reply, ExchangeFails, ExchangeTimesOut
  <2>2. Wake(d, NegotiationResult(d, how, b))
    BY <2>1 DEF ExchangeEnds
  <2>3. NegotiationResult(d, how, b).how = "timeout" => over[d]
    BY <2>1 DEF NegotiationResult, Answer
  <2> QED
    BY <1>5, <2>1, <2>2, <2>3
<1>8. CASE Install \/ CheckDue \/ UNCHANGED vars
  BY <1>8 DEF Install, CheckDue, vars
<1> QED
  BY <1>0, <1>1, <1>2, <1>3, <1>4, <1>6, <1>7, <1>8 DEF Next, Ensure, Exchange

\* A call times out by its own deadline, or with the default negotiation that it
\* shares with the call whose deadline it was (binary.ts: "A caller-specific
\* signal/timeout must never poison unrelated concurrent callers. Only the default
\* negotiation is shared"), whichever calls have a deadline.
THEOREM TimeoutsReachSharers == Spec => TimeoutReachesSharers
<1> DEFINE Outcomes == \A c \in Caller :
             outcome[c] # "timeout" /\ outcome'[c] = "timeout" => over[c] \/ answer[c].how = "timeout"
           Tellings == \A c \in Caller :
             answer[c].how # "timeout" /\ answer'[c].how = "timeout" => Told(c)
<1>1. IInv /\ Deadlines /\ [Next]_vars => Outcomes /\ Tellings
  BY OutcomeTimesOut, AnswerTimesOut
<1>2. Spec => [][Outcomes /\ Tellings]_vars
  BY <1>1, Invariance, AlwaysDeadlines, PTL DEF Spec
<1>3. (Outcomes /\ Tellings) => \A c \in Caller :
        /\ outcome[c] # "timeout" /\ outcome'[c] = "timeout" =>
             over[c] \/ answer[c].how = "timeout"
        /\ answer[c].how # "timeout" /\ answer'[c].how = "timeout" =>
             LET by == joined'[c] IN
             over[by] /\ (by = c \/ (mode[by] = "shared" /\ mode[c] = "shared"))
  BY DEF Told
<1> QED
  BY <1>2, <1>3, PTL DEF TimeoutReachesSharers
=============================================================================
