------------------------- MODULE LockerCallsProofs -------------------------
(***************************************************************************)
(* What ErrorCatalog makes of any code, kind and hint, and the safety      *)
(* properties of LockerCalls for any number of calls at a time, any keys,  *)
(* environments and files, and any errors of the CLI.                      *)
(***************************************************************************)
EXTENDS LockerCalls, TLAPS

-----------------------------------------------------------------------------
\* An error that the SDK calls retryable is of a transient class, whatever the
\* CLI sends (errorFromResponse, effectiveRetryable).
THEOREM RetryableErrors ==
  ASSUME NEW code \in Int, NEW kind, NEW hint \in BOOLEAN, Retryable(code, kind, hint)
  PROVE  ErrorClass(code, kind) \in TransientClasses /\ (code = Server => kind # "internal_error")
<1> USE DEF OperationFailed, Authentication, PermissionDenied, NotFound, Conflict, Validation,
            RateLimited, Network, Server, Storage, Integrity
<1>1. /\ LockerServerErrorCode(code) /\ code \notin StandardProtocolCodes
      /\ code \notin {Authentication, PermissionDenied, NotFound, OperationFailed, Conflict,
                      Validation, Storage, Integrity}
      /\ code = Server => kind # "internal_error"
  BY DEF Retryable, NormativelyNonRetryable, LockerServerErrorCode, StandardProtocolCodes
<1>2. CASE code \in {RateLimited, Network, Server}
  BY <1>1, <1>2 DEF ErrorClass, TransientClasses, StandardProtocolCodes
<1>3. CASE code \notin {RateLimited, Network, Server}
  <2>1. ErrorClass(code, kind) = "LockerError"
    BY <1>1, <1>3 DEF ErrorClass
  <2> QED
    BY <1>1, <2>1 DEF TransientClasses
<1> QED
  BY <1>2, <1>3

\* The class of an error is one of the SDK's, and one number means "not found".
LEMMA ClassNames ==
  ASSUME NEW code, NEW kind
  PROVE  /\ ErrorClass(code, kind) \notin {"granted", "none", "LockerTransportError"}
         /\ ErrorClass(code, kind) \in Classes
  BY DEF ErrorClass, OperationClass, Classes

\* The class LockerNotFoundError is that of one code only.
LEMMA ClassOfNotFound ==
  ASSUME NEW code \in Int, NEW kind
  PROVE  code = NotFound <=> ErrorClass(code, kind) = "LockerNotFoundError"
  BY DEF ErrorClass, OperationClass, StandardProtocolCodes, LockerServerErrorCode,
     OperationFailed, Authentication, PermissionDenied, NotFound, Conflict, Validation,
     RateLimited, Network, Server, Storage, Integrity

\* The predicates say of an error of the CLI what its class says, although they
\* look at code and kind as well (isLockerNotFoundError and the others).
THEOREM PredicatesAgree ==
  ASSUME NEW code \in Int, NEW kind, NEW hint \in BOOLEAN
  PROVE  LET e == ErrorFromResponse(code, kind, hint) IN
         /\ IsLockerNotFoundError(e) <=> e.class = "LockerNotFoundError"
         /\ IsLockerAlreadyExistsError(e) <=> e.class = "LockerAlreadyExistsError"
         /\ IsLockerConflictError(e)
              <=> e.class \in {"LockerConflictError", "LockerAlreadyExistsError"}
<1> DEFINE e == ErrorFromResponse(code, kind, hint)
<1> USE DEF OperationFailed, Authentication, PermissionDenied, NotFound, Conflict, Validation,
            RateLimited, Network, Server, Storage, Integrity
<1>1. e.class = ErrorClass(code, kind) /\ e.code = code /\ e.kind = kind
  BY DEF ErrorFromResponse
<1>2. code = NotFound <=> ErrorClass(code, kind) = "LockerNotFoundError"
  BY ClassOfNotFound
<1>3. code \in {Conflict, OperationFailed} /\ kind \in AlreadyExistsKinds
        <=> ErrorClass(code, kind) = "LockerAlreadyExistsError"
  BY DEF ErrorClass, OperationClass, StandardProtocolCodes, LockerServerErrorCode,
         AlreadyExistsKinds, IntegrityKinds
<1>4. code = Conflict \/ (code = OperationFailed /\ (kind = "conflict" \/ kind \in AlreadyExistsKinds))
        <=> ErrorClass(code, kind) \in {"LockerConflictError", "LockerAlreadyExistsError"}
  BY DEF ErrorClass, OperationClass, StandardProtocolCodes, LockerServerErrorCode,
         AlreadyExistsKinds, IntegrityKinds
<1>5. ErrorClass(code, kind) # "LockerTransportError"
  BY ClassNames
<1> HIDE DEF e
<1>6. IsLockerError(e)
  BY <1>1, <1>5 DEF IsLockerError
<1>7. IsLockerNotFoundError(e) <=> e.class = "LockerNotFoundError"
  BY <1>1, <1>2, <1>6 DEF IsLockerNotFoundError
<1>8. IsLockerAlreadyExistsError(e) <=> e.class = "LockerAlreadyExistsError"
  BY <1>1, <1>3, <1>6 DEF IsLockerAlreadyExistsError
<1>9. IsLockerConflictError(e)
        <=> e.class \in {"LockerConflictError", "LockerAlreadyExistsError"}
  BY <1>1, <1>4, <1>6 DEF IsLockerConflictError
<1> QED
  BY <1>7, <1>8, <1>9 DEF e

-----------------------------------------------------------------------------
\* What the SDK can be told at all.
IsAnswer(a) ==
  \/ a \in {NoAnswer, Granted, TransportError}
  \/ \E code \in Int, kind \in Kinds, hint \in BOOLEAN : a = ErrorFromResponse(code, kind, hint)

IsTransient(a) ==
  a.class \in TransientClasses /\ (a.code = Server => a.kind # "internal_error")

\* Secrets and environments are different things.
LEMMA ThingsDiffer == Secrets \cap Environments = {}
  BY NamesAssumption DEF Secrets, Environments

\* Every answer has the type of answers, and is retryable only for a transient
\* reason.
LEMMA AnswerFacts ==
  ASSUME NEW a, IsAnswer(a)
  PROVE  /\ a \in Answers
         /\ a.retryable => IsTransient(a)
<1>1. CASE a \in {NoAnswer, Granted, TransportError}
  <2>1. ~NoAnswer.retryable /\ ~Granted.retryable /\ ~TransportError.retryable
    BY DEF NoAnswer, Granted, TransportError
  <2>2. NoAnswer \in Answers
    BY DEF NoAnswer, Answers, Classes, Kinds
  <2>3. Granted \in Answers
    BY DEF Granted, Answers, Classes, Kinds
  <2>4. TransportError \in Answers
    BY DEF TransportError, Answers, Classes, Kinds
  <2> QED
    BY <1>1, <2>1, <2>2, <2>3, <2>4
<1>2. ASSUME NEW code \in Int, NEW kind \in Kinds, NEW hint \in BOOLEAN,
             a = ErrorFromResponse(code, kind, hint)
      PROVE  a \in Answers /\ (a.retryable => IsTransient(a))
  <2>1. /\ a = [class |-> ErrorClass(code, kind), code |-> code, kind |-> kind,
                retryable |-> Retryable(code, kind, hint)]
        /\ a.retryable = Retryable(code, kind, hint)
        /\ a.class = ErrorClass(code, kind) /\ a.code = code /\ a.kind = kind
    BY <1>2 DEF ErrorFromResponse
  <2>2. ErrorClass(code, kind) \in Classes
    BY ClassNames
  <2>3. Retryable(code, kind, hint) \in BOOLEAN
    BY DEF Retryable
  <2>4. a \in Answers
    BY <2>1, <2>2, <2>3 DEF Answers
  <2> QED
    BY <2>1, <2>4, RetryableErrors DEF IsTransient
<1> QED
  BY <1>1, <1>2 DEF IsAnswer

\* The errors that do not come from the vault: they never say that something is
\* not there.
LEMMA CLIErrorFacts ==
  ASSUME NEW e \in CLIErrors \cup {TransportError}
  PROVE  IsAnswer(e) /\ e # Granted /\ ~IsLockerNotFoundError(e)
<1>1. CASE e = TransportError
  BY <1>1 DEF IsAnswer, TransportError, Granted, IsLockerNotFoundError, IsLockerError
<1>2. CASE e \in CLIErrors
  <2>1. PICK x \in Errors : e = ErrorFromResponse(x.code, x.kind, x.hint)
    BY <1>2 DEF CLIErrors
  <2>2. x.code \in Int /\ x.code # NotFound /\ x.kind \in Kinds /\ x.hint \in BOOLEAN
    BY ErrorsAssumption DEF Kinds
  <2>3. IsAnswer(e)
    BY <2>1, <2>2 DEF IsAnswer
  <2>4. e.code = x.code /\ e.class = ErrorClass(x.code, x.kind)
    BY <2>1 DEF ErrorFromResponse
  <2>5. e.class # "LockerNotFoundError" /\ e.class # "granted"
    BY <2>2, <2>4, ClassOfNotFound, ClassNames
  <2>6. ~IsLockerNotFoundError(e)
    BY <2>2, <2>4, <2>5 DEF IsLockerNotFoundError
  <2>7. Granted.class = "granted"
    BY DEF Granted
  <2> QED
    BY <2>3, <2>5, <2>6, <2>7
<1> QED
  BY <1>1, <1>2

\* A doubtful error is none of the definite ones.
LEMMA DoubtfulFacts ==
  ASSUME NEW e \in DoubtfulErrors
  PROVE  /\ e \in CLIErrors \cup {TransportError}
         /\ e.class \notin Definite
<1>1. CASE e = TransportError
  BY <1>1 DEF TransportError, Definite
<1>2. CASE e \in CLIErrors /\ e.code \in {Network, Server}
  <2>1. PICK x \in Errors : e = ErrorFromResponse(x.code, x.kind, x.hint)
    BY <1>2 DEF CLIErrors
  <2>2. x.code \in {Network, Server} /\ e.class = ErrorClass(x.code, x.kind)
    BY <1>2, <2>1 DEF ErrorFromResponse
  <2>3. ErrorClass(x.code, x.kind) \in {"LockerNetworkError", "LockerServerError"}
    BY <2>2 DEF ErrorClass, StandardProtocolCodes, LockerServerErrorCode, OperationFailed,
       Authentication, PermissionDenied, NotFound, Conflict, Validation, RateLimited, Network,
       Server, Storage, Integrity
  <2> QED
    BY <1>2, <2>2, <2>3 DEF Definite
<1> QED
  BY <1>1, <1>2 DEF DoubtfulErrors

\* What the vault refuses with: to look for a thing that is not there is the
\* only reason to refuse a get.
LEMMA RefusalFacts ==
  ASSUME NEW r, NEW e \in Refusals(r)
  PROVE  IsAnswer(e) /\ e # Granted
<1>1. ASSUME NEW code \in Int, NEW kind \in Kinds
      PROVE  /\ IsAnswer(ErrorFromResponse(code, kind, FALSE))
             /\ ErrorFromResponse(code, kind, FALSE) # Granted
  <2>1. ErrorFromResponse(code, kind, FALSE).class = ErrorClass(code, kind)
    BY DEF ErrorFromResponse
  <2>2. Granted.class = "granted"
    BY DEF Granted
  <2>3. ErrorFromResponse(code, kind, FALSE) # Granted
    BY <2>1, <2>2, ClassNames
  <2>4. FALSE \in BOOLEAN
    OBVIOUS
  <2>5. \E c \in Int, k \in Kinds, h \in BOOLEAN :
          ErrorFromResponse(code, kind, FALSE) = ErrorFromResponse(c, k, h)
    BY <2>4
  <2> QED
    BY <2>3, <2>5 DEF IsAnswer
<1>2. {NotFound, Conflict, OperationFailed} \subseteq Int
  BY DEF NotFound, Conflict, OperationFailed
<1>3. {"environment_not_found", "secret_not_found", "environment_already_exists",
       "secret_already_exists"} \subseteq Kinds
  BY DEF Kinds, AlreadyExistsKinds
<1>4. ASSUME NEW t PROVE IsAnswer(NotFoundError(t)) /\ NotFoundError(t) # Granted
  BY <1>1, <1>2, <1>3 DEF NotFoundError
<1>5. ASSUME NEW t, NEW x \in AlreadyExistsErrors(t) PROVE IsAnswer(x) /\ x # Granted
  BY <1>1, <1>2, <1>3 DEF AlreadyExistsErrors
<1> QED
  BY <1>4, <1>5 DEF Refusals

-----------------------------------------------------------------------------
\* What is true of a call at each of its places.
Idle(c) ==
  /\ pc[c] = "idle" =>
       /\ op[c] = "none" /\ item[c] = 1 /\ committed[c] = 0 /\ applied[c] = 0
       /\ request[c].method = "none"
  /\ pc[c] = "done" <=> outcome[c] # "none"
  /\ pc[c] = "item" => op[c] = "import"

\* The request of a call is about things; get only gets.
Requested(c) ==
  /\ pc[c] \in {"sent", "answered"} => request[c].at \in Things /\ request[c].to \in Things
  /\ op[c] = "get" => request[c].method = "get"
  /\ IsAnswer(answer[c])

\* The vault has acted once at most, and if so the call knows or has its doubts.
Applied(c) ==
  /\ pc[c] = "sent" => applied[c] = 0
  /\ applied[c] # 0 => answer[c] \in DoubtfulErrors \cup {Granted}

\* Where an import is in its file.
Counted(c) ==
  op[c] = "import" =>
    /\ pc[c] \in {"sent", "answered"} => item[c] <= Len(file[c])
    /\ pc[c] \in {"item", "sent"} => committed[c] = item[c] - 1
    /\ pc[c] = "answered" /\ request[c].at \in Environments => committed[c] = item[c] - 1
    /\ pc[c] = "answered" /\ request[c].at \in Secrets =>
         \/ committed[c] = item[c] /\ answer[c] \in DoubtfulErrors \cup {Granted}
         \/ committed[c] = item[c] - 1 /\ answer[c] # Granted
    /\ outcome[c] = "ok" => committed[c] = Len(file[c])
    /\ outcome[c] = "failed" =>
         \/ committed[c] = item[c] - 1
         \/ committed[c] = item[c] /\ answer[c] \in DoubtfulErrors

\* What is absent now, or was taken for absent, has been noted as missing.
Absent(c) ==
  /\ pc[c] # "idle" => Things \ vault \subseteq missing[c]
  /\ pc[c] = "answered" /\ request[c].method = "get" /\ IsLockerNotFoundError(answer[c])
       => request[c].at \in missing[c]
  /\ outcome[c] = "default" => request[c].at \in missing[c]
  /\ op[c] = "import" /\ request[c].method = "create" /\ request[c].at \in Environments
       => request[c].at \in missing[c]

CallInv(c) == Idle(c) /\ Requested(c) /\ Applied(c) /\ Counted(c) /\ Absent(c)

LateInv == \A r \in late : r.at \in Things /\ r.to \in Things

\* The inductive invariant.
IInv == TypeOK /\ LateInv /\ \A c \in Call : CallInv(c)

-----------------------------------------------------------------------------
\* A step of another call or of the vault leaves what this call knows alone.
Untouched(d) ==
  /\ pc'[d] = pc[d] /\ op'[d] = op[d] /\ file'[d] = file[d] /\ item'[d] = item[d]
  /\ request'[d] = request[d] /\ answer'[d] = answer[d] /\ outcome'[d] = outcome[d]
  /\ applied'[d] = applied[d] /\ committed'[d] = committed[d]
  /\ missing[d] \subseteq missing'[d]
  /\ pc[d] # "idle" => Things \ vault' \subseteq missing'[d]

\* A step that leaves a call untouched keeps its invariant (Untouched).
LEMMA Bystander == ASSUME NEW d \in Call, CallInv(d), Untouched(d) PROVE CallInv(d)'
<1>1. Idle(d)' /\ Requested(d)' /\ Applied(d)'
  BY DEF CallInv, Untouched, Idle, Requested, Applied, IsAnswer
<1>2. Counted(d)'
  BY DEF CallInv, Untouched, Counted
<1>3. Absent(d)'
  BY DEF CallInv, Untouched, Absent
<1> QED
  BY <1>1, <1>2, <1>3 DEF CallInv

\* A step of the SDK: the vault and the other calls stay as they are.
LEMMA LocalStep ==
  ASSUME IInv, NEW c \in Call, TypeOK', UNCHANGED worldVars, CallInv(c)',
         \A d \in Call \ {c} :
           /\ pc'[d] = pc[d] /\ op'[d] = op[d] /\ file'[d] = file[d] /\ item'[d] = item[d]
           /\ request'[d] = request[d] /\ answer'[d] = answer[d] /\ outcome'[d] = outcome[d]
           /\ applied'[d] = applied[d] /\ committed'[d] = committed[d]
           /\ missing'[d] = missing[d]
  PROVE  IInv'
<1>1. ASSUME NEW d \in Call, d # c PROVE CallInv(d)'
  <2>1. Untouched(d)
    BY <1>1 DEF IInv, CallInv, Absent, Untouched, worldVars
  <2> QED
    BY <2>1, Bystander DEF IInv
<1>2. LateInv'
  BY DEF IInv, LateInv, worldVars
<1> QED
  BY <1>1, <1>2 DEF IInv

\* The invariant holds before the first call.
THEOREM InitInvariant == Init => IInv
<1> SUFFICES ASSUME Init PROVE IInv
  OBVIOUS
<1>1. NoRequest \in Requests /\ NoRequest.method = "none"
  BY DEF NoRequest, Request, Requests, Methods, Name
<1>2. IsAnswer(NoAnswer) /\ NoAnswer \in Answers
  BY AnswerFacts DEF IsAnswer
<1>3. vault \subseteq Things
  BY DEF Init, Things, Environments
<1>4. /\ Len(<<>>) = 0 /\ {} \in SUBSET Environments /\ {} \in SUBSET Things
  OBVIOUS
<1>5. TypeOK
  BY <1>1, <1>2, <1>3, <1>4 DEF Init, TypeOK
<1>6. ASSUME NEW c \in Call PROVE CallInv(c)
  BY <1>1, <1>2 DEF Init, CallInv, Idle, Requested, Applied, Counted, Absent
<1> QED
  BY <1>5, <1>6 DEF IInv, LateInv, Init

\* The names and requests of a thing.
LEMMA Named ==
  ASSUME NEW t \in Things, NEW u \in Things, NEW method \in {"get", "create", "update"}
  PROVE  Request(method, t, u) \in Requests
  BY DEF Request, Requests, Methods, Name

\* Sending a request: every method but import begins with it.
LEMMA SimpleStep ==
  ASSUME IInv, NEW c \in Call, NEW t \in Things, NEW u \in Things,
         NEW method \in {"get", "create", "update"},
         NEW o \in {"get", "retrieve", "create", "modify"}, o = "get" => method = "get",
         Simple(c, o, Request(method, t, u))
  PROVE  IInv'
<1>1. /\ Request(method, t, u) \in Requests
      /\ Request(method, t, u).at = t /\ Request(method, t, u).to = u
      /\ Request(method, t, u).method = method
  BY Named DEF Request
<1>2. IsAnswer(NoAnswer) /\ NoAnswer \in Answers
  BY AnswerFacts DEF IsAnswer
<1>3. TypeOK'
  BY <1>1, <1>2 DEF IInv, TypeOK, Simple, Begin, Send, Goto, worldVars, importVars
<1>4. /\ pc[c] = "idle" /\ pc'[c] = "sent" /\ op'[c] = o /\ applied'[c] = 0
      /\ request'[c] = Request(method, t, u) /\ answer'[c] = NoAnswer
      /\ missing'[c] = Things \ vault
      /\ UNCHANGED <<vault, outcome, file, item, committed>>
  BY DEF IInv, TypeOK, Simple, Begin, Send, Goto, worldVars, importVars
<1>5. CallInv(c)'
  BY <1>1, <1>2, <1>4 DEF IInv, CallInv, Idle, Requested, Applied, Counted, Absent
<1> QED
  BY <1>3, <1>5, LocalStep DEF IInv, TypeOK, Simple, Begin, Send, Goto, worldVars, importVars

\* The first step of a call: a method of Locker is called.
LEMMA MethodStep == ASSUME IInv, NEW c \in Call, Method(c) PROVE IInv'
<1>1. CASE Get(c)
  BY <1>1, SimpleStep DEF Get, Things
<1>2. CASE Retrieve(c)
  BY <1>2, SimpleStep DEF Retrieve
<1>3. CASE Create(c)
  BY <1>3, SimpleStep DEF Create
<1>4. CASE Modify(c)
  BY <1>4, SimpleStep DEF Modify, Things
<1>5. CASE ModifyEnvironment(c)
  BY <1>5, SimpleStep DEF ModifyEnvironment, Things
<1>6. CASE Import(c)
  <2>1. PICK f \in Files : file' = [file EXCEPT ![c] = f]
    BY <1>6 DEF Import
  <2>2. f \in Seq(Secrets) /\ Len(f) \in Nat
    BY FilesAssumption
  <2>3. /\ pc[c] = "idle" /\ pc'[c] = "item" /\ op'[c] = "import" /\ file'[c] = f
        /\ missing'[c] = Things \ vault
        /\ UNCHANGED <<vault, outcome, item, committed, request, answer, applied>>
    BY <1>6, <2>1 DEF IInv, TypeOK, Import, Begin, Goto, worldVars
  <2>4. item[c] = 1 /\ committed[c] = 0
    BY <2>3 DEF IInv, CallInv, Idle
  <2>5. TypeOK'
    BY <1>6, <2>1, <2>2, <2>4 DEF IInv, TypeOK, Import, Begin, Goto, worldVars
  <2>6. Idle(c)' /\ Applied(c)' /\ Counted(c)'
    BY <2>3, <2>4 DEF IInv, CallInv, Idle, Applied, Counted
  <2>7. Requested(c)'
    BY <2>3 DEF IInv, CallInv, Requested, IsAnswer
  <2>8. Absent(c)'
    BY <2>3 DEF IInv, CallInv, Absent, Idle
  <2> QED
    BY <1>6, <2>1, <2>5, <2>6, <2>7, <2>8, LocalStep
    DEF IInv, CallInv, TypeOK, Import, Begin, Goto, worldVars
<1> QED
  BY <1>1, <1>2, <1>3, <1>4, <1>5, <1>6 DEF Method

\* Return: the call has its answer and ends with it.
LEMMA ReturnStep == ASSUME IInv, NEW c \in Call, Return(c) PROVE IInv'
<1>1. PICK how \in {"ok", "default", "failed"} :
        /\ End(c, how)
        /\ how = "default" => op[c] = "get" /\ IsLockerNotFoundError(answer[c])
  BY DEF Return
<1>2. /\ pc[c] = "answered" /\ pc'[c] = "done" /\ outcome'[c] = how /\ op[c] # "import"
      /\ UNCHANGED <<vault, op, file, item, request, answer, applied, committed, missing>>
  BY <1>1 DEF IInv, TypeOK, Return, End, Goto, worldVars, importVars, historyVars
<1>3. TypeOK'
  BY <1>1 DEF IInv, TypeOK, Return, End, Goto, worldVars, importVars, historyVars
<1>4. Idle(c)' /\ Requested(c)' /\ Applied(c)' /\ Counted(c)'
  BY <1>1, <1>2 DEF IInv, CallInv, Idle, Requested, Applied, Counted, IsAnswer
<1>5. Absent(c)'
  BY <1>1, <1>2 DEF IInv, CallInv, Absent, Requested
<1> QED
  BY <1>1, <1>3, <1>4, <1>5, LocalStep
  DEF IInv, CallInv, TypeOK, Return, End, Goto, worldVars, importVars, historyVars

\* Import sends a request for the thing its current item needs.
LEMMA CurrentItem ==
  ASSUME IInv, NEW c \in Call, item[c] <= Len(file[c])
  PROVE  /\ Current(c) \in Secrets
         /\ ~ItemResolved(c) => Home(Current(c)) \in Environments
<1>1. file[c] \in Seq(Secrets) /\ item[c] \in 1 .. Len(file[c])
  BY FilesAssumption DEF IInv, TypeOK
<1>2. Current(c) \in Secrets
  BY <1>1 DEF Current
<1> QED
  BY <1>2 DEF ItemResolved, Home, Secrets, Environments

\* An import sends its next request.
LEMMA ImportSends ==
  ASSUME IInv, NEW c \in Call, NEW t \in Things, NEW method \in {"get", "create"},
         pc[c] \in {"item", "answered"}, op[c] = "import", item[c] <= Len(file[c]),
         committed[c] = item[c] - 1,
         method = "create" /\ t \in Environments => t \in missing[c],
         Send(c, Request(method, t, t)),
         UNCHANGED <<worldVars, op, importVars, outcome, committed, missing, faults>>
  PROVE  IInv'
<1>1. /\ Request(method, t, t) \in Requests
      /\ Request(method, t, t).at = t /\ Request(method, t, t).to = t
      /\ Request(method, t, t).method = method
  BY Named DEF Request
<1>2. IsAnswer(NoAnswer) /\ NoAnswer \in Answers
  BY AnswerFacts DEF IsAnswer
<1>3. TypeOK'
  BY <1>1, <1>2 DEF IInv, TypeOK, Send, Goto, worldVars, importVars
<1>4. /\ pc'[c] = "sent" /\ applied'[c] = 0 /\ request'[c] = Request(method, t, t)
      /\ answer'[c] = NoAnswer /\ UNCHANGED <<vault, op, outcome, file, item, committed, missing>>
  BY DEF IInv, TypeOK, Send, Goto, worldVars, importVars
<1>5. Idle(c)' /\ Requested(c)' /\ Applied(c)' /\ Counted(c)'
  BY <1>1, <1>2, <1>4 DEF IInv, CallInv, Idle, Requested, Applied, Counted
<1>6. Absent(c)'
  BY <1>1, <1>4 DEF IInv, CallInv, Absent, Idle
<1> QED
  BY <1>3, <1>5, <1>6, LocalStep DEF IInv, CallInv, TypeOK, Send, Goto, worldVars, importVars

\* The requests of an import: which follows which.
LEMMA ImportRequests ==
  ASSUME IInv, NEW c \in Call, GetEnvironment(c) \/ CreateItem(c) \/ CreateEnvironment(c)
  PROVE  IInv'
<1>1. CASE GetEnvironment(c)
  <2>1. Home(Current(c)) \in Things
    BY <1>1, CurrentItem DEF GetEnvironment, Things
  <2>2. op[c] = "import" /\ committed[c] = item[c] - 1
    BY <1>1 DEF GetEnvironment, IInv, CallInv, Idle, Counted
  <2> QED
    BY <1>1, <2>1, <2>2, ImportSends DEF GetEnvironment
<1>2. CASE CreateItem(c)
  <2>1. Current(c) \in Things /\ Current(c) \notin Environments
    BY <1>2, CurrentItem, ThingsDiffer DEF CreateItem, Things
  <2>2. op[c] = "import" /\ committed[c] = item[c] - 1
    BY <1>2 DEF CreateItem, IInv, CallInv, Idle, Counted
  <2> QED
    BY <1>2, <2>1, <2>2, ImportSends DEF CreateItem
<1>3. CASE CreateEnvironment(c)
  <2>1. /\ request[c].at \in Things /\ request[c].at \in missing[c]
        /\ item[c] <= Len(file[c]) /\ committed[c] = item[c] - 1
    BY <1>3 DEF CreateEnvironment, Importing, Things, IInv, CallInv, Absent, Counted
  <2> QED
    BY <1>3, <2>1, ImportSends DEF CreateEnvironment, Importing
<1> QED
  BY <1>1, <1>2, <1>3

\* Import takes its answer and goes on, or ends.
LEMMA ImportGoesOn ==
  ASSUME IInv, NEW c \in Call,
         \/ EnvironmentResolved(c) \/ ItemCreated(c)
         \/ ImportFails(c) \/ ImportDone(c)
  PROVE  IInv'
<1> USE DEF Goto, worldVars, importVars, historyVars
<1>1. CASE EnvironmentResolved(c)
  <2>1. /\ pc[c] = "answered" /\ pc'[c] = "item" /\ op[c] = "import"
        /\ request[c].at \in Environments
        /\ UNCHANGED <<vault, op, file, item, request, answer, outcome, applied, committed, missing>>
    BY <1>1 DEF IInv, TypeOK, EnvironmentResolved, Importing
  <2>2. TypeOK'
    BY <1>1 DEF IInv, TypeOK, EnvironmentResolved, Importing
  <2>3. CallInv(c)'
    BY <2>1 DEF IInv, CallInv, Idle, Requested, Applied, Counted, Absent, IsAnswer
  <2> QED
    BY <1>1, <2>2, <2>3, LocalStep DEF IInv, TypeOK, EnvironmentResolved
<1>2. CASE ItemCreated(c)
  <2>1. /\ pc[c] = "answered" /\ pc'[c] = "item" /\ op[c] = "import"
        /\ request[c].at \in Secrets /\ request[c].at \notin Environments
        /\ answer[c] = Granted /\ item'[c] = item[c] + 1
        /\ UNCHANGED <<vault, op, file, request, answer, outcome, applied, committed, missing>>
    BY <1>2, ThingsDiffer DEF IInv, TypeOK, ItemCreated, Importing
  <2>2. /\ committed[c] = item[c] /\ item[c] <= Len(file[c])
        /\ item[c] \in Nat /\ Len(file[c]) \in Nat
    BY <2>1, FilesAssumption DEF IInv, TypeOK, CallInv, Counted
  <2>3. TypeOK'
    BY <1>2, <2>2 DEF IInv, TypeOK, ItemCreated, Importing
  <2>4. CallInv(c)'
    BY <2>1, <2>2 DEF IInv, CallInv, Idle, Requested, Applied, Counted, Absent, IsAnswer
  <2> QED
    BY <1>2, <2>3, <2>4, LocalStep DEF IInv, TypeOK, ItemCreated
<1>3. CASE ImportFails(c)
  <2>1. /\ pc[c] = "answered" /\ pc'[c] = "done" /\ op[c] = "import"
        /\ outcome'[c] = "failed" /\ answer[c] # Granted
        /\ UNCHANGED <<vault, op, file, item, request, answer, applied, committed, missing>>
    BY <1>3 DEF IInv, TypeOK, ImportFails, Importing, End
  <2>2. request[c].at \in Secrets \/ request[c].at \in Environments
    BY <2>1 DEF IInv, CallInv, Requested, Things
  <2>3. TypeOK'
    BY <1>3 DEF IInv, TypeOK, ImportFails, Importing, End
  <2>4. Idle(c)' /\ Requested(c)' /\ Applied(c)' /\ Absent(c)'
    BY <2>1 DEF IInv, CallInv, Idle, Requested, Applied, Absent, IsAnswer
  <2>5. Counted(c)'
    BY <2>1, <2>2 DEF IInv, CallInv, Counted
  <2> QED
    BY <1>3, <2>3, <2>4, <2>5, LocalStep DEF IInv, CallInv, TypeOK, ImportFails, End
<1>4. CASE ImportDone(c)
  <2>1. /\ pc[c] = "item" /\ pc'[c] = "done" /\ outcome'[c] = "ok" /\ item[c] > Len(file[c])
        /\ UNCHANGED <<vault, op, file, item, request, answer, applied, committed, missing>>
    BY <1>4 DEF IInv, TypeOK, ImportDone, End
  <2>2. committed[c] = item[c] - 1 /\ item[c] = Len(file[c]) + 1
    <3>1. Len(file[c]) \in Nat /\ item[c] \in Nat /\ item[c] <= Len(file[c]) + 1
      BY FilesAssumption DEF IInv, TypeOK
    <3> QED
      BY <2>1, <3>1 DEF IInv, CallInv, Idle, Counted
  <2>3. TypeOK'
    BY <1>4 DEF IInv, TypeOK, ImportDone, End
  <2>4. Idle(c)' /\ Requested(c)' /\ Applied(c)' /\ Absent(c)'
    BY <2>1 DEF IInv, CallInv, Idle, Requested, Applied, Absent, IsAnswer
  <2>5. Counted(c)'
    BY <2>1, <2>2, FilesAssumption DEF IInv, TypeOK, CallInv, Counted
  <2> QED
    BY <1>4, <2>3, <2>4, <2>5, LocalStep DEF IInv, CallInv, TypeOK, ImportDone, End
<1> QED
  BY <1>1, <1>2, <1>3, <1>4

\* A finished call is forgotten, and its place taken by the next one.
LEMMA ForgetStep == ASSUME IInv, NEW c \in Call, Forget(c) PROVE IInv'
<1>1. /\ NoRequest \in Requests /\ NoRequest.method = "none"
      /\ IsAnswer(NoAnswer) /\ NoAnswer \in Answers
  BY AnswerFacts DEF NoRequest, Request, Requests, Methods, Name, IsAnswer
<1>2. /\ pc'[c] = "idle" /\ op'[c] = "none" /\ item'[c] = 1 /\ request'[c] = NoRequest
      /\ answer'[c] = NoAnswer /\ outcome'[c] = "none" /\ applied'[c] = 0 /\ committed'[c] = 0
  BY DEF IInv, TypeOK, Forget, Goto
<1>3. TypeOK'
  BY <1>1 DEF IInv, TypeOK, Forget, Goto, worldVars
<1>4. CallInv(c)'
  BY <1>1, <1>2 DEF CallInv, Idle, Requested, Applied, Counted, Absent, IsAnswer
<1> QED
  BY <1>3, <1>4, LocalStep DEF IInv, TypeOK, Forget, Goto, worldVars

-----------------------------------------------------------------------------
\* Whatever is carried out, the vault consists of things.
LEMMA Effects ==
  ASSUME IInv, NEW r, r.at \in Things, r.to \in Things
  PROVE  Effect(r) \subseteq Things
<1>1. vault \subseteq Things
  BY DEF IInv, TypeOK
<1>2. ASSUME NEW t \in Things PROVE Renamed(r, t) \in Things
  <2>1. CASE r.at \in Environments /\ t[2] = r.at[2] /\ t # r.at
    <3>1. /\ t \in Secrets \/ t \in Environments
          /\ r.to[2] \in Env \cup {NoEnv}
      BY DEF Things, Secrets, Environments
    <3>2. t \in Secrets
      BY <2>1, <3>1 DEF Environments
    <3>3. <<t[1], r.to[2]>> \in Things
      BY <3>1, <3>2 DEF Things, Secrets
    <3> QED
      BY <2>1, <3>3 DEF Renamed
  <2> QED
    BY <2>1 DEF Renamed
<1>3. CASE r.method = "get"
  BY <1>1, <1>3 DEF Effect
<1>4. CASE r.method = "create"
  BY <1>1, <1>4 DEF Effect
<1>5. CASE r.method \notin {"get", "create"}
  <2>1. Effect(r) = {Renamed(r, t) : t \in vault}
    BY <1>5 DEF Effect
  <2> QED
    BY <1>1, <1>2, <2>1
<1> QED
  BY <1>3, <1>4, <1>5

\* Every call in progress takes note of what is gone.
LEMMA Noted ==
  ASSUME IInv, NEW new, new \subseteq Things, ChangeVault(new)
  PROVE  /\ vault' \subseteq Things /\ missing' \in [Call -> SUBSET Things]
         /\ \A d \in Call :
              /\ missing[d] \subseteq missing'[d]
              /\ pc[d] # "idle" => Things \ vault' \subseteq missing'[d]
  BY DEF IInv, TypeOK, ChangeVault

\* Grant, AnswerLost: the vault acts on the request of a call.
LEMMA CarriedOut ==
  ASSUME IInv, NEW c \in Call, NEW a \in DoubtfulErrors \cup {Granted}, pc[c] = "sent",
         CarryOut(c), Answer(c, a), late' = late, faults' \in Nat
  PROVE  IInv'
<1>1. request[c].at \in Things /\ request[c].to \in Things
  BY DEF IInv, CallInv, Requested
<1>2. /\ vault' \subseteq Things /\ missing' \in [Call -> SUBSET Things]
      /\ \A d \in Call :
           /\ missing[d] \subseteq missing'[d]
           /\ pc[d] # "idle" => Things \ vault' \subseteq missing'[d]
  BY <1>1, Effects, Noted DEF CarryOut
<1>3. IsAnswer(a) /\ a \in Answers /\ ~IsLockerNotFoundError(a)
  <2>1. CASE a = Granted
    <3>1. IsAnswer(a)
      BY <2>1 DEF IsAnswer
    <3>2. Granted.class = "granted" /\ Granted.code = 0
      BY DEF Granted
    <3>3. NotFound # 0
      BY DEF NotFound
    <3> QED
      BY <2>1, <3>1, <3>2, <3>3, AnswerFacts DEF IsLockerNotFoundError
  <2> QED
    BY <2>1, DoubtfulFacts, CLIErrorFacts, AnswerFacts
<1>4. /\ applied' = [applied EXCEPT ![c] = @ + 1]
      /\ committed' = [committed EXCEPT ![c] =
                        IF op[c] = "import" /\ request[c].at \in Secrets THEN @ + 1 ELSE @]
  BY DEF CarryOut
<1>5. TypeOK'
  BY <1>2, <1>3, <1>4 DEF IInv, TypeOK, Answer, Goto, importVars
<1>6. /\ pc'[c] = "answered" /\ answer'[c] = a
      /\ committed'[c] = IF op[c] = "import" /\ request[c].at \in Secrets THEN committed[c] + 1
                         ELSE committed[c]
      /\ UNCHANGED <<op, file, item, request, outcome>>
  BY <1>4 DEF IInv, TypeOK, Answer, Goto, importVars
<1>7. CallInv(c)'
  <2>1. Idle(c)' /\ Requested(c)' /\ Applied(c)'
    BY <1>3, <1>6 DEF IInv, CallInv, Idle, Requested, Applied, IsAnswer
  <2>2. Absent(c)'
    BY <1>2, <1>3, <1>6 DEF IInv, CallInv, Idle, Absent
  <2>3. op[c] = "import" => committed[c] = item[c] - 1 /\ item[c] <= Len(file[c]) /\ item[c] \in Nat
    BY DEF IInv, TypeOK, CallInv, Counted
  <2>4. Counted(c)'
    BY <1>6, <2>3, ThingsDiffer DEF IInv, CallInv, Idle, Counted
  <2> QED
    BY <2>1, <2>2, <2>4 DEF CallInv
<1>8. ASSUME NEW d \in Call, d # c PROVE CallInv(d)'
  <2>1. Untouched(d)
    BY <1>2, <1>4, <1>8 DEF IInv, TypeOK, Untouched, Answer, Goto, importVars
  <2> QED
    BY <2>1, Bystander DEF IInv
<1> QED
  BY <1>5, <1>7, <1>8 DEF IInv, LateInv

\* Refuse, RequestFails, GiveUp: the vault does nothing for the call.
LEMMA Unanswered ==
  ASSUME IInv, NEW c \in Call, NEW a, pc[c] = "sent", IsAnswer(a), a # Granted,
         request[c].method = "get" /\ IsLockerNotFoundError(a) => request[c].at \in missing[c],
         Answer(c, a), UNCHANGED <<vault, historyVars>>, faults' \in Nat,
         late' \subseteq late \cup {request[c]}
  PROVE  IInv'
<1>1. a \in Answers
  BY AnswerFacts
<1>2. request[c].at \in Things /\ request[c].to \in Things
  BY DEF IInv, CallInv, Requested
<1>3. LateInv'
  BY <1>2 DEF IInv, LateInv
<1>4. TypeOK'
  BY <1>1 DEF IInv, TypeOK, Answer, Goto, importVars, historyVars
<1>5. /\ pc'[c] = "answered" /\ answer'[c] = a
      /\ UNCHANGED <<vault, op, file, item, request, outcome, applied, committed, missing>>
  BY DEF IInv, TypeOK, Answer, Goto, importVars, historyVars
<1>6. applied[c] = 0 /\ outcome[c] = "none"
  BY DEF IInv, CallInv, Applied, Idle
<1>7. Idle(c)' /\ Requested(c)' /\ Applied(c)' /\ Counted(c)' /\ Absent(c)'
  BY <1>5, <1>6 DEF IInv, CallInv, Idle, Requested, Applied, Counted, Absent, IsAnswer
<1>8. ASSUME NEW d \in Call, d # c PROVE CallInv(d)'
  <2>1. Untouched(d)
    BY <1>8 DEF IInv, TypeOK, CallInv, Absent, Untouched, Answer, Goto, importVars, historyVars
  <2> QED
    BY <2>1, Bystander DEF IInv
<1> QED
  BY <1>3, <1>4, <1>7, <1>8 DEF IInv, CallInv

\* The vault grants or refuses a request, or the request or its answer is lost.
LEMMA ExchangeStep == ASSUME IInv, NEW c \in Call, Exchange(c) PROVE IInv'
<1>0. faults \in Nat
  BY DEF IInv, TypeOK
<1>1. CASE Grant(c)
  BY <1>0, <1>1, CarriedOut DEF Grant
<1>2. CASE Refuse(c)
  <2>1. PICK e \in Refusals(request[c]) : Answer(c, e)
    BY <1>2 DEF Refuse
  <2>2. request[c].method = "get" => request[c].at \in missing[c]
    BY <1>2 DEF Refuse, Possible, IInv, CallInv, Requested, Absent
  <2>3. IsAnswer(e) /\ e # Granted
    BY RefusalFacts
  <2> QED
    BY <1>0, <1>2, <2>1, <2>2, <2>3, Unanswered DEF Refuse, worldVars
<1>3. CASE RequestFails(c)
  <2>1. PICK e \in CLIErrors \cup {TransportError} : Answer(c, e)
    BY <1>3 DEF RequestFails
  <2>2. IsAnswer(e) /\ e # Granted /\ ~IsLockerNotFoundError(e)
    BY CLIErrorFacts
  <2> QED
    BY <1>0, <1>3, <2>1, <2>2, Unanswered DEF RequestFails, Fault, worldVars
<1>4. CASE AnswerLost(c)
  <2>1. PICK e \in DoubtfulErrors : Answer(c, e)
    BY <1>4 DEF AnswerLost
  <2> QED
    BY <1>0, <1>4, <2>1, CarriedOut DEF AnswerLost, Fault
<1>5. CASE GiveUp(c)
  <2>1. IsAnswer(TransportError) /\ TransportError # Granted
    BY CLIErrorFacts
  <2> QED
    BY <1>0, <1>5, <2>1, CLIErrorFacts, Unanswered DEF GiveUp, Fault
<1> QED
  BY <1>1, <1>2, <1>3, <1>4, <1>5 DEF Exchange

\* The vault changes under all calls.
LEMMA ChangeStep ==
  ASSUME IInv, NEW new, new \subseteq Things, ChangeVault(new), late' \subseteq late,
         UNCHANGED <<pc, op, importVars, request, answer, outcome, applied, committed, faults>>
  PROVE  IInv'
<1>1. /\ vault' \subseteq Things /\ missing' \in [Call -> SUBSET Things]
      /\ \A d \in Call :
           /\ missing[d] \subseteq missing'[d]
           /\ pc[d] # "idle" => Things \ vault' \subseteq missing'[d]
  BY Noted
<1>2. TypeOK'
  BY <1>1 DEF IInv, TypeOK, importVars
<1>3. ASSUME NEW d \in Call PROVE CallInv(d)'
  <2>1. Untouched(d)
    BY <1>1 DEF Untouched, importVars
  <2> QED
    BY <2>1, Bystander DEF IInv
<1> QED
  BY <1>2, <1>3 DEF IInv, LateInv

\* Another application changes the vault, or a request arrives late.
LEMMA WorldStep == ASSUME IInv, OtherApplication \/ LateRequest PROVE IInv'
<1>1. CASE OtherApplication
  <2>1. PICK t \in Things, u \in Things, method \in {"create", "update"} :
          ChangeVault(Effect(Request(method, t, u)))
    BY <1>1 DEF OtherApplication
  <2>2. Effect(Request(method, t, u)) \subseteq Things
    BY Effects DEF Request
  <2>3. UNCHANGED <<late, pc, op, importVars, request, answer, outcome, applied, committed, faults>>
    BY <1>1 DEF OtherApplication
  <2> QED
    BY <2>1, <2>2, <2>3, ChangeStep
<1>2. CASE LateRequest
  <2>1. PICK r \in late :
          /\ late' = late \ {r}
          /\ \/ ChangeVault(Effect(r))
             \/ UNCHANGED <<vault, missing>>
    BY <1>2 DEF LateRequest
  <2>2. UNCHANGED <<pc, op, importVars, request, answer, outcome, applied, committed, faults>>
    BY <1>2 DEF LateRequest
  <2>3. CASE ChangeVault(Effect(r))
    <3>1. Effect(r) \subseteq Things
      BY Effects DEF IInv, LateInv
    <3> QED
      BY <2>1, <2>2, <2>3, <3>1, ChangeStep
  <2>4. CASE UNCHANGED <<vault, missing>>
    <3>1. TypeOK' /\ LateInv'
      BY <2>1, <2>2, <2>4 DEF IInv, TypeOK, LateInv, importVars
    <3>2. ASSUME NEW d \in Call PROVE CallInv(d)'
      <4>1. Untouched(d)
        BY <2>2, <2>4 DEF IInv, CallInv, Absent, Untouched, importVars
      <4> QED
        BY <4>1, Bystander DEF IInv
    <3> QED
      BY <3>1, <3>2 DEF IInv
  <2> QED
    BY <2>1, <2>3, <2>4
<1> QED
  BY <1>1, <1>2

\* Every step of a call, of the vault or of another application keeps the invariant.
THEOREM StepInvariant == IInv /\ [Next]_vars => IInv'
<1> SUFFICES ASSUME IInv, [Next]_vars PROVE IInv'
  OBVIOUS
<1>1. ASSUME NEW c \in Call, Method(c) PROVE IInv'
  BY <1>1, MethodStep
<1>2. ASSUME NEW c \in Call, Return(c) PROVE IInv'
  BY <1>2, ReturnStep
<1>3. ASSUME NEW c \in Call, ImportStep(c) PROVE IInv'
  BY <1>3, ImportRequests, ImportGoesOn DEF ImportStep
<1>4. ASSUME NEW c \in Call, Forget(c) PROVE IInv'
  BY <1>4, ForgetStep
<1>5. ASSUME NEW c \in Call, Exchange(c) PROVE IInv'
  BY <1>5, ExchangeStep
<1>6. CASE OtherApplication \/ LateRequest
  BY <1>6, WorldStep
<1>7. CASE UNCHANGED vars
  <2>1. UNCHANGED <<vault, late, pc, op, file, item, resolved, request, answer, outcome,
                    applied, committed, missing, faults>>
    BY <1>7 DEF vars, worldVars, importVars, historyVars
  <2>2. TypeOK' /\ LateInv'
    BY <2>1 DEF IInv, TypeOK, LateInv
  <2>3. ASSUME NEW d \in Call PROVE CallInv(d)'
    <3>1. Untouched(d)
      BY <2>1 DEF IInv, CallInv, Absent, Untouched
    <3> QED
      BY <3>1, Bystander DEF IInv
  <2> QED
    BY <2>2, <2>3 DEF IInv
<1> QED
  BY <1>1, <1>2, <1>3, <1>4, <1>5, <1>6, <1>7 DEF Next

\* The invariant holds throughout, for any number of calls at a time.
THEOREM Invariance == Spec => []IInv
  BY InitInvariant, StepInvariant, PTL DEF Spec

-----------------------------------------------------------------------------
\* The variables of the calls keep their types, for any number of calls, any
\* names and files and any errors of the CLI.
THEOREM TypeCorrect == Spec => []TypeOK
<1>1. IInv => TypeOK
  BY DEF IInv
<1> QED
  BY <1>1, Invariance, PTL

\* An import leaves a prefix of its file behind (Locker.import).
THEOREM ImportsArePrefixes == Spec => []ImportIsPrefix
<1>1. IInv => ImportIsPrefix
  BY DEF IInv, CallInv, Counted, ImportIsPrefix
<1> QED
  BY <1>1, Invariance, PTL

\* What the CLI refuses for a definite reason has not been done: no request is
\* sent twice (BinaryExecutor.execute, once for each method).
THEOREM RefusalsHaveNoEffect == Spec => []RefusalHasNoEffect
<1>1. Granted.class \notin Definite
  BY DEF Granted, Definite
<1>2. IInv => RefusalHasNoEffect
  BY <1>1, DoubtfulFacts DEF IInv, TypeOK, CallInv, Applied, RefusalHasNoEffect
<1> QED
  BY <1>2, Invariance, PTL

\* What is taken for absent, by the default of get or by an import that creates
\* an environment, was absent at some moment of the call.
THEOREM AbsenceIsReal == Spec => []NotFoundIsReal
<1>1. IInv => NotFoundIsReal
  BY DEF IInv, CallInv, Absent, NotFoundIsReal
<1> QED
  BY <1>1, Invariance, PTL

\* Whatever the CLI says of its errors, only transient ones are retryable
\* (effectiveRetryable).
THEOREM RetriesAreTransient == Spec => []RetryableIsTransient
<1>1. IInv => RetryableIsTransient
  BY AnswerFacts DEF IInv, CallInv, Requested, RetryableIsTransient, IsTransient
<1> QED
  BY <1>1, Invariance, PTL
=============================================================================
