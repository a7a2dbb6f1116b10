---------------------------- MODULE ErrorCatalog ----------------------------
(***************************************************************************)
(* The errors of the SDK, src/abstraction/errors.ts: which class, and      *)
(* which value of retryable, errorFromResponse makes of the code, kind and *)
(* hint that the CLI sends, and what the is...Error predicates say of it.  *)
(* Messages and identifiers are left out.  A LockerTransportError is not a *)
(* LockerError: it has neither a code nor a kind.                          *)
(***************************************************************************)
EXTENDS Integers

\* ErrorCode
OperationFailed  == -32000
Authentication   == -32001
PermissionDenied == -32003
NotFound         == -32004
Conflict         == -32009
Validation       == -32022
RateLimited      == -32029
Network          == -32050
Server           == -32051
Storage          == -32060
Integrity        == -32070
StandardProtocolCodes == {-32700, -32600, -32601, -32602, -32603}

AlreadyExistsKinds ==
  {"already_exists", "secret_already_exists", "environment_already_exists", "duplicate_hash"}
IntegrityKinds ==
  {"integrity_error", "transport_integrity_error", "data_integrity_error", "data_error"}

LockerServerErrorCode(code) == -32099 <= code /\ code <= -32000

NormativelyNonRetryable(code, kind) ==
  \/ code \in StandardProtocolCodes
  \/ code \in {Authentication, PermissionDenied, NotFound, OperationFailed, Conflict,
               Validation, Storage, Integrity}
  \/ code = Server /\ kind = "internal_error"

\* The classes of the operation errors that older CLI releases number -32000.
OperationClass(kind) ==
  CASE kind \in AlreadyExistsKinds -> "LockerAlreadyExistsError"
    [] kind = "conflict" -> "LockerConflictError"
    [] kind = "validation_error" -> "LockerValidationError"
    [] kind \in IntegrityKinds -> "LockerIntegrityError"
    [] kind = "request_rejected" -> "LockerRequestRejectedError"
    [] kind = "response_too_large" -> "LockerResponseTooLargeError"
    [] kind = "cancelled" -> "LockerOperationCancelledError"
    [] OTHER -> "LockerError"

\* Classification is by number first, by kind where the number says too little.
ErrorClass(code, kind) ==
  CASE code \in StandardProtocolCodes -> "LockerProtocolError"
    [] code \notin StandardProtocolCodes /\ ~LockerServerErrorCode(code) -> "LockerProtocolError"
    [] code = OperationFailed -> OperationClass(kind)
    [] code = Conflict /\ kind \in AlreadyExistsKinds -> "LockerAlreadyExistsError"
    [] code = Conflict /\ kind \notin AlreadyExistsKinds -> "LockerConflictError"
    [] code = Validation -> "LockerValidationError"
    [] code = Integrity -> "LockerIntegrityError"
    [] code = Authentication -> "LockerAuthenticationError"
    [] code = PermissionDenied -> "LockerPermissionError"
    [] code = NotFound -> "LockerNotFoundError"
    [] code = RateLimited -> "LockerRateLimitError"
    [] code = Network -> "LockerNetworkError"
    [] code = Server -> "LockerServerError"
    [] code = Storage -> "LockerStorageError"
    [] OTHER -> "LockerError"

\* Mutant: what the CLI says of an error is believed.
HintBelieved(code, kind, hint) == hint

\* effectiveRetryable, and the override for codes outside of the protocol.
Retryable(code, kind, hint) ==
  /\ hint
  /\ ~NormativelyNonRetryable(code, kind)
  /\ code \in StandardProtocolCodes \/ LockerServerErrorCode(code)

ErrorFromResponse(code, kind, hint) ==
  [class |-> ErrorClass(code, kind), code |-> code, kind |-> kind,
   retryable |-> Retryable(code, kind, hint)]

\* Raised when the exchange itself fails: timed out, cancelled, cut off.
TransportError ==
  [class |-> "LockerTransportError", code |-> 0, kind |-> "", retryable |-> FALSE]

IsLockerError(e) == e.class # "LockerTransportError"

\* Mutant: whatever is refused is taken for absent.
AnyErrorIsNotFound(e) == TRUE

IsLockerNotFoundError(e) ==
  \/ e.class = "LockerNotFoundError"
  \/ IsLockerError(e) /\ e.code = NotFound

IsLockerAlreadyExistsError(e) ==
  \/ e.class = "LockerAlreadyExistsError"
  \/ /\ IsLockerError(e)
     /\ e.code \in {Conflict, OperationFailed}
     /\ e.kind \in AlreadyExistsKinds

IsLockerConflictError(e) ==
  \/ e.class \in {"LockerConflictError", "LockerAlreadyExistsError"}
  \/ /\ IsLockerError(e)
     /\ \/ e.code = Conflict
        \/ e.code = OperationFailed /\ (e.kind = "conflict" \/ e.kind \in AlreadyExistsKinds)
=============================================================================
