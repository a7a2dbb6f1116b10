----------------------------- MODULE LockerCalls -----------------------------
(***************************************************************************)
(* The calls of the Locker class, src/locker.ts, on a vault that other     *)
(* applications change at any moment.  Each method is one request to the   *)
(* CLI, which the executor sends once; import is a sequence of them.  The  *)
(* calls of one Locker object share nothing but the vault, so that any     *)
(* number of objects and processes is a set of calls.                      *)
(*                                                                         *)
(* A thing is a secret, <<key, environment>>, or an environment,           *)
(* <<NoKey, environment>>.  The vault is the set of the things there are:  *)
(* values and descriptions do not decide anything here.  It is outside     *)
(* src/; what it answers is taken from how the SDK uses it.                *)
(***************************************************************************)
EXTENDS Naturals, Sequences, ErrorCatalog

CONSTANTS
  Call,      \* the calls that may be in progress at a time
  Key, NoKey,
  Env, NoEnv,
  Files,     \* what parseImport makes of the files that are imported
  Errors,    \* other errors of the CLI: [code, kind, hint]
  MaxFaults  \* bound: errors, lost and late answers in a run

Secrets == Key \X (Env \cup {NoEnv})
Environments == {NoKey} \X Env
Things == Secrets \cup Environments

ASSUME NamesAssumption == NoKey \notin Key /\ NoEnv \notin Env
ASSUME FilesAssumption == Files \subseteq Seq(Secrets)
\* That a thing is not there is what the vault itself says (NotFoundError).
ASSUME ErrorsAssumption ==
  \A e \in Errors :
    e.code \in Int \ {NotFound} /\ e.hint \in BOOLEAN

VARIABLES
  vault,      \* the things there are
  late,       \* requests given up by their call that the vault may still get
  pc,         \* where each call is
  op,         \* which method it is: "get", "import" or another one
  file, item, resolved,  \* import: its items, the current one, resolvedEnvironments
  request,    \* the request of the call in progress
  answer,     \* what came of it
  outcome,    \* how the call ends
  applied,    \* history: how often the vault has carried out `request`
  committed,  \* history: secrets the vault has created for this import
  missing,    \* history: things that were absent at some moment of the call
  faults

worldVars == <<vault, late>>
importVars == <<file, item, resolved>>
historyVars == <<applied, committed, missing>>
vars == <<worldVars, pc, op, importVars, request, answer, outcome, historyVars, faults>>

Request(method, at, to) == [method |-> method, at |-> at, to |-> to]
NoRequest == Request("none", <<NoKey, NoEnv>>, <<NoKey, NoEnv>>)
NoAnswer == [class |-> "none", code |-> 0, kind |-> "", retryable |-> FALSE]
Granted == [class |-> "granted", code |-> 0, kind |-> "", retryable |-> FALSE]

Home(t) == <<NoKey, t[2]>>
HomeExists(t) == t \in Environments \/ t[2] = NoEnv \/ Home(t) \in vault

Goto(c, l) == pc' = [pc EXCEPT ![c] = l]
End(c, how) == outcome' = [outcome EXCEPT ![c] = how] /\ Goto(c, "done")

\* BinaryExecutor.execute, as far as this module is concerned.
Send(c, r) ==
  /\ request' = [request EXCEPT ![c] = r]
  /\ answer' = [answer EXCEPT ![c] = NoAnswer]
  /\ applied' = [applied EXCEPT ![c] = 0]
  /\ Goto(c, "sent")

Init ==
  /\ vault \in {{}, {<<NoKey, e>> : e \in Env}}
  /\ late = {}
  /\ pc = [c \in Call |-> "idle"]
  /\ op = [c \in Call |-> "none"]
  /\ file = [c \in Call |-> <<>>]
  /\ item = [c \in Call |-> 1]
  /\ resolved = [c \in Call |-> {}]
  /\ request = [c \in Call |-> NoRequest]
  /\ answer = [c \in Call |-> NoAnswer]
  /\ outcome = [c \in Call |-> "none"]
  /\ applied = [c \in Call |-> 0]
  /\ committed = [c \in Call |-> 0]
  /\ missing = [c \in Call |-> {}]
  /\ faults = 0

(***************************************************************************)
(* The methods: get is the one that has a default; every other one ends    *)
(* with the result or the error of its request.                            *)
(***************************************************************************)
Begin(c, o) ==
  /\ pc[c] = "idle"
  /\ op' = [op EXCEPT ![c] = o]
  /\ missing' = [missing EXCEPT ![c] = Things \ vault]

Simple(c, o, r) ==
  /\ Begin(c, o)
  /\ Send(c, r)
  /\ UNCHANGED <<worldVars, importVars, outcome, committed, faults>>

Get(c) == \E t \in Secrets : Simple(c, "get", Request("get", t, t))
Retrieve(c) == \E t \in Things : Simple(c, "retrieve", Request("get", t, t))
Create(c) == \E t \in Things : Simple(c, "create", Request("create", t, t))
Modify(c) == \E t, u \in Secrets : Simple(c, "modify", Request("update", t, u))
ModifyEnvironment(c) ==
  \E t, u \in Environments : Simple(c, "modify", Request("update", t, u))

\* Mutant: a request whose answer is lost is sent again.
ResendLost(c) ==
  /\ pc[c] = "answered" /\ op[c] # "import"
  /\ \/ answer[c] = TransportError /\ Goto(c, "sent") /\ UNCHANGED outcome
     \/ answer[c] # TransportError /\ End(c, IF answer[c] = Granted THEN "ok" ELSE "failed")
  /\ UNCHANGED <<worldVars, op, importVars, request, answer, historyVars, faults>>

Return(c) ==
  /\ pc[c] = "answered" /\ op[c] # "import"
  /\ \/ answer[c] = Granted /\ End(c, "ok")
     \/ op[c] = "get" /\ IsLockerNotFoundError(answer[c]) /\ End(c, "default")
     \/ /\ answer[c] # Granted
        /\ op[c] = "get" => ~IsLockerNotFoundError(answer[c])
        /\ End(c, "failed")
  /\ UNCHANGED <<worldVars, op, importVars, request, answer, historyVars, faults>>

(***************************************************************************)
(* import                                                                  *)
(***************************************************************************)
Import(c) ==
  /\ Begin(c, "import")
  /\ \E f \in Files : file' = [file EXCEPT ![c] = f]
  /\ Goto(c, "item")
  /\ UNCHANGED <<worldVars, item, resolved, request, answer, outcome, applied, committed,
                 faults>>

Current(c) == file[c][item[c]]
ItemResolved(c) == Current(c)[2] = NoEnv \/ Home(Current(c)) \in resolved[c]

GetEnvironment(c) ==
  /\ pc[c] = "item" /\ item[c] <= Len(file[c])
  /\ ~ItemResolved(c)
  /\ Send(c, Request("get", Home(Current(c)), Home(Current(c))))
  /\ UNCHANGED <<worldVars, op, importVars, outcome, committed, missing, faults>>

CreateItem(c) ==
  /\ pc[c] = "item" /\ item[c] <= Len(file[c])
  /\ ItemResolved(c)
  /\ Send(c, Request("create", Current(c), Current(c)))
  /\ UNCHANGED <<worldVars, op, importVars, outcome, committed, missing, faults>>

Importing(c) == pc[c] = "answered" /\ op[c] = "import"

\* The environment was found, or has been created.
EnvironmentResolved(c) ==
  /\ Importing(c) /\ answer[c] = Granted
  /\ request[c].at \in Environments
  /\ resolved' = [resolved EXCEPT ![c] = @ \cup {request[c].at}]
  /\ Goto(c, "item")
  /\ UNCHANGED <<worldVars, op, file, item, request, answer, outcome, historyVars, faults>>

CreateEnvironment(c) ==
  /\ Importing(c) /\ answer[c] # Granted
  /\ request[c].at \in Environments /\ request[c].method = "get"
  /\ IsLockerNotFoundError(answer[c])
  /\ Send(c, Request("create", request[c].at, request[c].at))
  /\ UNCHANGED <<worldVars, op, importVars, outcome, committed, missing, faults>>

\* Mutant: a secret that exists already is as good as a created one.
ItemCreatedOrThere(c) ==
  /\ Importing(c) /\ (answer[c] = Granted \/ IsLockerAlreadyExistsError(answer[c]))
  /\ request[c].at \in Secrets
  /\ item' = [item EXCEPT ![c] = @ + 1]
  /\ Goto(c, "item")
  /\ UNCHANGED <<worldVars, op, file, resolved, request, answer, outcome, historyVars, faults>>

ItemCreated(c) ==
  /\ Importing(c) /\ answer[c] = Granted
  /\ request[c].at \in Secrets
  /\ item' = [item EXCEPT ![c] = @ + 1]
  /\ Goto(c, "item")
  /\ UNCHANGED <<worldVars, op, file, resolved, request, answer, outcome, historyVars, faults>>

\* Every other error ends the import where it is; nothing is taken back.
ImportFails(c) ==
  /\ Importing(c) /\ answer[c] # Granted
  /\ request[c].at \in Environments /\ request[c].method = "get"
       => ~IsLockerNotFoundError(answer[c])
  /\ End(c, "failed")
  /\ UNCHANGED <<worldVars, op, importVars, request, answer, historyVars, faults>>

ImportDone(c) ==
  /\ pc[c] = "item" /\ item[c] > Len(file[c])
  /\ End(c, "ok")
  /\ UNCHANGED <<worldVars, op, importVars, request, answer, historyVars, faults>>

\* The call is over, its local variables are gone.
Forget(c) ==
  /\ pc[c] = "done"
  /\ Goto(c, "idle")
  /\ op' = [op EXCEPT ![c] = "none"]
  /\ file' = [file EXCEPT ![c] = <<>>]
  /\ item' = [item EXCEPT ![c] = 1]
  /\ resolved' = [resolved EXCEPT ![c] = {}]
  /\ request' = [request EXCEPT ![c] = NoRequest]
  /\ answer' = [answer EXCEPT ![c] = NoAnswer]
  /\ outcome' = [outcome EXCEPT ![c] = "none"]
  /\ applied' = [applied EXCEPT ![c] = 0]
  /\ committed' = [committed EXCEPT ![c] = 0]
  /\ missing' = [missing EXCEPT ![c] = {}]
  /\ UNCHANGED <<worldVars, faults>>

(***************************************************************************)
(* The CLI and the vault                                                   *)
(***************************************************************************)
Fault == faults < MaxFaults /\ faults' = faults + 1

Possible(r) ==
  CASE r.method = "get" -> r.at \in vault
    [] r.method = "create" -> r.at \notin vault /\ HomeExists(r.at)
    [] OTHER -> r.at \in vault /\ (r.to = r.at \/ r.to \notin vault) /\ HomeExists(r.to)

\* An environment takes its secrets along when it gets another name.
Renamed(r, t) ==
  IF t = r.at THEN r.to
  ELSE IF r.at \in Environments /\ t[2] = r.at[2] THEN <<t[1], r.to[2]>>
  ELSE t

Effect(r) ==
  CASE r.method = "get" -> vault
    [] r.method = "create" -> vault \cup {r.at}
    [] OTHER -> {Renamed(r, t) : t \in vault}

NotFoundError(t) ==
  ErrorFromResponse(NotFound,
    IF t \in Environments THEN "environment_not_found" ELSE "secret_not_found", FALSE)

\* Older releases of the CLI number the error -32000.
AlreadyExistsErrors(t) ==
  {ErrorFromResponse(code,
     IF t \in Environments THEN "environment_already_exists" ELSE "secret_already_exists",
     FALSE) : code \in {Conflict, OperationFailed}}

Refusals(r) ==
  IF r.method = "create"
  THEN IF r.at \in vault THEN AlreadyExistsErrors(r.at) ELSE {NotFoundError(Home(r.at))}
  ELSE IF r.at \notin vault THEN {NotFoundError(r.at)}
  ELSE IF ~HomeExists(r.to) THEN {NotFoundError(Home(r.to))}
  ELSE AlreadyExistsErrors(r.to)

CLIErrors == {ErrorFromResponse(e.code, e.kind, e.hint) : e \in Errors}

\* What the SDK can be told when nobody knows whether the vault has acted.
DoubtfulErrors == {TransportError} \cup {e \in CLIErrors : e.code \in {Network, Server}}

\* Things that are gone are noted for the calls in progress.
ChangeVault(new) ==
  /\ vault' = new
  /\ missing' = [d \in Call |-> IF pc[d] = "idle" THEN missing[d]
                                ELSE missing[d] \cup (Things \ new)]

CarryOut(c) ==
  /\ Possible(request[c])
  /\ ChangeVault(Effect(request[c]))
  /\ applied' = [applied EXCEPT ![c] = @ + 1]
  /\ committed' = [committed EXCEPT ![c] =
       IF op[c] = "import" /\ request[c].at \in Secrets THEN @ + 1 ELSE @]

Answer(c, a) ==
  /\ answer' = [answer EXCEPT ![c] = a]
  /\ Goto(c, "answered")
  /\ UNCHANGED <<op, importVars, request, outcome>>

Grant(c) ==
  /\ pc[c] = "sent"
  /\ CarryOut(c)
  /\ Answer(c, Granted)
  /\ UNCHANGED <<late, faults>>

Refuse(c) ==
  /\ pc[c] = "sent"
  /\ ~Possible(request[c])
  /\ \E e \in Refusals(request[c]) : Answer(c, e)
  /\ UNCHANGED <<worldVars, historyVars, faults>>

\* The request does not get as far as the vault.
RequestFails(c) ==
  /\ pc[c] = "sent"
  /\ Fault
  /\ \E e \in CLIErrors \cup {TransportError} : Answer(c, e)
  /\ UNCHANGED <<worldVars, historyVars>>

\* The vault has acted, its answer is lost.
AnswerLost(c) ==
  /\ pc[c] = "sent"
  /\ Fault
  /\ CarryOut(c)
  /\ \E e \in DoubtfulErrors : Answer(c, e)
  /\ UNCHANGED late

\* The call times out or is cancelled while its request is on the way.
GiveUp(c) ==
  /\ pc[c] = "sent" /\ request[c].method # "get"
  /\ Fault
  /\ late' = late \cup {request[c]}
  /\ Answer(c, TransportError)
  /\ UNCHANGED <<vault, historyVars>>

OtherApplication ==
  \E t \in Things, u \in Things :
    /\ t \in Secrets <=> u \in Secrets
    /\ \E method \in {"create", "update"} :
         /\ Possible(Request(method, t, u))
         /\ ChangeVault(Effect(Request(method, t, u)))
    /\ UNCHANGED <<late, pc, op, importVars, request, answer, outcome, applied, committed,
                   faults>>

LateRequest ==
  \E r \in late :
    /\ late' = late \ {r}
    /\ \/ Possible(r) /\ ChangeVault(Effect(r))
       \/ ~Possible(r) /\ UNCHANGED <<vault, missing>>
    /\ UNCHANGED <<pc, op, importVars, request, answer, outcome, applied, committed, faults>>

(***************************************************************************)
(* Specification                                                           *)
(***************************************************************************)
Method(c) ==
  \/ Get(c) \/ Retrieve(c) \/ Create(c) \/ Modify(c) \/ ModifyEnvironment(c)
  \/ Import(c)

ImportStep(c) ==
  \/ GetEnvironment(c) \/ CreateItem(c) \/ EnvironmentResolved(c) \/ CreateEnvironment(c)
  \/ ItemCreated(c) \/ ImportFails(c) \/ ImportDone(c)

Exchange(c) == Grant(c) \/ Refuse(c) \/ RequestFails(c) \/ AnswerLost(c) \/ GiveUp(c)

Next ==
  \/ \E c \in Call : Method(c) \/ Return(c) \/ ImportStep(c) \/ Forget(c) \/ Exchange(c)
  \/ OtherApplication \/ LateRequest

Spec == Init /\ [][Next]_vars

(***************************************************************************)
(* Properties                                                              *)
(***************************************************************************)
Methods == {"none", "get", "create", "update"}
Name == Things \cup {<<NoKey, NoEnv>>}
Requests == [method : Methods, at : Name, to : Name]
Classes ==
  {"none", "granted", "LockerTransportError", "LockerError", "LockerProtocolError",
   "LockerAuthenticationError", "LockerPermissionError", "LockerNotFoundError",
   "LockerConflictError", "LockerAlreadyExistsError", "LockerValidationError",
   "LockerRateLimitError", "LockerNetworkError", "LockerServerError", "LockerStorageError",
   "LockerIntegrityError", "LockerRequestRejectedError", "LockerResponseTooLargeError",
   "LockerOperationCancelledError"}
Kinds ==
  {"", "environment_not_found", "secret_not_found"} \cup AlreadyExistsKinds
  \cup {e.kind : e \in Errors}
Answers == [class : Classes, code : Int, kind : Kinds, retryable : BOOLEAN]

TypeOK ==
  /\ vault \subseteq Things /\ late \subseteq Requests
  /\ pc \in [Call -> {"idle", "item", "sent", "answered", "done"}]
  /\ op \in [Call -> {"none", "get", "retrieve", "create", "modify", "import"}]
  /\ file \in [Call -> Files \cup {<<>>}]
  /\ item \in [Call -> Nat \ {0}] /\ \A c \in Call : item[c] <= Len(file[c]) + 1
  /\ resolved \in [Call -> SUBSET Environments]
  /\ request \in [Call -> Requests]
  /\ answer \in [Call -> Answers]
  /\ outcome \in [Call -> {"none", "ok", "default", "failed"}]
  /\ applied \in [Call -> Nat] /\ committed \in [Call -> Nat]
  /\ missing \in [Call -> SUBSET Things]
  /\ faults \in Nat

\* An import creates the items of its file in order, each of them once: what a
\* failed import leaves behind is the items before the one it failed at, and that
\* one only when its answer was lost.  An import that succeeds has created all.
ImportIsPrefix ==
  \A c \in Call : op[c] = "import" =>
    /\ outcome[c] = "ok" => committed[c] = Len(file[c])
    /\ outcome[c] = "failed" =>
         \/ committed[c] = item[c] - 1
         \/ committed[c] = item[c] /\ answer[c] \in DoubtfulErrors

\* The errors that say what the vault holds, or that it will not have this.
Definite ==
  {"LockerAlreadyExistsError", "LockerConflictError", "LockerNotFoundError",
   "LockerValidationError", "LockerPermissionError", "LockerAuthenticationError"}

\* A request that was refused for a definite reason has not changed the vault:
\* "already exists" is never about the secret this very call has just created,
\* because no request is sent twice (README.md: "Create and update are sent once
\* because a lost response can leave the remote commit outcome unknown").
RefusalHasNoEffect ==
  \A c \in Call :
    pc[c] \in {"answered", "done"} /\ answer[c].class \in Definite => applied[c] = 0

\* What the SDK takes for absent was absent at some moment of the call: the
\* default of get is returned for a secret that was not there, not for one that
\* could not be read, and import creates environments that were not there.
NotFoundIsReal ==
  \A c \in Call :
    /\ outcome[c] = "default" => request[c].at \in missing[c]
    /\ op[c] = "import" /\ request[c].method = "create" /\ request[c].at \in Environments
         => request[c].at \in missing[c]

\* An error that applications may answer with a retry is none of those that will
\* be the same next time, whatever the CLI says of it (README.md: "Only
\* rate-limit, network, service-unavailable, or an unknown server-range code can
\* preserve a true hint").
TransientClasses ==
  {"LockerRateLimitError", "LockerNetworkError", "LockerServerError", "LockerError"}
RetryableIsTransient ==
  \A c \in Call :
    answer[c].retryable =>
      /\ answer[c].class \in TransientClasses
      /\ answer[c].code = Server => answer[c].kind # "internal_error"
=============================================================================
