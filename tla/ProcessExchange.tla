-------------------------- MODULE ProcessExchange --------------------------
(***************************************************************************)
(* What NodeProcessRunner of src/executors/process.ts promises whoever     *)
(* calls run or runSync: one outcome, and a response only when the CLI has *)
(* ended well, has been read to the end, and has left nothing running.     *)
(* Handlers, timers, signals and the helper program are left out.          *)
(***************************************************************************)
EXTENDS Naturals

CONSTANTS
  Limit,     \* maxStdoutBytes, in pieces of output
  Failures   \* ProcessFailureReason

Codes == {"none", "zero", "nonzero", "signal"}

VARIABLES
  outcome,   \* what the caller has got: "open", "response", or one of Failures
  doomed,    \* something went wrong, which the caller may not know yet
  request,   \* the request buffer: "secret", "wiped"
  alive,     \* something of the CLI runs
  exit,      \* its exit code
  unread,    \* pieces of output that nobody has read
  taken      \* pieces of output taken for the response

vars == <<outcome, doomed, request, alive, exit, unread, taken>>

Init ==
  /\ outcome = "open" /\ doomed = FALSE /\ request = "secret"
  /\ alive = FALSE /\ exit = "none"
  /\ unread = 0 /\ taken = 0

\* The CLI is spawned, once.
Begin ==
  /\ outcome = "open" /\ ~alive /\ exit = "none"
  /\ alive' = TRUE
  /\ UNCHANGED <<outcome, doomed, request, exit, unread, taken>>

\* What runs may end, by itself or by a signal; an exit code is never another
\* one afterwards.
MayEnd ==
  /\ alive' \in {alive, FALSE}
  /\ exit' = exit \/ (alive /\ exit = "none" /\ exit' \in Codes)

\* The CLI goes on, or is signalled; what has ended stays so and writes nothing.
Evolve ==
  /\ alive
  /\ MayEnd
  /\ unread' \in Nat /\ unread' >= unread
  /\ UNCHANGED <<outcome, doomed, request, taken>>

\* Every piece of output counts until something goes wrong, and none afterwards.
Read ==
  /\ unread > 0 /\ unread' = unread - 1
  /\ taken' = IF doomed THEN taken ELSE taken + 1
  /\ UNCHANGED <<outcome, doomed, request, alive, exit>>

Accept ==
  /\ outcome = "open" /\ ~doomed
  /\ exit = "zero" /\ unread = 0 /\ taken <= Limit
  /\ outcome' = "response" /\ request' = "wiped"
  /\ alive' = FALSE
  /\ UNCHANGED <<doomed, exit, unread, taken>>

\* The exchange fails, perhaps over the piece of output that was just read; the
\* caller is told at once or later.
Fail ==
  /\ outcome = "open"
  /\ doomed' = TRUE
  /\ \/ outcome' = "open" /\ UNCHANGED request
     \/ outcome' \in Failures /\ request' = "wiped"
  /\ MayEnd
  /\ \/ UNCHANGED <<unread, taken>>
     \/ unread > 0 /\ unread' = unread - 1 /\ taken' \in {taken, taken + 1}

Next == Begin \/ Evolve \/ Read \/ Accept \/ Fail

Spec == Init /\ [][Next]_vars
=============================================================================
