--------------------------- MODULE ProcessRunner ---------------------------
(***************************************************************************)
(* NodeProcessRunner.run of src/executors/process.ts: one exchange with a  *)
(* CLI process.  The handlers of the child's events, the timer, the abort  *)
(* signal and the force timer are one action each; the event loop runs     *)
(* them in any order in which their events can arise.                      *)
(***************************************************************************)
EXTENDS ProcessTree

CONSTANTS
  MaxStdout,     \* maxStdoutBytes, in pieces of output
  MaxStderr      \* maxStderrBytes

ASSUME LimitsAssumption == MaxStdout \in Nat /\ MaxStderr \in Nat

VARIABLES
  settled,     \* "no", "resolved", "rejected"
  reason,      \* ProcessFailureReason of the rejection
  stdin,       \* the request buffer: "secret", "wiped"
  chunks,      \* stdoutChunks: pieces of secret output in memory
  stdoutBytes,
  stderrBytes,
  timer,       \* the timeout: "off", "armed"
  forceTimer,  \* the SIGKILL that follows a SIGTERM: "off", "armed"
  aborted,     \* options.signal.aborted
  started,     \* run was called
  node         \* the host program: "server" that other work keeps alive,
               \* "script" that ends when nothing is left to do, "exited"

promiseVars == <<settled, reason>>
byteVars == <<stdoutBytes, stderrBytes>>
runVars == <<promiseVars, stdin, chunks, byteVars, timer, forceTimer, aborted, started, node>>
vars == <<treeVars, runVars>>

Init ==
  /\ TreeInit
  /\ settled = "no" /\ reason = "none"
  /\ stdin = "secret" /\ chunks = 0 /\ stdoutBytes = 0 /\ stderrBytes = 0
  /\ timer = "off" /\ forceTimer = "off"
  /\ aborted = FALSE /\ started = FALSE
  /\ node \in {"server", "script"}

Active == started /\ node # "exited"
Unsettled == Active /\ settled = "no"

\* cleanup and wipeStdout.
Wipe == stdin' = "wiped" /\ timer' = "off" /\ chunks' = 0

\* Mutant: the SIGKILL after the grace period is missing.
TerminateOnce(force) ==
  IF leader = "unstarted" THEN UNCHANGED <<lifeVars, forceTimer>>
  ELSE SignalGroup(IF force THEN "SIGKILL" ELSE "SIGTERM") /\ UNCHANGED forceTimer

\* terminateProcessTree: a group that is gone already needs no second signal.
Terminate(force) ==
  IF leader = "unstarted" THEN UNCHANGED <<lifeVars, forceTimer>>
  ELSE /\ SignalGroup(IF force THEN "SIGKILL" ELSE "SIGTERM")
       /\ forceTimer' = IF force \/ TreeGone THEN forceTimer ELSE "armed"

\* fail(...)
Reject(why) ==
  /\ settled' = "rejected" /\ reason' = why
  /\ Wipe
  /\ Terminate(FALSE)

(***************************************************************************)
(* run                                                                     *)
(***************************************************************************)
\* The signal is aborted already, or spawn throws.
RunRefused ==
  /\ ~started
  /\ started' = TRUE
  /\ settled' = "rejected" /\ reason' = IF aborted THEN "aborted" ELSE "spawn"
  /\ stdin' = "wiped"
  /\ UNCHANGED <<treeVars, chunks, byteVars, timer, forceTimer, aborted, node>>

\* Mutant: no timer is started.
RunWithoutTimer ==
  /\ ~started /\ ~aborted
  /\ Start
  /\ started' = TRUE
  /\ UNCHANGED <<promiseVars, stdin, chunks, byteVars, timer, forceTimer, aborted, node>>

\* The child is spawned, the handlers are installed, stdin is handed over.
Run ==
  /\ ~started /\ ~aborted
  /\ Start
  /\ started' = TRUE /\ timer' = "armed"
  /\ UNCHANGED <<promiseVars, stdin, chunks, byteVars, forceTimer, aborted, node>>

(***************************************************************************)
(* Event handlers                                                          *)
(***************************************************************************)
OnTimeout ==
  /\ Unsettled /\ timer = "armed"
  /\ Reject("timeout")
  /\ UNCHANGED <<traitVars, pipeVars, byteVars, aborted, started, node>>

\* The listener is there while the promise is unsettled.
OnAbort ==
  /\ ~aborted /\ node # "exited"
  /\ aborted' = TRUE
  /\ \/ Unsettled /\ Reject("aborted")
     \/ ~Unsettled /\ UNCHANGED <<lifeVars, promiseVars, stdin, chunks, timer, forceTimer>>
  /\ UNCHANGED <<traitVars, pipeVars, byteVars, started, node>>

\* The CLI does not read its input to the end.
OnStdinError ==
  /\ Unsettled
  /\ Reject("stdin")
  /\ UNCHANGED <<traitVars, pipeVars, byteVars, aborted, started, node>>

\* There is no process to be killed.
OnError ==
  /\ Unsettled /\ leader = "unstarted"
  /\ settled' = "rejected" /\ reason' = "spawn"
  /\ Wipe
  /\ UNCHANGED <<treeVars, byteVars, forceTimer, aborted, started, node>>

\* Mutant: output that comes after the end is collected as well.
CollectStdout ==
  /\ Active /\ outPipe > 0
  /\ outPipe' = outPipe - 1
  /\ \/ /\ stdoutBytes < MaxStdout
        /\ stdoutBytes' = stdoutBytes + 1
        /\ chunks' = chunks + 1
        /\ UNCHANGED <<lifeVars, promiseVars, stdin, timer, forceTimer>>
     \/ /\ settled = "no" /\ stdoutBytes >= MaxStdout
        /\ stdoutBytes' = stdoutBytes + 1
        /\ Reject("buffer_limit")
  /\ UNCHANGED <<traitVars, errPipe, written, stderrBytes, aborted, started, node>>

\* A piece of output is kept, is one too many, or comes after the end and is
\* wiped.
OnStdout ==
  /\ Active /\ outPipe > 0
  /\ outPipe' = outPipe - 1
  /\ \/ /\ settled = "no" /\ stdoutBytes < MaxStdout
        /\ stdoutBytes' = stdoutBytes + 1
        /\ chunks' = chunks + 1
        /\ UNCHANGED <<lifeVars, promiseVars, stdin, timer, forceTimer>>
     \/ /\ settled = "no" /\ stdoutBytes >= MaxStdout
        /\ stdoutBytes' = stdoutBytes + 1
        /\ Reject("buffer_limit")
     \/ /\ settled # "no"
        /\ UNCHANGED <<lifeVars, promiseVars, stdin, chunks, stdoutBytes, timer, forceTimer>>
  /\ UNCHANGED <<traitVars, errPipe, written, stderrBytes, aborted, started, node>>

OnStderr ==
  /\ Active /\ errPipe > 0
  /\ errPipe' = errPipe - 1
  /\ \/ /\ settled = "no" /\ stderrBytes < MaxStderr
        /\ stderrBytes' = stderrBytes + 1
        /\ UNCHANGED <<lifeVars, promiseVars, stdin, chunks, timer, forceTimer>>
     \/ /\ settled = "no" /\ stderrBytes >= MaxStderr
        /\ stderrBytes' = stderrBytes + 1
        /\ Reject("buffer_limit")
     \/ /\ settled # "no"
        /\ UNCHANGED <<lifeVars, promiseVars, stdin, chunks, stderrBytes, timer, forceTimer>>
  /\ UNCHANGED <<traitVars, outPipe, written, stdoutBytes, aborted, started, node>>

\* Mutant: whatever is left of the group stays.
CloseOnly ==
  /\ Unsettled /\ Closed
  /\ \/ code = "zero" /\ settled' = "resolved" /\ Wipe
        /\ UNCHANGED <<lifeVars, reason, forceTimer>>
     \/ code # "zero" /\ Reject("exit")
     \/ code = "zero" /\ Reject("encoding")
  /\ UNCHANGED <<traitVars, pipeVars, byteVars, aborted, started, node>>

\* The response is accepted when the CLI exited with 0 and its output decodes;
\* first, what is left of its group is killed.
OnClose ==
  /\ Unsettled /\ Closed
  /\ \/ /\ code = "zero"
        /\ Terminate(TRUE)
        /\ settled' = "resolved" /\ Wipe
        /\ UNCHANGED reason
     \/ code # "zero" /\ Reject("exit")
     \/ code = "zero" /\ Reject("encoding")
  /\ UNCHANGED <<traitVars, pipeVars, byteVars, aborted, started, node>>

OnForce ==
  /\ Active /\ forceTimer = "armed"
  /\ SignalGroup("SIGKILL")
  /\ forceTimer' = "off"
  /\ UNCHANGED <<traitVars, pipeVars, promiseVars, stdin, chunks, byteVars, timer, aborted,
                 started, node>>

\* The CLI goes on by itself.
CLIStep == TreeStep /\ UNCHANGED runVars

\* Nothing is left that keeps the event loop alive: the child and its pipes are
\* closed, and the force timer is unref'ed.
NodeEnds ==
  /\ Active /\ node = "script"
  /\ settled # "no"
  /\ leader = "unstarted" \/ leader = "none" \/ Closed
  /\ node' = "exited"
  /\ UNCHANGED <<treeVars, promiseVars, stdin, chunks, byteVars, timer, forceTimer, aborted,
                 started>>

Handler ==
  RunRefused \/ Run \/ OnTimeout \/ OnError \/ OnStdout \/ OnStderr \/ OnClose \/ OnForce

Next == Handler \/ OnAbort \/ OnStdinError \/ CLIStep \/ NodeEnds

Spec == Init /\ [][Next]_vars

\* The event loop runs what is due, a process that got SIGKILL is gone; nothing
\* makes the CLI answer or exit.
FairSpec ==
  /\ Spec
  /\ WF_vars(RunRefused \/ Run) /\ WF_vars(OnTimeout) /\ WF_vars(OnError) /\ WF_vars(OnForce)
  /\ WF_vars(OnStdout) /\ WF_vars(OnStderr) /\ WF_vars(OnClose)

(***************************************************************************)
(* Properties                                                              *)
(***************************************************************************)
\* ProcessFailureReason
Failures == {"aborted", "spawn", "timeout", "stdin", "buffer_limit", "exit", "encoding"}

TypeOK ==
  /\ leader \in {"none", "unstarted", "running", "exited"}
  /\ code \in {"none", "zero", "nonzero", "signal"}
  /\ descendant \in {"none", "running", "gone"}
  /\ settled \in {"no", "resolved", "rejected"}
  /\ reason \in Failures \cup {"none"}
  /\ stdin \in {"secret", "wiped"} /\ chunks \in Nat
  /\ outPipe \in Nat /\ errPipe \in Nat
  /\ stdoutBytes \in 0 .. MaxStdout + 1 /\ stderrBytes \in 0 .. MaxStderr + 1
  /\ timer \in {"off", "armed"} /\ forceTimer \in {"off", "armed"}
  /\ node \in {"server", "script", "exited"}

\* What the caller of run has got.
Outcome ==
  CASE settled = "no" -> "open"
    [] settled = "resolved" -> "response"
    [] settled = "rejected" -> reason

\* The promise of run: a single outcome, whatever events follow it, and a
\* response only from a CLI that exited with 0, when all of its output has been
\* read and is within the limit, and nothing of it is running (process.ts: "Kill
\* any surviving process-group members before accepting its response").
Exchange == INSTANCE ProcessExchange WITH
  Limit <- MaxStdout,
  Failures <- Failures,
  outcome <- Outcome,
  doomed <- settled = "rejected",
  request <- stdin,
  alive <- ~TreeGone,
  exit <- code,
  unread <- outPipe,
  taken <- stdoutBytes

ImplementsExchange == Exchange!Spec

\* Whatever ends the exchange, and whatever arrives afterwards, neither the
\* request nor the output stays in memory.
SecretsAreWiped == settled # "no" => stdin = "wiped" /\ chunks = 0 /\ timer = "off"

\* Every exchange is settled, though the CLI may hang or leave a descendant that
\* keeps its pipes open.
ExchangeSettles == <>(settled # "no")

\* When an exchange is over, nothing of the CLI goes on running (README.md:
\* "terminates the CLI process tree when an asynchronous call times out or is
\* cancelled"), in a host that is there when the force timer is due.
TreeIsTerminated == (settled # "no" /\ node = "server") ~> TreeGone
=============================================================================
