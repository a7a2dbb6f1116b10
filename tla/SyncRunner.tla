----------------------------- MODULE SyncRunner -----------------------------
(***************************************************************************)
(* NodeProcessRunner.runSync of src/executors/process.ts: one exchange     *)
(* that blocks its caller.  The caller waits in spawnSync for a helper     *)
(* program (SYNC_HELPER_SOURCE), which owns the CLI, watches its limits    *)
(* and ends its process tree; a guard timeout ends a helper that hangs.    *)
(* The three processes run concurrently.                                   *)
(***************************************************************************)
EXTENDS ProcessTree

CONSTANTS
  MaxStdout,  \* maxStdoutBytes, in pieces of output
  MaxStderr   \* maxStderrBytes

ASSUME LimitsAssumption == MaxStdout \in Nat /\ MaxStderr \in Nat

VARIABLES
  result,       \* what runSync gives its caller: "none" so far, "response",
                \* or the ProcessFailureReason it throws
  stdin,        \* the request buffer of the caller: "secret", "wiped"
  helper,       \* "none", "started", "running", "finished", "exited", "killed"
  status,       \* the exit status of the helper: "none", "zero", "child_exit"
                \* or the failure
  reported,     \* the helper has written the process id of the CLI
  failure,      \* the first one: "none", "timeout", "transport", "stdout", "stderr"
  forceTimer,   \* "off", "armed"
  chunks,       \* pieces of secret output in the helper's memory
  sent,         \* pieces of output the helper has passed on to the caller
  stdoutBytes,
  stderrBytes

callerVars == <<result, stdin>>
byteVars == <<stdoutBytes, stderrBytes>>
helperVars == <<helper, status, reported, failure, forceTimer, chunks, sent, byteVars>>
vars == <<treeVars, callerVars, helperVars>>

Init ==
  /\ TreeInit
  /\ result = "none" /\ stdin = "secret"
  /\ helper = "none" /\ status = "none" /\ reported = FALSE
  /\ failure = "none" /\ forceTimer = "off"
  /\ chunks = 0 /\ sent = 0 /\ stdoutBytes = 0 /\ stderrBytes = 0

Watching == helper = "running"

(***************************************************************************)
(* The helper                                                              *)
(***************************************************************************)
\* killTree: without a process id there is nothing to kill.
KillTree(force) ==
  IF leader \in {"none", "unstarted"} THEN UNCHANGED lifeVars
  ELSE SignalGroup(IF force THEN "SIGKILL" ELSE "SIGTERM")

\* Mutant: no SIGKILL follows the SIGTERM.
FailOnce(why) ==
  /\ failure' = why
  /\ chunks' = 0
  /\ KillTree(FALSE)
  /\ UNCHANGED forceTimer

\* fail, called while no other failure is known.
Fail(why) ==
  /\ failure' = why
  /\ chunks' = 0
  /\ KillTree(FALSE)
  /\ forceTimer' = "armed"

\* The CLI is spawned, or spawn throws.
HelperSpawns ==
  /\ helper = "started"
  /\ \/ Start /\ helper' = "running" /\ UNCHANGED status
     \/ helper' = "exited" /\ status' = "transport" /\ UNCHANGED treeVars
  /\ UNCHANGED <<callerVars, reported, failure, forceTimer, chunks, sent, byteVars>>

\* The process id goes to standard error; a process that was not started has
\* none.
HelperReports ==
  /\ Watching /\ ~reported
  /\ reported' = TRUE
  /\ UNCHANGED <<treeVars, callerVars, helper, status, failure, forceTimer, chunks, sent,
                 byteVars>>

\* The event loop of the helper begins after its start.
Handling == Watching /\ reported

OnTimeout ==
  /\ Handling /\ failure = "none"
  /\ Fail("timeout")
  /\ UNCHANGED <<traitVars, pipeVars, callerVars, helper, status, reported, sent, byteVars>>

\* An error of the process, or of one of the input streams.
OnTransportError ==
  /\ Handling /\ failure = "none"
  /\ Fail("transport")
  /\ UNCHANGED <<traitVars, pipeVars, callerVars, helper, status, reported, sent, byteVars>>

\* Mutant: output is kept though the exchange has failed.
KeepStdout ==
  /\ Handling /\ outPipe > 0
  /\ outPipe' = outPipe - 1
  /\ \/ /\ stdoutBytes < MaxStdout
        /\ stdoutBytes' = stdoutBytes + 1
        /\ chunks' = chunks + 1
        /\ UNCHANGED <<lifeVars, failure, forceTimer>>
     \/ /\ failure = "none" /\ stdoutBytes >= MaxStdout
        /\ stdoutBytes' = stdoutBytes + 1
        /\ Fail("stdout")
  /\ UNCHANGED <<traitVars, errPipe, written, callerVars, helper, status, reported, sent,
                 stderrBytes>>

OnStdout ==
  /\ Handling /\ outPipe > 0
  /\ outPipe' = outPipe - 1
  /\ \/ /\ failure = "none" /\ stdoutBytes < MaxStdout
        /\ stdoutBytes' = stdoutBytes + 1
        /\ chunks' = chunks + 1
        /\ UNCHANGED <<lifeVars, failure, forceTimer>>
     \/ /\ failure = "none" /\ stdoutBytes >= MaxStdout
        /\ stdoutBytes' = stdoutBytes + 1
        /\ Fail("stdout")
     \/ /\ failure # "none"
        /\ UNCHANGED <<lifeVars, chunks, stdoutBytes, failure, forceTimer>>
  /\ UNCHANGED <<traitVars, errPipe, written, callerVars, helper, status, reported, sent,
                 stderrBytes>>

\* Standard error is counted to the end.
OnStderr ==
  /\ Handling /\ errPipe > 0
  /\ errPipe' = errPipe - 1
  /\ stderrBytes' = stderrBytes + 1
  /\ \/ /\ failure = "none" /\ stderrBytes >= MaxStderr
        /\ Fail("stderr")
     \/ /\ failure # "none" \/ stderrBytes < MaxStderr
        /\ UNCHANGED <<lifeVars, chunks, failure, forceTimer>>
  /\ UNCHANGED <<traitVars, outPipe, written, callerVars, helper, status, reported, sent,
                 stdoutBytes>>

OnForce ==
  /\ Handling /\ forceTimer = "armed"
  /\ KillTree(TRUE)
  /\ forceTimer' = "off"
  /\ UNCHANGED <<traitVars, pipeVars, callerVars, helper, status, reported, failure, chunks,
                 sent, byteVars>>

\* The 'close' event also follows the error of a process that did not start.
ChildClosed == Closed \/ (leader = "unstarted" /\ failure # "none")

\* Mutant: the group is left alone.
FinishOnly ==
  /\ Handling /\ ChildClosed
  /\ helper' = "finished"
  /\ forceTimer' = "off"
  /\ status' = IF failure # "none" THEN failure ELSE IF code = "zero" THEN "zero" ELSE "child_exit"
  /\ sent' = IF status' = "zero" THEN chunks ELSE sent
  /\ chunks' = IF status' = "zero" THEN 0 ELSE chunks
  /\ UNCHANGED <<treeVars, callerVars, reported, failure, byteVars>>

\* finish: a failure keeps its status; otherwise what is left of the group is
\* killed, and the output of a CLI that exited with 0 is passed on.
Finish ==
  /\ Handling /\ ChildClosed
  /\ helper' = "finished"
  /\ forceTimer' = "off"
  /\ \/ /\ failure # "none"
        /\ status' = failure
        /\ UNCHANGED <<lifeVars, chunks, sent>>
     \/ /\ failure = "none" /\ code # "zero"
        /\ status' = "child_exit"
        /\ KillTree(TRUE)
        /\ UNCHANGED <<chunks, sent>>
     \/ /\ failure = "none" /\ code = "zero"
        /\ status' = "zero"
        /\ KillTree(TRUE)
        /\ sent' = chunks /\ chunks' = 0
  /\ UNCHANGED <<traitVars, pipeVars, callerVars, reported, failure, byteVars>>

\* The event loop is empty; the exit handler kills the group of a CLI that did
\* not exit by itself (child.exitCode === null) and wipes.
HelperExits ==
  /\ helper = "finished"
  /\ helper' = "exited"
  /\ IF code \in {"none", "signal"} THEN KillTree(TRUE) ELSE UNCHANGED lifeVars
  /\ chunks' = 0
  /\ UNCHANGED <<traitVars, pipeVars, callerVars, status, reported, failure, forceTimer, sent,
                 byteVars>>

(***************************************************************************)
(* The caller                                                              *)
(***************************************************************************)
\* The signal is aborted already, or the helper cannot be started.
RunSyncRefused ==
  /\ helper = "none" /\ result = "none"
  /\ stdin' = "wiped"
  /\ result' \in {"aborted", "spawn"}
  /\ UNCHANGED <<treeVars, helperVars>>

RunSync ==
  /\ helper = "none" /\ result = "none"
  /\ helper' = "started"
  /\ UNCHANGED <<treeVars, callerVars, status, reported, failure, forceTimer, chunks, sent,
                 byteVars>>

\* spawnSync returns the status of the helper.
Outcome(exit) ==
  CASE exit = "timeout" -> {"timeout"}
    [] exit \in {"stdout", "stderr"} -> {"buffer_limit"}
    [] exit = "transport" -> {"spawn"}
    [] exit = "child_exit" -> {"exit"}
    [] exit = "zero" -> {"response", "encoding"}

RunSyncReturns ==
  /\ helper = "exited" /\ result = "none"
  /\ result' \in Outcome(status)
  /\ stdin' = "wiped"
  /\ UNCHANGED <<treeVars, helperVars>>

\* Mutant: the CLI of a helper that was killed goes on.
GuardKillsHelper ==
  /\ helper \in {"started", "running", "finished"}
  /\ helper' = "killed" /\ forceTimer' = "off" /\ chunks' = 0
  /\ UNCHANGED lifeVars
  /\ result' = "timeout" /\ stdin' = "wiped"
  /\ UNCHANGED <<traitVars, pipeVars, status, reported, failure, sent, byteVars>>

\* The guard timeout of spawnSync kills the helper; the group of the CLI is
\* killed by the process id the helper has reported.
GuardExpires ==
  /\ helper \in {"started", "running", "finished"}
  /\ helper' = "killed" /\ forceTimer' = "off" /\ chunks' = 0
  /\ IF reported THEN KillTree(TRUE) ELSE UNCHANGED lifeVars
  /\ result' = "timeout" /\ stdin' = "wiped"
  /\ UNCHANGED <<traitVars, pipeVars, status, reported, failure, sent, byteVars>>

\* The CLI goes on by itself.
CLIStep == TreeStep /\ UNCHANGED <<callerVars, helperVars>>

Helper ==
  \/ HelperSpawns \/ HelperReports \/ OnTimeout \/ OnStdout \/ OnStderr
  \/ OnForce \/ Finish \/ HelperExits

Next ==
  \/ Helper \/ OnTransportError
  \/ RunSyncRefused \/ RunSync \/ RunSyncReturns \/ GuardExpires
  \/ CLIStep

Spec == Init /\ [][Next]_vars

\* The helper handles what is due, and the caller takes its result.  The guard
\* is not assumed to expire, the CLI not to answer.
FairSpec ==
  /\ Spec
  /\ WF_vars(RunSyncRefused \/ RunSync) /\ WF_vars(RunSyncReturns)
  /\ WF_vars(HelperSpawns) /\ WF_vars(HelperReports) /\ WF_vars(HelperExits)
  /\ WF_vars(OnTimeout) /\ WF_vars(OnForce) /\ WF_vars(Finish)
  /\ WF_vars(OnStdout) /\ WF_vars(OnStderr)

(***************************************************************************)
(* Properties                                                              *)
(***************************************************************************)
\* ProcessFailureReason
Failures == {"aborted", "spawn", "timeout", "buffer_limit", "exit", "encoding"}

TypeOK ==
  /\ leader \in {"none", "unstarted", "running", "exited"}
  /\ code \in {"none", "zero", "nonzero", "signal"}
  /\ descendant \in {"none", "running", "gone"}
  /\ outPipe \in Nat /\ errPipe \in Nat
  /\ result \in Failures \cup {"none", "response"}
  /\ stdin \in {"secret", "wiped"}
  /\ helper \in {"none", "started", "running", "finished", "exited", "killed"}
  /\ failure \in {"none", "timeout", "transport", "stdout", "stderr"}
  /\ status \in {"none", "zero", "child_exit", "timeout", "transport", "stdout", "stderr"}
  /\ reported \in BOOLEAN /\ forceTimer \in {"off", "armed"}
  /\ chunks \in Nat /\ sent \in Nat
  /\ stdoutBytes \in 0 .. MaxStdout + 1 /\ stderrBytes \in Nat

\* The promise of runSync, the same as that of run: neither a failure of the
\* helper, nor a stray descendant, nor a piece of output gets lost on the way
\* through the exit status of the helper to the caller.
Exchange == INSTANCE ProcessExchange WITH
  Limit <- MaxStdout,
  Failures <- Failures,
  outcome <- IF result = "none" THEN "open" ELSE result,
  doomed <- failure # "none" \/ result \in Failures,
  request <- stdin,
  alive <- ~TreeGone,
  exit <- code,
  unread <- outPipe,
  taken <- IF status = "zero" THEN sent ELSE stdoutBytes

SyncImplementsExchange == Exchange!Spec

\* No output is kept once the exchange has failed, and none is left in the helper
\* when the caller goes on; nor is the request in the caller.
SyncSecretsAreWiped ==
  /\ failure # "none" => chunks = 0
  /\ result # "none" => stdin = "wiped" /\ chunks = 0

\* When runSync returns, the CLI process itself has ended: on every path through
\* the helper, and when the guard kills a helper that had reported it.
CLIHasEnded == result # "none" /\ reported => leader # "running"

\* runSync returns though the CLI hangs, ignores SIGTERM or leaves a descendant
\* that holds its pipes, and does not need the guard timeout for it.
RunSyncReturnsAtLast == <>(result # "none")

\* A synchronous timeout ends the whole tree (tests/unit/process.test.cjs:
\* "synchronous timeout terminates the full descendant process tree").
SyncTimeoutEndsTree == result = "timeout" /\ reported => TreeGone
=============================================================================
