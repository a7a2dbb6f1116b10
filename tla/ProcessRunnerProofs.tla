------------------------ MODULE ProcessRunnerProofs ------------------------
(***************************************************************************)
(* The safety properties of ProcessRunner for any limits and any amount of *)
(* output.                                                                 *)
(***************************************************************************)
EXTENDS ProcessRunner, TLAPS

USE DEF Failures

\* Nothing of the exchange exists before run is called.
BeforeStart ==
  ~started => leader = "none" /\ settled = "no" /\ timer = "off" /\ chunks = 0

\* While the promise is open, all that was read is within the limits.
WithinLimits == settled = "no" => stdoutBytes <= MaxStdout /\ stderrBytes <= MaxStderr

\* The leader is the one that forks, and it has an exit code when it has exited.
LifeIsOrdered ==
  /\ leader \in {"none", "unstarted"} => descendant = "none" /\ outPipe = 0
  /\ code # "none" => leader = "exited"

\* A rejection has a reason, and a response comes from a CLI that is gone.
Accepted ==
  /\ settled = "rejected" => reason \in Failures
  /\ settled = "resolved" =>
       code = "zero" /\ TreeGone /\ outPipe = 0 /\ stdoutBytes <= MaxStdout

IInv ==
  TypeOK /\ BeforeStart /\ WithinLimits /\ LifeIsOrdered /\ Accepted /\ SecretsAreWiped

\* A SIGKILL leaves nothing of the group; no signal brings anything back.
LEMMA Signals ==
  ASSUME TypeOK, LifeIsOrdered, NEW signal \in {"SIGTERM", "SIGKILL"}, SignalGroup(signal)
  PROVE  /\ leader' \in {leader, "exited"} /\ descendant' \in {descendant, "gone"}
         /\ descendant' # descendant => descendant = "running"
         /\ leader' # leader => leader = "running" /\ code' \in {"nonzero", "signal"}
         /\ leader' = leader => code' = code
         /\ TreeGone => TreeGone'
         /\ signal = "SIGKILL" => TreeGone'
  BY DEF SignalGroup, Obeys, TypeOK, LifeIsOrdered, TreeGone

\* The same of terminateProcessTree.
LEMMA Terminations ==
  ASSUME TypeOK, LifeIsOrdered, NEW force \in BOOLEAN, Terminate(force)
  PROVE  /\ leader' \in {leader, "exited"} /\ descendant' \in {descendant, "gone"}
         /\ descendant' # descendant => descendant = "running"
         /\ leader' # leader => leader = "running" /\ code' \in {"nonzero", "signal"}
         /\ leader' = leader => code' = code
         /\ force \/ TreeGone => TreeGone'
         /\ forceTimer' \in {forceTimer, "armed"}
<1>1. CASE leader = "unstarted"
  BY <1>1 DEF Terminate, lifeVars, TreeGone, LifeIsOrdered
<1>2. CASE leader # "unstarted"
  BY <1>2, Signals DEF Terminate
<1> QED
  BY <1>1, <1>2

\* The invariant holds before run is called.
THEOREM InitInvariant == Init => IInv
  BY LimitsAssumption
  DEF Init, TreeInit, IInv, TypeOK, BeforeStart, WithinLimits, LifeIsOrdered,
      Accepted, SecretsAreWiped

\* A rejection, whatever the reason, leaves the invariant true.
LEMMA RejectStep ==
  ASSUME IInv, Unsettled, NEW why \in {"aborted", "timeout", "stdin", "buffer_limit", "exit", "encoding"},
         Reject(why), UNCHANGED <<traitVars, written, started, node>>,
         outPipe' \in 0 .. outPipe, errPipe' \in 0 .. errPipe,
         stdoutBytes' \in 0 .. MaxStdout + 1, stderrBytes' \in 0 .. MaxStderr + 1
  PROVE  IInv'
<1>1. /\ settled' = "rejected" /\ reason' = why
      /\ stdin' = "wiped" /\ timer' = "off" /\ chunks' = 0
  BY DEF Reject, Wipe
<1>2. /\ leader' \in {leader, "exited"} /\ descendant' \in {descendant, "gone"}
      /\ descendant' # descendant => descendant = "running"
      /\ leader' # leader => leader = "running" /\ code' \in {"nonzero", "signal"}
      /\ leader' = leader => code' = code
      /\ forceTimer' \in {forceTimer, "armed"}
  BY Terminations DEF Reject, IInv
<1>3. TypeOK'
  BY <1>1, <1>2 DEF IInv, TypeOK
<1>4. LifeIsOrdered'
  BY <1>2 DEF IInv, TypeOK, LifeIsOrdered
<1>5. BeforeStart' /\ WithinLimits' /\ Accepted' /\ SecretsAreWiped'
  BY <1>1 DEF Unsettled, Active, BeforeStart, WithinLimits, Accepted, SecretsAreWiped
<1> QED
  BY <1>3, <1>4, <1>5 DEF IInv

\* The CLI goes on by itself: an accepted response stays final, as nothing that
\* could write or fork is left.
LEMMA CLIInvariant == ASSUME IInv, CLIStep PROVE IInv'
<1> USE DEF CLIStep, runVars, promiseVars, byteVars
<1>1. TypeOK'
  BY DEF TreeStep, Fork, Write, LeaderExits, DescendantExits, lifeVars, pipeVars, IInv, TypeOK
<1>2. LifeIsOrdered' /\ BeforeStart'
  BY DEF TreeStep, Fork, Write, LeaderExits, DescendantExits, lifeVars, pipeVars, IInv, TypeOK,
         LifeIsOrdered, BeforeStart
<1>3. WithinLimits' /\ SecretsAreWiped'
  BY DEF IInv, WithinLimits, SecretsAreWiped
<1>4. Accepted'
  BY DEF TreeStep, Fork, Write, LeaderExits, DescendantExits, lifeVars, pipeVars, IInv, TypeOK,
         Accepted, TreeGone
<1> QED
  BY <1>1, <1>2, <1>3, <1>4 DEF IInv

\* The response is accepted.
LEMMA CloseStep == ASSUME IInv, OnClose PROVE IInv'
<1>1. CASE Reject("exit") \/ Reject("encoding")
  BY <1>1, RejectStep DEF OnClose, pipeVars, byteVars, IInv, TypeOK
<1>2. CASE code = "zero" /\ Terminate(TRUE) /\ settled' = "resolved" /\ Wipe /\ UNCHANGED reason
  <2>1. /\ leader = "exited" /\ leader' = leader /\ code' = code /\ TreeGone'
        /\ descendant' \in {descendant, "gone"} /\ forceTimer' \in {forceTimer, "armed"}
    BY <1>2, Terminations DEF OnClose, Closed, IInv
  <2>2. /\ UNCHANGED <<traitVars, outPipe, errPipe, written, byteVars, started, node>>
        /\ outPipe = 0 /\ stdoutBytes <= MaxStdout
    BY DEF OnClose, Closed, Unsettled, pipeVars, IInv, WithinLimits
  <2>3. TypeOK' /\ LifeIsOrdered'
    BY <1>2, <2>1, <2>2 DEF Wipe, byteVars, IInv, TypeOK, LifeIsOrdered
  <2>4. BeforeStart' /\ WithinLimits' /\ Accepted' /\ SecretsAreWiped'
    BY <1>2, <2>1, <2>2
    DEF OnClose, Unsettled, Active, Wipe, byteVars, BeforeStart, WithinLimits,
        Accepted, SecretsAreWiped
  <2> QED
    BY <2>3, <2>4 DEF IInv
<1> QED
  BY <1>1, <1>2 DEF OnClose

\* Output arrives.
LEMMA OutputStep == ASSUME IInv, OnStdout \/ OnStderr PROVE IInv'
<1>1. CASE OnStdout
  <2>1. CASE settled = "no" /\ Reject("buffer_limit")
    BY <1>1, <2>1, RejectStep, LimitsAssumption DEF OnStdout, Unsettled, IInv, TypeOK, WithinLimits
  <2>2. CASE ~(settled = "no" /\ Reject("buffer_limit"))
    <3>1. TypeOK'
      BY <1>1, <2>2, LimitsAssumption DEF OnStdout, lifeVars, promiseVars, IInv, TypeOK, WithinLimits
    <3>2. LifeIsOrdered' /\ BeforeStart'
      BY <1>1, <2>2
      DEF OnStdout, Active, lifeVars, promiseVars, IInv, TypeOK, LifeIsOrdered, BeforeStart
    <3>3. WithinLimits' /\ SecretsAreWiped'
      BY <1>1, <2>2, LimitsAssumption
      DEF OnStdout, lifeVars, promiseVars, IInv, TypeOK, WithinLimits, SecretsAreWiped
    <3>4. Accepted'
      BY <1>1, <2>2
      DEF OnStdout, lifeVars, promiseVars, IInv, TypeOK, Accepted, TreeGone
    <3> QED
      BY <3>1, <3>2, <3>3, <3>4 DEF IInv
  <2> QED
    BY <2>1, <2>2
<1>2. CASE OnStderr
  <2>1. CASE settled = "no" /\ Reject("buffer_limit")
    BY <1>2, <2>1, RejectStep, LimitsAssumption DEF OnStderr, Unsettled, IInv, TypeOK, WithinLimits
  <2>2. CASE ~(settled = "no" /\ Reject("buffer_limit"))
    <3>1. TypeOK'
      BY <1>2, <2>2, LimitsAssumption DEF OnStderr, lifeVars, promiseVars, IInv, TypeOK, WithinLimits
    <3>2. LifeIsOrdered' /\ BeforeStart'
      BY <1>2, <2>2
      DEF OnStderr, Active, lifeVars, promiseVars, IInv, TypeOK, LifeIsOrdered, BeforeStart
    <3>3. WithinLimits' /\ SecretsAreWiped'
      BY <1>2, <2>2, LimitsAssumption
      DEF OnStderr, lifeVars, promiseVars, IInv, TypeOK, WithinLimits, SecretsAreWiped
    <3>4. Accepted'
      BY <1>2, <2>2
      DEF OnStderr, lifeVars, promiseVars, IInv, TypeOK, Accepted, TreeGone
    <3> QED
      BY <3>1, <3>2, <3>3, <3>4 DEF IInv
  <2> QED
    BY <2>1, <2>2
<1> QED
  BY <1>1, <1>2

\* The timeout, the abort signal, an input error, a spawn error, the force timer.
LEMMA EventStep ==
  ASSUME IInv, OnTimeout \/ OnAbort \/ OnStdinError \/ OnError \/ OnForce
  PROVE  IInv'
<1>1. CASE OnTimeout
  BY <1>1, RejectStep DEF OnTimeout, pipeVars, byteVars, IInv, TypeOK
<1>2. CASE OnStdinError
  BY <1>2, RejectStep DEF OnStdinError, pipeVars, byteVars, IInv, TypeOK
<1>3. CASE OnAbort
  <2>1. CASE Unsettled /\ Reject("aborted")
    BY <1>3, <2>1, RejectStep DEF OnAbort, pipeVars, byteVars, IInv, TypeOK
  <2>2. CASE ~(Unsettled /\ Reject("aborted"))
    <3>1. UNCHANGED <<lifeVars, promiseVars, stdin, chunks, timer, forceTimer, pipeVars,
                      byteVars, started, node>>
      BY <1>3, <2>2 DEF OnAbort
    <3> QED
      BY <3>1 DEF lifeVars, promiseVars, pipeVars, byteVars, IInv, TypeOK, BeforeStart,
                  WithinLimits, LifeIsOrdered, Accepted, SecretsAreWiped, TreeGone
  <2> QED
    BY <2>1, <2>2
<1>4. CASE OnError
  BY <1>4
  DEF OnError, Unsettled, Active, Wipe, treeVars, lifeVars, pipeVars, byteVars, IInv, TypeOK,
      BeforeStart, WithinLimits, LifeIsOrdered, Accepted, SecretsAreWiped
<1>5. CASE OnForce
  <2>1. /\ leader' \in {leader, "exited"} /\ descendant' \in {descendant, "gone"}
        /\ descendant' # descendant => descendant = "running"
        /\ leader' # leader => leader = "running" /\ code' \in {"nonzero", "signal"}
        /\ leader' = leader => code' = code
        /\ TreeGone => TreeGone'
    BY <1>5, Signals DEF OnForce, IInv
  <2>2. TypeOK'
    BY <1>5, <2>1 DEF OnForce, pipeVars, promiseVars, byteVars, IInv, TypeOK
  <2>3. LifeIsOrdered' /\ BeforeStart' /\ WithinLimits' /\ SecretsAreWiped'
    BY <1>5, <2>1
    DEF OnForce, Active, pipeVars, promiseVars, byteVars, IInv, TypeOK, LifeIsOrdered,
        BeforeStart, WithinLimits, SecretsAreWiped
  <2>4. Accepted'
    BY <1>5, <2>1
    DEF OnForce, pipeVars, promiseVars, byteVars, IInv, LifeIsOrdered, Accepted,
        TreeGone
  <2> QED
    BY <2>2, <2>3, <2>4 DEF IInv
<1> QED
  BY <1>1, <1>2, <1>3, <1>4, <1>5

\* run itself, and the end of the host.
LEMMA StartStep == ASSUME IInv, RunRefused \/ Run \/ NodeEnds PROVE IInv'
  BY DEF RunRefused, Run, NodeEnds, Active, Start, treeVars, lifeVars, traitVars, pipeVars,
         promiseVars, byteVars, IInv, TypeOK, BeforeStart, WithinLimits, LifeIsOrdered,
         Accepted, SecretsAreWiped, TreeGone

\* Every step preserves the invariant.
THEOREM StepInvariant == IInv /\ [Next]_vars => IInv'
<1> SUFFICES ASSUME IInv, [Next]_vars PROVE IInv'
  OBVIOUS
<1>1. CASE Next
  BY <1>1, StartStep, EventStep, OutputStep, CloseStep, CLIInvariant DEF Next, Handler
<1>2. CASE UNCHANGED vars
  BY <1>2
  DEF vars, treeVars, lifeVars, pipeVars, runVars, promiseVars, byteVars, IInv, TypeOK,
      BeforeStart, WithinLimits, LifeIsOrdered, Accepted, SecretsAreWiped, TreeGone
<1> QED
  BY <1>1, <1>2

\* The invariant holds in every reachable state.
THEOREM Invariant == Spec => []IInv
  BY InitInvariant, StepInvariant, PTL DEF Spec

\* The variables keep their types, and no more than one piece beyond a limit is read.
THEOREM TypeCorrect == Spec => []TypeOK
<1>1. IInv => TypeOK
  BY DEF IInv
<1> QED
  BY <1>1, Invariant, PTL

\* Neither the request nor the output stays in memory.
THEOREM NothingStays == Spec => []SecretsAreWiped
<1>1. IInv => SecretsAreWiped
  BY DEF IInv
<1> QED
  BY <1>1, Invariant, PTL

\* What the exchange sees of a signal: what runs may end by it.
LEMMA EndsBySignal ==
  ASSUME IInv, NEW force \in BOOLEAN, Terminate(force)
  PROVE  Exchange!MayEnd
  BY Terminations DEF IInv, TypeOK, LifeIsOrdered, TreeGone, Exchange!MayEnd, Exchange!Codes

\* Every rejection fails the exchange.
LEMMA RejectFails ==
  ASSUME IInv, Unsettled, NEW why \in Failures, Reject(why),
         \/ UNCHANGED <<outPipe, stdoutBytes>>
         \/ outPipe > 0 /\ outPipe' = outPipe - 1 /\ stdoutBytes' = stdoutBytes + 1
  PROVE  Exchange!Fail
<1>1. Exchange!MayEnd
  BY EndsBySignal DEF Reject
<1> QED
  BY <1>1 DEF Reject, Wipe, Unsettled, Outcome, Exchange!Fail

\* Every handler takes a step of the exchange, or none of its variables moves.
LEMMA HandlerRefines ==
  ASSUME IInv, Handler \/ OnAbort \/ OnStdinError
  PROVE  Exchange!Next \/ UNCHANGED Exchange!vars
<1>1. CASE RunRefused
  BY <1>1 DEF RunRefused, treeVars, lifeVars, pipeVars, byteVars, IInv, BeforeStart, Outcome,
              TreeGone, Exchange!Next, Exchange!Fail, Exchange!MayEnd
<1>2. CASE Run
  BY <1>2 DEF Run, Start, pipeVars, promiseVars, byteVars, IInv, BeforeStart, LifeIsOrdered,
              Outcome, TreeGone, Exchange!Next, Exchange!Begin, Exchange!vars
<1>3. CASE OnTimeout
  BY <1>3, RejectFails DEF OnTimeout, pipeVars, byteVars, Exchange!Next
<1>4. CASE OnStdinError
  BY <1>4, RejectFails DEF OnStdinError, pipeVars, byteVars, Exchange!Next
<1>5. CASE OnAbort
  <2>1. CASE Unsettled /\ Reject("aborted")
    BY <1>5, <2>1, RejectFails DEF OnAbort, pipeVars, byteVars, Exchange!Next
  <2>2. CASE UNCHANGED <<lifeVars, promiseVars, stdin, chunks, timer, forceTimer>>
    BY <1>5, <2>2 DEF OnAbort, lifeVars, pipeVars, promiseVars, byteVars, Outcome, TreeGone,
                      Exchange!vars
  <2> QED
    BY <1>5, <2>1, <2>2 DEF OnAbort
<1>6. CASE OnError
  BY <1>6 DEF OnError, Unsettled, Wipe, treeVars, lifeVars, pipeVars, byteVars, Outcome, TreeGone,
              Exchange!Next, Exchange!Fail, Exchange!MayEnd
<1>7. CASE OnStdout
  <2>1. CASE settled = "no" /\ Reject("buffer_limit")
    <3>1. Exchange!Fail
      BY <1>7, <2>1, RejectFails, LimitsAssumption
      DEF OnStdout, Unsettled, IInv, WithinLimits, TypeOK
    <3> QED
      BY <3>1 DEF Exchange!Next
  <2>2. CASE ~(settled = "no" /\ Reject("buffer_limit"))
    <3>1. Exchange!Read
      BY <1>7, <2>2 DEF OnStdout, lifeVars, promiseVars, Outcome, TreeGone, IInv, TypeOK,
                        Accepted, Exchange!Read
    <3> QED
      BY <3>1 DEF Exchange!Next
  <2> QED
    BY <2>1, <2>2
<1>8. CASE OnStderr
  <2>1. CASE settled = "no" /\ Reject("buffer_limit")
    BY <1>8, <2>1, RejectFails DEF OnStderr, Unsettled, Exchange!Next
  <2>2. CASE ~(settled = "no" /\ Reject("buffer_limit"))
    BY <1>8, <2>2 DEF OnStderr, lifeVars, promiseVars, Outcome, TreeGone, Exchange!vars
  <2> QED
    BY <2>1, <2>2
<1>9. CASE OnClose
  <2>1. CASE Reject("exit") \/ Reject("encoding")
    BY <1>9, <2>1, RejectFails DEF OnClose, pipeVars, byteVars, Exchange!Next
  <2>2. CASE code = "zero" /\ Terminate(TRUE) /\ settled' = "resolved" /\ Wipe /\ UNCHANGED reason
    <3>1. leader = "exited" /\ code' = code /\ TreeGone' /\ outPipe = 0
      BY <1>9, <2>2, Terminations DEF OnClose, Closed, IInv
    <3> QED
      BY <1>9, <2>2, <3>1
      DEF OnClose, Unsettled, Wipe, pipeVars, byteVars, IInv, WithinLimits, Outcome,
          Exchange!Next, Exchange!Accept
  <2> QED
    BY <1>9, <2>1, <2>2 DEF OnClose
<1>10. CASE OnForce
  <2>1. Exchange!MayEnd /\ (TreeGone => UNCHANGED lifeVars)
    <3>1. SignalGroup("SIGKILL")
      BY <1>10 DEF OnForce
    <3>2. TreeGone => UNCHANGED lifeVars
      BY <3>1 DEF SignalGroup, TreeGone, lifeVars
    <3>3. Exchange!MayEnd
      BY <3>1, Signals DEF IInv, TypeOK, LifeIsOrdered, TreeGone, Exchange!MayEnd, Exchange!Codes
    <3> QED
      BY <3>2, <3>3
  <2>2. UNCHANGED <<Outcome, stdin, outPipe, stdoutBytes, settled>>
    BY <1>10 DEF OnForce, pipeVars, promiseVars, byteVars, Outcome
  <2>3. CASE TreeGone
    BY <2>1, <2>2, <2>3 DEF lifeVars, TreeGone, Exchange!vars
  <2>4. CASE ~TreeGone
    BY <2>1, <2>2, <2>4 DEF IInv, TypeOK, Exchange!Evolve, Exchange!Next
  <2> QED
    BY <2>3, <2>4
<1> QED
  BY <1>1, <1>2, <1>3, <1>4, <1>5, <1>6, <1>7, <1>8, <1>9, <1>10 DEF Handler

\* The CLI goes on, or the host ends.
LEMMA RestRefines ==
  ASSUME IInv, CLIStep \/ NodeEnds
  PROVE  Exchange!Next \/ UNCHANGED Exchange!vars
<1>1. CASE CLIStep
  <2>1. UNCHANGED <<Outcome, stdin, stdoutBytes, settled>>
    BY <1>1 DEF CLIStep, runVars, promiseVars, byteVars, Outcome
  <2>2. /\ ~TreeGone /\ Exchange!MayEnd
        /\ outPipe' \in Nat /\ outPipe' >= outPipe
    <3>1. ~TreeGone
      BY <1>1 DEF CLIStep, TreeStep, Fork, Write, LeaderExits, DescendantExits, TreeGone
    <3>2. outPipe' \in Nat /\ outPipe' >= outPipe
      BY <1>1 DEF CLIStep, TreeStep, Fork, Write, LeaderExits, DescendantExits, pipeVars, IInv,
                  TypeOK
    <3>3. code' = code \/ (code = "none" /\ code' \in Exchange!Codes)
      BY <1>1 DEF CLIStep, TreeStep, Fork, Write, LeaderExits, DescendantExits, lifeVars, IInv,
                  TypeOK, LifeIsOrdered, Exchange!Codes
    <3>4. (~TreeGone)' \in {~TreeGone, FALSE}
      BY <3>1 DEF TreeGone
    <3> QED
      BY <3>1, <3>2, <3>3, <3>4 DEF Exchange!MayEnd
  <2> QED
    BY <2>1, <2>2 DEF Exchange!Evolve, Exchange!Next
<1>2. CASE NodeEnds
  BY <1>2 DEF NodeEnds, treeVars, lifeVars, pipeVars, promiseVars, byteVars, Outcome, TreeGone,
              Exchange!vars
<1> QED
  BY <1>1, <1>2

\* run keeps the promise of ProcessExchange: a single outcome, and a response
\* only when it is the whole output of a CLI that exited with 0 and left nothing
\* running.
THEOREM Implements == Spec => ImplementsExchange
<1>1. Init => Exchange!Init
  BY DEF Init, TreeInit, TreeGone, Outcome, Exchange!Init
<1>2. IInv /\ [Next]_vars => [Exchange!Next]_Exchange!vars
  <2> SUFFICES ASSUME IInv, [Next]_vars PROVE Exchange!Next \/ UNCHANGED Exchange!vars
    OBVIOUS
  <2>1. CASE Next
    BY <2>1, HandlerRefines, RestRefines DEF Next
  <2>2. CASE UNCHANGED vars
    BY <2>2 DEF vars, treeVars, lifeVars, pipeVars, runVars, promiseVars, byteVars, Outcome,
                TreeGone, Exchange!vars
  <2> QED
    BY <2>1, <2>2
<1> QED
  BY <1>1, <1>2, Invariant, PTL DEF Spec, ImplementsExchange, Exchange!Spec
=============================================================================
