-------------------------- MODULE SyncRunnerProofs --------------------------
(***************************************************************************)
(* The safety properties of SyncRunner for any limits and any amount of    *)
(* output.                                                                 *)
(***************************************************************************)
EXTENDS SyncRunner, TLAPS

USE DEF Failures

\* The leader is the one that forks, and it has an exit code when it has exited.
LifeIsOrdered ==
  /\ leader \in {"none", "unstarted"} => descendant = "none" /\ outPipe = 0
  /\ code # "none" => leader = "exited"

\* What is true of the exchange at each stage of the helper.
BeforeSpawn ==
  helper \in {"none", "started"} =>
    leader = "none" /\ failure = "none" /\ chunks = 0 /\ stdoutBytes = 0 /\ ~reported

WhileWatching ==
  /\ Watching /\ failure = "none" => chunks = stdoutBytes /\ stdoutBytes <= MaxStdout
  /\ failure # "none" => chunks = 0

AfterFinish ==
  /\ helper \in {"none", "started", "running"} => status = "none"
  /\ helper \in {"finished", "exited"} => status # "none" /\ leader # "running"
  /\ helper = "exited" => chunks = 0

Caller ==
  /\ result # "none" => helper \in {"none", "exited", "killed"} /\ stdin = "wiped" /\ chunks = 0
  /\ result = "response" => helper = "exited" /\ status = "zero"
  /\ helper = "killed" => result = "timeout"

\* Once the helper has accepted the output, nothing can change it.
Accepted ==
  status = "zero" =>
    /\ code = "zero" /\ failure = "none" /\ TreeGone /\ outPipe = 0
    /\ sent = stdoutBytes /\ sent <= MaxStdout
    /\ helper \in {"finished", "exited", "killed"}

Stages == BeforeSpawn /\ WhileWatching /\ AfterFinish /\ Caller /\ CLIHasEnded

IInv == TypeOK /\ LifeIsOrdered /\ Stages /\ Accepted

\* A SIGKILL leaves nothing of the group; no signal brings anything back.
LEMMA Signals ==
  ASSUME TypeOK, LifeIsOrdered, NEW force \in BOOLEAN, KillTree(force)
  PROVE  /\ leader' \in {leader, "exited"} /\ descendant' \in {descendant, "gone"}
         /\ descendant' # descendant => descendant = "running"
         /\ leader' # leader => leader = "running" /\ code' \in {"nonzero", "signal"}
         /\ leader' = leader => code' = code
         /\ force \/ TreeGone => TreeGone'
  BY DEF KillTree, SignalGroup, Obeys, TypeOK, LifeIsOrdered, TreeGone, lifeVars

\* The invariant holds before runSync is called.
THEOREM InitInvariant == Init => IInv
<1> SUFFICES ASSUME Init PROVE IInv
  OBVIOUS
<1>0. /\ leader = "none" /\ code = "none" /\ descendant = "none" /\ outPipe = 0 /\ errPipe = 0
      /\ result = "none" /\ stdin = "secret" /\ helper = "none" /\ status = "none"
      /\ reported = FALSE /\ failure = "none" /\ forceTimer = "off"
      /\ chunks = 0 /\ sent = 0 /\ stdoutBytes = 0 /\ stderrBytes = 0
  BY DEF Init, TreeInit
<1>1. TypeOK
  <2>1. stdoutBytes \in 0 .. MaxStdout + 1
    BY <1>0, LimitsAssumption
  <2>2. reported \in BOOLEAN
    BY <1>0
  <2> QED
    BY <1>0, <2>1, <2>2 DEF TypeOK
<1>2. LifeIsOrdered /\ Accepted
  BY <1>0 DEF LifeIsOrdered, Accepted
<1>3. Stages
  BY <1>0, LimitsAssumption
  DEF Stages, BeforeSpawn, WhileWatching, Watching, AfterFinish, Caller, CLIHasEnded
<1> QED
  BY <1>1, <1>2, <1>3 DEF IInv

\* The first failure, whatever it is, leaves the invariant true.
LEMMA FailStep ==
  ASSUME IInv, Handling, failure = "none",
         NEW why \in {"timeout", "transport", "stdout", "stderr"}, Fail(why),
         UNCHANGED <<callerVars, helper, status, reported, sent>>,
         outPipe' \in 0 .. outPipe, errPipe' \in 0 .. errPipe,
         stdoutBytes' \in 0 .. MaxStdout + 1, stderrBytes' \in Nat
  PROVE  IInv'
<1>1. failure' = why /\ chunks' = 0 /\ forceTimer' = "armed" /\ failure' # "none"
  BY DEF Fail
<1>2. /\ leader' \in {leader, "exited"} /\ descendant' \in {descendant, "gone"}
      /\ descendant' # descendant => descendant = "running"
      /\ leader' # leader => leader = "running" /\ code' \in {"nonzero", "signal"}
      /\ leader' = leader => code' = code
  BY Signals DEF Fail, IInv
<1>3. TypeOK'
  BY <1>1, <1>2 DEF callerVars, IInv, TypeOK
<1>4. LifeIsOrdered'
  BY <1>2 DEF IInv, TypeOK, LifeIsOrdered
<1>5. Stages' /\ Accepted'
  BY <1>1
  DEF callerVars, Handling, Watching, IInv, TypeOK, Stages, BeforeSpawn, WhileWatching,
      AfterFinish, Caller, CLIHasEnded, Accepted
<1> QED
  BY <1>3, <1>4, <1>5 DEF IInv

\* The CLI goes on by itself: an accepted output stays final, as nothing that
\* could write or fork is left.
LEMMA CLIInvariant == ASSUME IInv, CLIStep PROVE IInv'
<1> USE DEF CLIStep, callerVars, helperVars, byteVars
<1>1. TypeOK'
  BY DEF TreeStep, Fork, Write, LeaderExits, DescendantExits, lifeVars, pipeVars, IInv, TypeOK
<1>2. LifeIsOrdered'
  BY DEF TreeStep, Fork, Write, LeaderExits, DescendantExits, lifeVars, pipeVars, IInv, TypeOK,
         LifeIsOrdered
<1>3. Stages'
  BY DEF TreeStep, Fork, Write, LeaderExits, DescendantExits, lifeVars, pipeVars, IInv, Stages,
         BeforeSpawn, WhileWatching, Watching, AfterFinish, Caller, CLIHasEnded
<1>4. Accepted'
  BY DEF TreeStep, Fork, Write, LeaderExits, DescendantExits, lifeVars, pipeVars, IInv, TypeOK,
         Accepted, TreeGone
<1> QED
  BY <1>1, <1>2, <1>3, <1>4 DEF IInv

\* The caller starts the helper, or refuses; the helper starts the CLI and
\* reports it.
LEMMA StartStep ==
  ASSUME IInv, RunSyncRefused \/ RunSync \/ HelperSpawns \/ HelperReports
  PROVE  IInv'
<1> USE DEF callerVars, helperVars, byteVars, treeVars, lifeVars, pipeVars
<1>1. TypeOK'
  BY DEF RunSyncRefused, RunSync, HelperSpawns, HelperReports, Start, IInv, TypeOK
<1>2. LifeIsOrdered'
  BY DEF RunSyncRefused, RunSync, HelperSpawns, HelperReports, Start, IInv, LifeIsOrdered,
         Stages, BeforeSpawn
<1>3. Stages'
  BY LimitsAssumption
  DEF RunSyncRefused, RunSync, HelperSpawns, HelperReports, Start, IInv, TypeOK, Stages,
      BeforeSpawn, WhileWatching, Watching, AfterFinish, Caller, CLIHasEnded
<1>4. Accepted'
  BY DEF RunSyncRefused, RunSync, HelperSpawns, HelperReports, Start, IInv, Stages, Watching,
         AfterFinish, Accepted, TreeGone
<1> QED
  BY <1>1, <1>2, <1>3, <1>4 DEF IInv

\* Output arrives.
LEMMA OutputStep == ASSUME IInv, OnStdout \/ OnStderr PROVE IInv'
<1>1. CASE OnStdout
  <2>1. CASE failure = "none" /\ Fail("stdout")
    BY <1>1, <2>1, FailStep, LimitsAssumption
    DEF OnStdout, Handling, Watching, IInv, TypeOK, Stages, WhileWatching
  <2>2. CASE ~(failure = "none" /\ Fail("stdout"))
    <3>1. TypeOK' /\ LifeIsOrdered'
      BY <1>1, <2>2, LimitsAssumption
      DEF OnStdout, callerVars, lifeVars, IInv, TypeOK, LifeIsOrdered
    <3>2. Stages' /\ Accepted'
      BY <1>1, <2>2, LimitsAssumption
      DEF OnStdout, Handling, callerVars, lifeVars, IInv, TypeOK, Stages, BeforeSpawn,
          WhileWatching, Watching, AfterFinish, Caller, CLIHasEnded, Accepted
    <3> QED
      BY <3>1, <3>2 DEF IInv
  <2> QED
    BY <2>1, <2>2
<1>2. CASE OnStderr
  <2>1. CASE failure = "none" /\ Fail("stderr")
    BY <1>2, <2>1, FailStep DEF OnStderr, IInv, TypeOK
  <2>2. CASE ~(failure = "none" /\ Fail("stderr"))
    <3>1. TypeOK' /\ LifeIsOrdered'
      BY <1>2, <2>2 DEF OnStderr, callerVars, lifeVars, IInv, TypeOK, LifeIsOrdered
    <3>2. Stages' /\ Accepted'
      BY <1>2, <2>2
      DEF OnStderr, Handling, callerVars, lifeVars, IInv, TypeOK, Stages, BeforeSpawn,
          WhileWatching, Watching, AfterFinish, Caller, CLIHasEnded, Accepted
    <3> QED
      BY <3>1, <3>2 DEF IInv
  <2> QED
    BY <2>1, <2>2
<1> QED
  BY <1>1, <1>2

\* Timers, errors, and the three ways in which the tree is killed at the end.
LEMMA EndStep ==
  ASSUME IInv, OnTimeout \/ OnTransportError \/ OnForce \/ Finish \/ HelperExits \/ GuardExpires
  PROVE  IInv'
<1> USE DEF callerVars, pipeVars, byteVars, lifeVars
<1>1. CASE OnTimeout
  BY <1>1, FailStep DEF OnTimeout, IInv, TypeOK
<1>2. CASE OnTransportError
  BY <1>2, FailStep DEF OnTransportError, IInv, TypeOK
<1>3. ASSUME ~OnTimeout, ~OnTransportError
      PROVE  /\ leader' \in {leader, "exited"} /\ descendant' \in {descendant, "gone"}
             /\ descendant' # descendant => descendant = "running"
             /\ leader' # leader => leader = "running" /\ code' \in {"nonzero", "signal"}
             /\ leader' = leader => code' = code
             /\ TreeGone => TreeGone'
             /\ Finish /\ status' = "zero" => TreeGone'
             /\ GuardExpires /\ reported => TreeGone'
  <2>1. \/ KillTree(TRUE)
        \/ UNCHANGED lifeVars /\ ~(Finish /\ status' = "zero") /\ ~(GuardExpires /\ reported)
    <3>1. failure \in {"none", "timeout", "transport", "stdout", "stderr"}
      BY DEF IInv, TypeOK
    <3> QED
      BY <1>3, <3>1 DEF OnForce, Finish, HelperExits, GuardExpires, Handling, Watching
  <2> QED
    BY <2>1, Signals DEF IInv, TreeGone
<1>4. CASE OnForce /\ ~OnTimeout /\ ~OnTransportError
  <2>1. TypeOK' /\ LifeIsOrdered'
    BY <1>3, <1>4 DEF OnForce, IInv, TypeOK, LifeIsOrdered
  <2>2. Stages' /\ Accepted'
    BY <1>3, <1>4
    DEF OnForce, Handling, IInv, TypeOK, Stages, BeforeSpawn, WhileWatching, Watching,
        AfterFinish, Caller, CLIHasEnded, Accepted
  <2> QED
    BY <2>1, <2>2 DEF IInv
<1>5. CASE Finish /\ ~OnTimeout /\ ~OnTransportError
  <2>0. /\ status' \in {"zero", "child_exit", "timeout", "transport", "stdout", "stderr"}
        /\ chunks' \in {0, chunks} /\ sent' \in {chunks, sent}
    BY <1>5 DEF Finish, IInv, TypeOK
  <2>1. TypeOK' /\ LifeIsOrdered'
    BY <1>3, <1>5, <2>0 DEF Finish, IInv, TypeOK, LifeIsOrdered
  <2>2. Stages'
    BY <1>3, <1>5, <2>0
    DEF Finish, Handling, ChildClosed, Closed, IInv, TypeOK, Stages, BeforeSpawn, WhileWatching,
        Watching, AfterFinish, Caller, CLIHasEnded
  <2>3. Accepted'
    BY <1>3, <1>5
    DEF Finish, Handling, ChildClosed, Closed, IInv, TypeOK, LifeIsOrdered, Stages,
        WhileWatching, Watching, Accepted
  <2> QED
    BY <2>1, <2>2, <2>3 DEF IInv
<1>6. CASE HelperExits /\ ~OnTimeout /\ ~OnTransportError
  <2>1. TypeOK' /\ LifeIsOrdered'
    BY <1>3, <1>6 DEF HelperExits, IInv, TypeOK, LifeIsOrdered
  <2>2. Stages' /\ Accepted'
    BY <1>3, <1>6
    DEF HelperExits, IInv, TypeOK, LifeIsOrdered, Stages, BeforeSpawn, WhileWatching, Watching,
        AfterFinish, Caller, CLIHasEnded, Accepted, TreeGone
  <2> QED
    BY <2>1, <2>2 DEF IInv
<1>7. CASE GuardExpires /\ ~OnTimeout /\ ~OnTransportError
  <2>1. TypeOK' /\ LifeIsOrdered'
    BY <1>3, <1>7 DEF GuardExpires, IInv, TypeOK, LifeIsOrdered
  <2>2. Stages' /\ Accepted'
    BY <1>3, <1>7
    DEF GuardExpires, IInv, TypeOK, LifeIsOrdered, Stages, BeforeSpawn, WhileWatching, Watching,
        AfterFinish, Caller, CLIHasEnded, Accepted, TreeGone
  <2> QED
    BY <2>1, <2>2 DEF IInv
<1> QED
  BY <1>1, <1>2, <1>4, <1>5, <1>6, <1>7

\* The caller takes the result.
LEMMA ReturnStep == ASSUME IInv, RunSyncReturns PROVE IInv'
<1>1. /\ result' \in {"response", "timeout", "buffer_limit", "spawn", "exit", "encoding"}
      /\ result' = "response" => status = "zero"
  BY DEF RunSyncReturns, Outcome, IInv, TypeOK, Stages, AfterFinish
<1>2. TypeOK' /\ LifeIsOrdered'
  BY <1>1 DEF RunSyncReturns, treeVars, lifeVars, pipeVars, helperVars, byteVars, IInv, TypeOK,
              LifeIsOrdered
<1>3. Stages' /\ Accepted'
  BY <1>1
  DEF RunSyncReturns, treeVars, lifeVars, pipeVars, helperVars, byteVars, IInv, Stages,
      BeforeSpawn, WhileWatching, Watching, AfterFinish, Caller, CLIHasEnded, Accepted, TreeGone
<1> QED
  BY <1>2, <1>3 DEF IInv

\* Every step preserves the invariant.
THEOREM StepInvariant == IInv /\ [Next]_vars => IInv'
<1> SUFFICES ASSUME IInv, [Next]_vars PROVE IInv'
  OBVIOUS
<1>1. CASE Next
  BY <1>1, StartStep, OutputStep, EndStep, ReturnStep, CLIInvariant DEF Next, Helper
<1>2. CASE UNCHANGED vars
  BY <1>2
  DEF vars, treeVars, lifeVars, pipeVars, callerVars, helperVars, byteVars, IInv, TypeOK,
      LifeIsOrdered, Stages, BeforeSpawn, WhileWatching, Watching, AfterFinish, Caller,
      CLIHasEnded, Accepted, TreeGone
<1> QED
  BY <1>1, <1>2

\* The invariant holds in every reachable state.
THEOREM Invariant == Spec => []IInv
  BY InitInvariant, StepInvariant, PTL DEF Spec

\* No secret stays in memory once the exchange has failed or returned.
THEOREM NothingStays == Spec => []SyncSecretsAreWiped
<1>1. IInv => SyncSecretsAreWiped
  BY DEF IInv, Stages, WhileWatching, Caller, SyncSecretsAreWiped
<1> QED
  BY <1>1, Invariant, PTL

\* The CLI process has ended when runSync returns.
THEOREM CLIEnds == Spec => []CLIHasEnded
<1>1. IInv => CLIHasEnded
  BY DEF IInv, Stages
<1> QED
  BY <1>1, Invariant, PTL

\* What the exchange sees of a signal: what runs may end by it.
LEMMA EndsBySignal ==
  ASSUME IInv, KillTree(TRUE) \/ KillTree(FALSE) \/ UNCHANGED lifeVars
  PROVE  Exchange!MayEnd /\ (TreeGone => TreeGone')
<1>1. CASE UNCHANGED lifeVars
  BY <1>1 DEF lifeVars, TreeGone, Exchange!MayEnd
<1>2. CASE KillTree(TRUE) \/ KillTree(FALSE)
  BY <1>2, Signals DEF IInv, TypeOK, LifeIsOrdered, TreeGone, Exchange!MayEnd, Exchange!Codes
<1> QED
  BY <1>1, <1>2

\* A failure that the helper notes dooms the exchange, and the caller hears of it
\* later.
LEMMA FailRefines ==
  ASSUME IInv, Handling, failure = "none", NEW why \in {"timeout", "transport", "stdout", "stderr"},
         Fail(why), UNCHANGED <<callerVars, status, sent>>,
         \/ UNCHANGED <<outPipe, stdoutBytes>>
         \/ outPipe > 0 /\ outPipe' = outPipe - 1 /\ stdoutBytes' = stdoutBytes + 1
  PROVE  Exchange!Fail
<1>1. Exchange!MayEnd
  BY EndsBySignal DEF Fail
<1>2. result = "none" /\ status = "none"
  BY DEF Handling, Watching, IInv, Stages, AfterFinish, Caller, TypeOK
<1>3. failure' # "none"
  BY DEF Fail
<1> QED
  BY <1>1, <1>2, <1>3 DEF callerVars, Exchange!Fail

\* The tree is signalled, and nothing else that the exchange sees changes.
LEMMA SignalRefines ==
  ASSUME IInv, KillTree(TRUE) \/ KillTree(FALSE) \/ UNCHANGED lifeVars,
         UNCHANGED <<callerVars, failure, pipeVars>>,
         UNCHANGED (IF status = "zero" THEN sent ELSE stdoutBytes)
  PROVE  Exchange!Next \/ UNCHANGED Exchange!vars
<1>1. Exchange!MayEnd
  BY EndsBySignal
<1>2. TreeGone => UNCHANGED lifeVars
  BY DEF KillTree, SignalGroup, TreeGone, lifeVars
<1>3. outPipe \in Nat
  BY DEF IInv, TypeOK
<1>4. CASE TreeGone
  BY <1>2, <1>4 DEF callerVars, pipeVars, lifeVars, TreeGone, Exchange!vars
<1>5. CASE ~TreeGone
  BY <1>1, <1>3, <1>5 DEF callerVars, pipeVars, Exchange!Evolve, Exchange!Next
<1> QED
  BY <1>4, <1>5

\* The helper handles the events of the CLI.
LEMMA HandlerRefines ==
  ASSUME IInv, OnTimeout \/ OnTransportError \/ OnStdout \/ OnStderr \/ OnForce
  PROVE  Exchange!Next \/ UNCHANGED Exchange!vars
<1>1. CASE OnTimeout
  BY <1>1, FailRefines DEF OnTimeout, pipeVars, byteVars, Exchange!Next
<1>2. CASE OnTransportError
  BY <1>2, FailRefines DEF OnTransportError, pipeVars, byteVars, Exchange!Next
<1>3. CASE OnStdout
  <2>1. CASE failure = "none" /\ Fail("stdout")
    BY <1>3, <2>1, FailRefines DEF OnStdout, callerVars, Exchange!Next,
       IInv, TypeOK, Stages, WhileWatching, Handling
  <2>2. CASE ~(failure = "none" /\ Fail("stdout"))
    <3>1. result = "none" /\ status = "none" /\ outPipe \in Nat
      BY <1>3 DEF OnStdout, Handling, Watching, IInv, Stages, AfterFinish, Caller, TypeOK
    <3>2. Exchange!Read
      BY <1>3, <2>2, <3>1 DEF OnStdout, callerVars, lifeVars, TreeGone, Exchange!Read
    <3> QED
      BY <3>2 DEF Exchange!Next
  <2> QED
    BY <2>1, <2>2
<1>4. CASE OnStderr
  <2>1. CASE failure = "none" /\ Fail("stderr")
    BY <1>4, <2>1, FailRefines DEF OnStderr, callerVars, Exchange!Next
  <2>2. CASE ~(failure = "none" /\ Fail("stderr"))
    BY <1>4, <2>2 DEF OnStderr, callerVars, lifeVars, TreeGone, Exchange!vars
  <2> QED
    BY <2>1, <2>2
<1>5. CASE OnForce
  BY <1>5, SignalRefines DEF OnForce, byteVars
<1> QED
  BY <1>1, <1>2, <1>3, <1>4, <1>5

\* The helper ends: the output it passes on is what the CLI has written.
LEMMA EndRefines ==
  ASSUME IInv, Finish \/ HelperExits \/ GuardExpires
  PROVE  Exchange!Next \/ UNCHANGED Exchange!vars
<1>1. CASE Finish
  <2>1. status = "none" /\ (failure = "none" => chunks = stdoutBytes)
    BY <1>1 DEF Finish, Handling, Watching, IInv, Stages, WhileWatching, AfterFinish
  <2>2. status' = "zero" => sent' = stdoutBytes
    BY <1>1, <2>1 DEF Finish, IInv, TypeOK
  <2>3. UNCHANGED (IF status = "zero" THEN sent ELSE stdoutBytes)
    BY <1>1, <2>1, <2>2 DEF Finish, byteVars
  <2> QED
    BY <1>1, <2>3, SignalRefines DEF Finish
<1>2. CASE HelperExits
  BY <1>2, SignalRefines DEF HelperExits, byteVars
<1>3. CASE GuardExpires
  <2>1. Exchange!MayEnd
    BY <1>3, EndsBySignal DEF GuardExpires
  <2>2. result = "none"
    BY <1>3 DEF GuardExpires, IInv, Stages, Caller
  <2> QED
    BY <1>3, <2>1, <2>2 DEF GuardExpires, pipeVars, byteVars, Exchange!Fail, Exchange!Next
<1> QED
  BY <1>1, <1>2, <1>3

\* The caller starts the helper, or takes its result.
LEMMA CallerRefines ==
  ASSUME IInv, RunSyncRefused \/ RunSync \/ HelperSpawns \/ HelperReports \/ RunSyncReturns
  PROVE  Exchange!Next \/ UNCHANGED Exchange!vars
<1>1. CASE RunSyncRefused
  BY <1>1 DEF RunSyncRefused, treeVars, lifeVars, pipeVars, helperVars, byteVars, TreeGone,
              Exchange!MayEnd, Exchange!Fail, Exchange!Next
<1>2. CASE RunSync
  BY <1>2 DEF RunSync, treeVars, lifeVars, pipeVars, callerVars, byteVars, TreeGone, Exchange!vars
<1>3. CASE HelperSpawns
  <2>1. CASE Start /\ UNCHANGED status
    BY <1>3, <2>1 DEF HelperSpawns, Start, pipeVars, callerVars, byteVars, IInv, LifeIsOrdered,
                      Stages, BeforeSpawn, Caller, TreeGone, Exchange!Begin, Exchange!Next,
                      Exchange!vars
  <2>2. CASE status' = "transport" /\ UNCHANGED treeVars
    BY <1>3, <2>2 DEF HelperSpawns, treeVars, lifeVars, pipeVars, callerVars, byteVars, IInv,
                      Stages, AfterFinish, TreeGone, Exchange!vars
  <2> QED
    BY <1>3, <2>1, <2>2 DEF HelperSpawns
<1>4. CASE HelperReports
  BY <1>4 DEF HelperReports, treeVars, lifeVars, pipeVars, callerVars, byteVars, TreeGone,
              Exchange!vars
<1>5. CASE RunSyncReturns
  <2>1. UNCHANGED <<lifeVars, outPipe, status, failure, sent, stdoutBytes>> /\ stdin' = "wiped"
    BY <1>5 DEF RunSyncReturns, treeVars, pipeVars, helperVars, byteVars
  <2>2. CASE result' = "response"
    <3>1. status = "zero"
      BY <1>5, <2>2 DEF RunSyncReturns, Outcome, IInv, TypeOK, Stages, AfterFinish
    <3>2. Exchange!Accept
      BY <1>5, <2>1, <2>2, <3>1
      DEF RunSyncReturns, lifeVars, IInv, TypeOK, Accepted, TreeGone, Exchange!Accept
    <3> QED
      BY <3>2 DEF Exchange!Next
  <2>3. CASE result' # "response"
    <3>1. result' \in Failures
      BY <1>5, <2>3 DEF RunSyncReturns, Outcome, IInv, TypeOK, Stages, AfterFinish
    <3>2. Exchange!Fail
      BY <1>5, <2>1, <3>1 DEF RunSyncReturns, lifeVars, TreeGone, Exchange!MayEnd, Exchange!Fail
    <3> QED
      BY <3>2 DEF Exchange!Next
  <2> QED
    BY <2>2, <2>3
<1> QED
  BY <1>1, <1>2, <1>3, <1>4, <1>5

\* The CLI goes on by itself.
LEMMA CLIRefines == ASSUME IInv, CLIStep PROVE Exchange!Evolve
<1>1. ~TreeGone
  BY DEF CLIStep, TreeStep, Fork, Write, LeaderExits, DescendantExits, TreeGone
<1>2. outPipe' \in Nat /\ outPipe' >= outPipe
  BY DEF CLIStep, TreeStep, Fork, Write, LeaderExits, DescendantExits, pipeVars, IInv, TypeOK
<1>3. code' = code \/ (code = "none" /\ code' \in Exchange!Codes)
  BY DEF CLIStep, TreeStep, Fork, Write, LeaderExits, DescendantExits, lifeVars, IInv, TypeOK,
         LifeIsOrdered, Exchange!Codes
<1>4. (~TreeGone)' \in {~TreeGone, FALSE}
  BY <1>1 DEF TreeGone
<1>5. Exchange!MayEnd
  BY <1>1, <1>3, <1>4 DEF Exchange!MayEnd
<1> QED
  BY <1>1, <1>2, <1>5 DEF CLIStep, callerVars, helperVars, byteVars, Exchange!Evolve

\* runSync keeps the promise of ProcessExchange, as run does: no failure and no
\* piece of output gets lost between the CLI, the helper and the caller.
THEOREM Implements == Spec => SyncImplementsExchange
<1>1. Init => Exchange!Init
  BY DEF Init, TreeInit, TreeGone, Exchange!Init
<1>2. IInv /\ [Next]_vars => [Exchange!Next]_Exchange!vars
  <2> SUFFICES ASSUME IInv, [Next]_vars PROVE Exchange!Next \/ UNCHANGED Exchange!vars
    OBVIOUS
  <2>1. CASE Next
    BY <2>1, HandlerRefines, EndRefines, CallerRefines, CLIRefines DEF Next, Helper, Exchange!Next
  <2>2. CASE UNCHANGED vars
    BY <2>2 DEF vars, treeVars, lifeVars, pipeVars, callerVars, helperVars, byteVars, TreeGone,
                Exchange!vars
  <2> QED
    BY <2>1, <2>2
<1> QED
  BY <1>1, <1>2, Invariant, PTL DEF Spec, SyncImplementsExchange, Exchange!Spec
=============================================================================
