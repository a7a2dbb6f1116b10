---------------------------- MODULE ProcessTree ----------------------------
(***************************************************************************)
(* The CLI as the process runner sees it: a process that leads a process   *)
(* group, and a descendant it may leave behind in that group.  The program *)
(* behind it is not part of the repository; this is what src/executors/    *)
(* process.ts has to be ready for, on a POSIX system.                      *)
(***************************************************************************)
EXTENDS Naturals

CONSTANT MaxChunks  \* bound: pieces of output the CLI writes

ASSUME ChunksAssumption == MaxChunks \in Nat

VARIABLES
  leader,      \* "none", "unstarted" (spawn fails), "running", "exited"
  code,        \* "none", "zero", "nonzero"; "signal" when a signal killed it
  descendant,  \* "none", "running", "gone"
  onTerm,      \* how leader and descendant take SIGTERM
  holdsPipes,  \* the descendant inherited stdout and stderr
  outPipe,     \* pieces of standard output written, not read yet
  errPipe,     \* pieces of standard error
  written      \* towards MaxChunks

lifeVars == <<leader, code, descendant>>
traitVars == <<onTerm, holdsPipes>>
pipeVars == <<outPipe, errPipe, written>>
treeVars == <<lifeVars, traitVars, pipeVars>>

TreeInit ==
  /\ leader = "none" /\ code = "none" /\ descendant = "none"
  /\ onTerm \in [leader : {"dies", "exits", "ignores"}, descendant : {"dies", "ignores"}]
  /\ holdsPipes \in BOOLEAN
  /\ outPipe = 0 /\ errPipe = 0 /\ written = 0

\* spawn, or the error event that follows it.
Start ==
  /\ leader' \in {"running", "unstarted"}
  /\ UNCHANGED <<code, descendant, traitVars, pipeVars>>

Fork ==
  /\ leader = "running" /\ descendant = "none"
  /\ descendant' = "running"
  /\ UNCHANGED <<leader, code, traitVars, pipeVars>>

\* Somebody who holds the pipes writes to one of them.
Write ==
  /\ leader = "running" \/ (descendant = "running" /\ holdsPipes)
  /\ written < MaxChunks
  /\ written' = written + 1
  /\ \/ outPipe' = outPipe + 1 /\ UNCHANGED errPipe
     \/ errPipe' = errPipe + 1 /\ UNCHANGED outPipe
  /\ UNCHANGED <<lifeVars, traitVars>>

LeaderExits ==
  /\ leader = "running"
  /\ leader' = "exited"
  /\ code' \in {"zero", "nonzero", "signal"}
  /\ UNCHANGED <<descendant, traitVars, pipeVars>>

DescendantExits ==
  /\ descendant = "running"
  /\ descendant' = "gone"
  /\ UNCHANGED <<leader, code, traitVars, pipeVars>>

TreeStep == Fork \/ Write \/ LeaderExits \/ DescendantExits

\* process.kill(-pid, signal): every member of the group gets it.
Obeys(signal, attitude) == signal = "SIGKILL" \/ attitude # "ignores"

SignalGroup(signal) ==
  /\ \/ /\ leader = "running" /\ Obeys(signal, onTerm.leader)
        /\ leader' = "exited"
        /\ code' = IF signal = "SIGTERM" /\ onTerm.leader = "exits" THEN "nonzero" ELSE "signal"
     \/ /\ leader = "running" => ~Obeys(signal, onTerm.leader)
        /\ UNCHANGED <<leader, code>>
  /\ descendant' = IF descendant = "running" /\ Obeys(signal, onTerm.descendant) THEN "gone"
                   ELSE descendant

\* Nothing of the CLI runs any more.
TreeGone == leader # "running" /\ descendant # "running"

\* The child's 'close' event: the leader is reaped, both pipes are at their end.
Closed ==
  /\ leader = "exited" /\ outPipe = 0 /\ errPipe = 0
  /\ ~(descendant = "running" /\ holdsPipes)
=============================================================================
