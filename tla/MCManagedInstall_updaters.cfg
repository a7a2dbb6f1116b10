\* Two updaters, two kills or failures at any steps, a channel that replays and
\* equivocates, and lock files that may go stale under a suspended holder.
SPECIFICATION Spec
CONSTANTS
  Proc = {p1, p2}
  Releases <- TwoVersions
  NoRelease = NoRelease
  NoProc = NoProc
  Never = Never
  CheckInterval = 1
  RetryInterval = 1
  LiveExpiry = TRUE
  MaxTime = 0
  MaxPolls = 0
  MaxFaults = 2
SYMMETRY Symmetry
INVARIANTS ActiveReleaseIsVerified MutualExclusion
PROPERTIES ImplementsRegister
