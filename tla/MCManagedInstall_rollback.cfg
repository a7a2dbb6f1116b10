\* Two waiters see the lock file of a killed updater go stale.
SPECIFICATION Spec
CONSTANTS
  Proc = {p1, p2}
  Releases <- TwoVersions
  NoRelease = NoRelease
  NoProc = NoProc
  Never = Never
  CheckInterval = 1
  RetryInterval = 1
  LiveExpiry = FALSE
  MaxTime = 0
  MaxPolls = 1
  MaxFaults = 1
PROPERTIES NoRollback
