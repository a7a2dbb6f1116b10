\* One updater over time, killed, failing or cut off from the channel twice.
SPECIFICATION FairSpec
CONSTANTS
  Proc = {p1}
  Releases <- TwoVersions
  NoRelease = NoRelease
  NoProc = NoProc
  Never = Never
  CheckInterval = 2
  RetryInterval = 1
  LiveExpiry = FALSE
  MaxTime = 4
  MaxPolls = 1
  MaxFaults = 2
INVARIANTS ReturnsActiveRelease PendingIsRetried
PROPERTIES NoCheckBeforeDue DeadLockFileIsRemoved AcceptedBecomesActive
