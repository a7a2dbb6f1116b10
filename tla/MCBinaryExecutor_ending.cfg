\* Two callers of a CLI that need not answer.
SPECIFICATION FairSpec
CONSTANTS
  Caller = {c1, c2}
  NoCaller = NoCaller
  Managed = FALSE
  Modes = {"sync", "private", "shared"}
  Expiring = {"sync", "private", "shared"}
  VersionOf <- OneVersion
  Lacking = {}
  MaxInstalls = 1
  MaxFaults = 1
PROPERTIES EveryCallEnds FailedNegotiationIsForgotten
