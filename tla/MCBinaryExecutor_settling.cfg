\* Two callers of a managed CLI that is updated once.
SPECIFICATION LiveSpec
CONSTANTS
  Caller = {c1, c2}
  NoCaller = NoCaller
  Managed = TRUE
  Modes = {"shared"}
  Expiring = {}
  VersionOf <- Versions2
  Lacking = {}
  MaxInstalls = 2
  MaxFaults = 0
PROPERTIES ExecutorFindsInstalledBinary
