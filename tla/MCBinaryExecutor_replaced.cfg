\* An explicit path whose file is replaced twice under two callers.
SPECIFICATION Spec
CONSTANTS
  Caller = {c1, c2}
  NoCaller = NoCaller
  Managed = FALSE
  Modes = {"sync", "private", "shared"}
  Expiring = {"sync", "private", "shared"}
  VersionOf <- Versions3
  Lacking = {2}
  MaxInstalls = 3
  MaxFaults = 0
SYMMETRY Symmetry
INVARIANTS ResultFromVerifiedBinary CachedCapabilitiesAreOwn
PROPERTIES ResultFitsCapabilities TimeoutReachesSharers
