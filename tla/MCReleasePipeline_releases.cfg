\* Two merges, each with a job that may run twice, and a build that may differ.
SPECIFICATION MCFairSpec
CONSTANTS
  NumMerges = 2
  MaxBase = 3
  Instances = {i1, i2}
  Builds = {b1, b2}
  NoBuild = NoBuild
  MaxFaults = 1
INVARIANTS PublishedInOrder ReleaseHasPackage DoneIsExact NoPackageForForeignTag
PROPERTIES LatestNeverGoesBack EveryMergeIsReleased
CHECK_DEADLOCK FALSE
