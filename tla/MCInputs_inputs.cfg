CONSTANTS
  Maximum = 16
  Sizes = {0, 10}
  SDKDepth = 3
  VerifierDepth = 2
  InstallerDepth = 2
  Levels = 6
  Strings <- MCStrings
  DecodedString <- MCDecodedString
  Unpaired <- MCUnpaired
  NonASCII <- MCNonASCII
  Place <- MCPlace
  WholeNumbers = {"1"}
  OtherNumbers = {"1.5"}
  Names = {1, 2, 3}
  Letters = {"k", "n", "r"}
  Lowercase <- MCLowercase
SPECIFICATION FairSpec
INVARIANTS
  AcceptedBytesAreWhole
  AcceptedDocumentIsWhole
  ReadersFollowGrammar
  ImportReadsExport
  LinesStaySeparate
  PackageHoldsOnlySource
PROPERTY DownloadSettles
CHECK_DEADLOCK FALSE
