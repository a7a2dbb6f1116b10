\* A CLI that ends on SIGTERM, and a descendant that does not.
SPECIFICATION Spec
CONSTANTS
  MaxChunks = 0
  MaxStdout = 1
  MaxStderr = 1
INVARIANT SyncTimeoutEndsTree
CHECK_DEADLOCK FALSE
