\* One synchronous exchange, with every kind of CLI.
SPECIFICATION FairSpec
CONSTANTS
  MaxChunks = 3
  MaxStdout = 2
  MaxStderr = 1
INVARIANTS SyncSecretsAreWiped CLIHasEnded
PROPERTIES SyncImplementsExchange RunSyncReturnsAtLast
CHECK_DEADLOCK FALSE
