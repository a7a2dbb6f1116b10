\* One exchange, with every kind of CLI and host.
SPECIFICATION FairSpec
CONSTANTS
  MaxChunks = 3
  MaxStdout = 2
  MaxStderr = 1
INVARIANTS SecretsAreWiped
PROPERTIES ImplementsExchange ExchangeSettles TreeIsTerminated
CHECK_DEADLOCK FALSE
