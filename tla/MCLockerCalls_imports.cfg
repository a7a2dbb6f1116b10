\* One call after another, while other applications change the vault.
SPECIFICATION Spec
CONSTANTS
  Call = {c1}
  k1 = k1
  e1 = e1
  e2 = e2
  Key = {k1}
  NoKey = NoKey
  Env = {e1, e2}
  NoEnv = NoEnv
  Files <- FewFiles
  Errors <- CatalogErrors
  MaxFaults = 1
INVARIANTS ImportIsPrefix RefusalHasNoEffect NotFoundIsReal RetryableIsTransient
