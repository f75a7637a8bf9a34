CONSTANTS
  MalwareIds = {"MAL-1"}
  TokenBudget = 4
  MaxPages = 3
  MaxRetries = 1
  Worlds <- MCWorlds
SPECIFICATION Spec
INVARIANTS DeclaredIsListed OrderIsImmaterial SuccessTellsAll OsvSuccessIsWhole ReportedDangerBlocks
