CONSTANTS
  Hooked = {"send"}
  Traced = {"call"}
  MaxActs = 2
  MaxHandlers = 1
  PipeLines = 2
  MaxLines = 3
  Cases <- MCCases
SPECIFICATION FairSpec
CHECK_DEADLOCK FALSE
INVARIANTS CoveredRunIsWhole CoveredRunTellsAll ReadyWorkerRuns NothingRunsOn
PROPERTIES SandboxReturns
