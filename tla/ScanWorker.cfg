CONSTANTS
  Calls = {j1, j2}
  j1 = j1
  j2 = j2
  Streams = {out, err}
  out = out
  err = err
  OutputLimit = 1
  Callers = {j1}
  NoJob = NoJob
  MaxJobs = 2
  ErrorRetries = 1
  CallbackAttempts = 2
SPECIFICATION FairSpec
CHECK_DEADLOCK FALSE
INVARIANTS SuccessIsComplete KilledTreeIsGone VerdictMatchesScan ExitZeroIsReported
PROPERTIES CallReturns WorkerEnds
