CONSTANTS
  Jobs = {j1, j2}
  Keys = {k1}
  Requests = {r1}
  NoKey = NoKey
  NoRequest = NoRequest
  NoJob = NoJob
  WebhookConfigured = TRUE
  WebhookAttempts = 1
  MaxTotalAttempts = 2
  MaxWorkers = 1
  MaxQueue = 1
  LiveMaintenance = FALSE
  MaxCrashes = 1
  MaxFaults = 1
  Expiry = FALSE
SPECIFICATION FairSpec
CHECK_DEADLOCK FALSE
PROPERTIES AcceptedTerminates WorkerIsFreed
