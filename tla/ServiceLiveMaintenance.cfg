CONSTANTS
  Jobs = {j1}
  Keys = {k1}
  Requests = {r1}
  NoKey = NoKey
  NoRequest = NoRequest
  NoJob = NoJob
  WebhookConfigured = TRUE
  WebhookAttempts = 1
  MaxTotalAttempts = 2
  MaxWorkers = 1
  MaxQueue = 1
  LiveMaintenance = TRUE
  MaxCrashes = 0
  MaxFaults = 0
  Expiry = FALSE
SPECIFICATION Spec
CHECK_DEADLOCK FALSE
PROPERTY CompleteIsFinal
