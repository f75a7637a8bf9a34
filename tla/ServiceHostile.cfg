CONSTANTS
  Jobs = {j1}
  Keys = {k1}
  Requests = {r1}
  NoKey = NoKey
  NoRequest = NoRequest
  NoJob = NoJob
  WebhookConfigured = TRUE
  WebhookAttempts = 1
  MaxTotalAttempts = 2
  MaxWorkers = 1
  MaxQueue = 1
  LiveMaintenance = TRUE
  MaxCrashes = 2
  MaxFaults = 1
  Expiry = TRUE
SPECIFICATION FairSpec
CHECK_DEADLOCK FALSE
INVARIANTS CopiesAreHarmless PostsAreBounded
PROPERTIES OutboxHoldsEveryVerdict ImplementsServedLifecycle NeverReactivated RetriesSettle
