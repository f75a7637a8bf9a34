CONSTANTS
  Jobs = {j1, j2}
  Keys = {k1}
  Requests = {r1, r2}
  NoKey = NoKey
  NoRequest = NoRequest
  NoJob = NoJob
  WebhookConfigured = TRUE
  WebhookAttempts = 2
  MaxTotalAttempts = 3
  MaxWorkers = 1
  MaxQueue = 1
  LiveMaintenance = FALSE
  MaxCrashes = 1
  MaxFaults = 0
  Expiry = TRUE
SPECIFICATION Spec
CHECK_DEADLOCK FALSE
SYMMETRY Symmetry
INVARIANTS TypeOK KeyBindsOneJob NoWedgedJob CancelHonoured
PROPERTIES ImplementsLifecycle
