CONSTANTS
  c1 = c1
  c2 = c2
  Scans = {c1, c2}
  Callers = {c1, c2}
  Others = {c2}
  Requests <- MCRequests
  Versions <- MCVersions
  Served <- MCServed
  Contents <- MCServed
  Nothing <- MCNothing
  NoContent <- MCNothing
  Labels <- MCLabels
  NoLabel = NoLabel
  MaxHurt = 1
SPECIFICATION Spec
CHECK_DEADLOCK FALSE
INVARIANTS AcceptedIsAsked HonestReleaseAccepted PreservedIsOnRecord OnlyFaultsStopPreserving
