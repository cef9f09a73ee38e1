SPECIFICATION Spec
CONSTANTS
  N = 2
  Requests <- RouteRequests
  Cap = 1
  MaxRetries = 1
  RestartSlack = 1
  MaxDowntime = 0
  MaxClaims = 1
  MaxTime = 0
  MaxCrashes = 1
  MaxLost = 0
INVARIANTS CancelLooksToo
