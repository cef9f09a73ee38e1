SPECIFICATION FairSpec
CONSTANTS
  N = 1
  Requests <- TimedRequests
  Cap = 1
  MaxRetries = 1
  RestartSlack = 1
  MaxDowntime = 1
  MaxClaims = 1
  MaxTime = 2
  MaxCrashes = 1
  MaxLost = 1
INVARIANTS ClockNotBehind
PROPERTIES IntentCloses  
