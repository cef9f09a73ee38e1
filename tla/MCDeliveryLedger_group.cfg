SPECIFICATION Spec
CONSTANTS
  Links = {aprs_0, cellular_0}
  Sat = {}
  Workers = {w1, w2}
  MaxDepth = 1
  MaxRows = 2
  Templates <- GroupTemplates
  RunawayLimit = 2
  DeferWindow = 0
  AbsentWindow = 0
  MaxTime = 0
  MaxAsks = 0
  MaxCrashes = 1
SYMMETRY WorkerSymmetry
INVARIANTS OneSenderPerRow MovedNotLost
