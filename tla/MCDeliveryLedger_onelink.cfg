SPECIFICATION Spec
CONSTANTS
  Links = {iridium_0}
  Sat = {iridium_0}
  Workers = {w1, w2}
  MaxDepth = 1
  MaxRows = 1
  Templates <- OneLinkTemplates
  RunawayLimit = 2
  DeferWindow = 1
  AbsentWindow = 1
  MaxTime = 2
  MaxAsks = 1
  MaxCrashes = 1
SYMMETRY WorkerSymmetry
INVARIANTS TypeOK  OneSenderPerRow CancelledNotSent NothingStuckSending TTLPausedWhileHeld SosLegKept 
