SPECIFICATION Spec
CONSTANTS
  Links = {mesh_0}
  Sat = {}
  Workers = {w1, w2}
  MaxDepth = 1
  MaxRows = 1
  Templates <- RuleTemplates
  RunawayLimit = 2
  DeferWindow = 1
  AbsentWindow = 1
  MaxTime = 1
  MaxAsks = 0
  MaxCrashes = 1
PROPERTIES NotExpiredWhileDown
