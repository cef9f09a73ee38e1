CONSTANTS
  Ops = {1, 2}
  MidOf <- MCMidOf
  Exp <- MCExp
  MaxCopies = 2
  Skew = 0
  Retention = 1
  Callers = {"hub", "radio"}
  Keyed = "hub"
  Matches <- MCMatches
  Visited <- MCVisited
  Links = {"cell", "sat", "sms"}
  Groups <- MCGroups
  Target <- MCTarget
  Priority <- MCPriority
  Dests <- MCDests
  Payloads = {"hello", "long"}
  Size <- MCSize
  Copies <- MCCopies
  NoCopy = NoCopy
  MaxDepth = 1
  MaxBytes = 2
  MaxRows = 6
  PayOf <- MCPayOf
  MaxNow = 3
  Starts <- MCStarts
SPECIFICATION Spec
CHECK_DEADLOCK FALSE
INVARIANTS TypeOK DepthBound  
PROPERTIES Promise HandedOff
