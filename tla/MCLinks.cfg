CONSTANTS
  LinkIds = {"A", "B"}
  Devices = {"d", "e"}
  Vid <- MCVid
  Handlers = {"h1", "h2"}
  None = "none"
  RebindAfter = 2
  MaxNow = 3
  Starts <- MCStarts
SPECIFICATION Spec
CHECK_DEADLOCK FALSE
INVARIANTS TypeOK SwitchedOffStaysQuiet AtRest
PROPERTIES ScanGivesFreeDevice GraceKept PresentServed
