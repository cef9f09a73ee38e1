CONSTANTS
  Ops = {1, 2}
  Kinds <- TwoOps
  MidExp = 1
  ReceiptAllow = 1
  ReplayWithin = 1
  Skew = 0
  Retention = 2
  HubKeep = 2
  MaxNow = 4
  MaxFaults = 1
  MaxCrashes = 1
SPECIFICATION Spec
CHECK_DEADLOCK FALSE
INVARIANTS
  TypeOK
  NothingLost
  LedgerFirst
PROPERTY OutcomeSettles
