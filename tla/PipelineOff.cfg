SPECIFICATION FairSpec
CONSTANTS
  RingCap = 4
  BatchCap = 2
  MaxEvents = 4
  MaxUi = 1
  Kinds = {"char", "plain"}
  UiKinds = {"off"}
  Faults = {}
  Deferred = FALSE
  Budget = "never"
PROPERTIES OffIsCleanCut
CHECK_DEADLOCK FALSE
