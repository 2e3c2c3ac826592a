SPECIFICATION FairSpec
CONSTANTS
  RingCap = 5
  BatchCap = 2
  MaxEvents = 4
  MaxUi = 1
  Kinds = {"char", "plain", "focus", "click"}
  UiKinds = {"policy"}
  Faults = {"partial", "slow"}
  Deferred = TRUE
  Budget = "blocked"
INVARIANTS NoEditLost 
PROPERTIES  CallbackReturns
CHECK_DEADLOCK FALSE
