SPECIFICATION Spec
CONSTANTS
  RingCap = 2
  BatchCap = 2
  MaxEvents = 3
  MaxUi = 2
  Kinds = {"char", "plain", "focus", "click"}
  UiKinds = {"off","resume","policy"}
  Faults = {"partial", "slow", "oom", "long"}
  Deferred = FALSE
  Budget = "any"
INVARIANTS EditInOnePlace CountIsWork NothingStranded
CHECK_DEADLOCK FALSE
