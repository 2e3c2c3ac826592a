SPECIFICATION KeyboardSpec
CONSTANTS
  Letters = {"a", "b"}
  Shifts = {"lshift"}
  WithCaps = TRUE
  MaxKeys = 5
  MaxResyncs = 1
  TickRange = 64
  MissThreshold = 3
  MissesToRehook = 2
  ProbeInterval = 2
  Starts = {5}
  FirstKeySeen = TRUE
  Inputs = {"key", "hidden", "mouse", "inject", "die"}
  MayFail = TRUE
  Horizon = 11
  Capacity = 2
  Batch = 2
  MaxEvents = 3
  MaxPokes = 1
  StoreBuffers = TRUE
INVARIANTS NoPhantomUp  RepairIsPrompt NoSleepPastStop SleepIsVisible
PROPERTIES RehooksForAReason LateNotLost StopIsAnswered
CHECK_DEADLOCK FALSE
