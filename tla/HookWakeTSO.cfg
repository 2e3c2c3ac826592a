SPECIFICATION WakeSpec
CONSTANTS
  Capacity = 2
  Batch = 2
  MaxEvents = 4
  MaxPokes = 1
  StoreBuffers = TRUE
INVARIANT NoLostWakeup
CHECK_DEADLOCK FALSE
