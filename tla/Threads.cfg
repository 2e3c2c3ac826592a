SPECIFICATION ThreadsSpec
CONSTANTS
  MaxSessions = 3
  RingCap = 2
  MayFail = TRUE
  Items = {i1, i2}
  Capacity = 2
  MaxPush = 5
  NoItem = NoItem
  MaxRuns = 2
  MaxResults = 1
  MaxSockets = 2
  Windows = {1, 2}
  Exe <- MCExe
  Covering = {3}
  Probes <- MCProbes
  Outputs <- MCOutputs
  MaxSwitches = 1
  MaxStarts = 2
  MaxSettings = 0
  MayDrop = TRUE
  Procs = {1, 2, 3}
  NoPid = 0
  MayCrash = TRUE
  StartsInTime = TRUE
  MaxHangs = 1
INVARIANTS OneOfEach HandlerOutlivesCall NoStaleReplay RingIsSound
   DesktopIsSound
PROPERTIES ImplementsFifo CallsReturn PumpLeaves  
CHECK_DEADLOCK FALSE
