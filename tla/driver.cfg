SPECIFICATION WatchedSpec
CONSTANTS
  Late = Late
  None = None
  Slot <- MCSlot
  NSteps = 1
  MaxAttempt = 1
  InVault = TRUE
  Fault = {"lose", "refuse", "disk", "lock", "stop", "crash"}
  MaxFaults = 1
INVARIANTS TypeOK DriversCounted
PROPERTIES Driven NamesFollow
CHECK_DEADLOCK FALSE
