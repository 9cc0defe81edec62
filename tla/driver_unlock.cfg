SPECIFICATION Spec
CONSTANTS
  Late = Late
  None = None
  Slot <- MCSlot
  NSteps = 1
  MaxAttempt = 1
  InVault = TRUE
  Fault = {"lock"}
  MaxFaults = 1
PROPERTY UnlockResumes
CHECK_DEADLOCK FALSE
