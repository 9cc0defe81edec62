SPECIFICATION Spec
CONSTANTS
  None = None
  Boxes <- MCBoxes
  MaxJobs = 2
  MaxFaults = 2
  MaxRepairs = 1
INVARIANT RecordSurvives
CHECK_DEADLOCK FALSE
