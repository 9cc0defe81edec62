SPECIFICATION Spec
CONSTANTS
  None = None
  Boxes <- MCBoxes
  MaxJobs = 3
  MaxFaults = 2
  MaxRepairs = 1
INVARIANTS TypeOK RunsOnItsData EnablementKept MigratedWhenDone
PROPERTY Finishes
CHECK_DEADLOCK FALSE
