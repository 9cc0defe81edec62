SPECIFICATION Spec
CONSTANTS
  j1 = j1
  j2 = j2
  c1 = c1
  c2 = c2
  NoJob = NoJob
  NoOne = NoOne
  NoUnit = NoUnit
  NoQuestion = NoQuestion
  NoAnswer = NoAnswer
  Job <- TwoJobs
  Controller <- OneController
  NSteps = 1
  AskKey = {}
  MaxAttempt = 0
  AttemptBound = 1
  LogBound = 5
  MaxFaults = 2
  Fault = {"crash", "powercut", "start", "abandon"}
SYMMETRY JobSymmetry
INVARIANTS OneUnfinished OneStepOnBox
PROPERTIES LifecycleSpec
CHECK_DEADLOCK FALSE
