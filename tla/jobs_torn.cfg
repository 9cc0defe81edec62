SPECIFICATION Spec
CONSTANTS
  j1 = j1
  j2 = j2
  c1 = c1
  c2 = c2
  NoJob = NoJob
  NoOne = NoOne
  NoUnit = NoUnit
  NoQuestion = NoQuestion
  NoAnswer = NoAnswer
  Job <- TwoJobs
  Controller <- TwoControllers
  NSteps = 1
  AskKey = {}
  MaxAttempt = 1
  AttemptBound = 1
  LogBound = 9
  MaxFaults = 1
  Fault = {"tear"}
INVARIANT OneStepOnBox
CHECK_DEADLOCK FALSE
