SPECIFICATION FairSpec
CONSTANTS
  j1 = j1
  j2 = j2
  c1 = c1
  c2 = c2
  NoJob = NoJob
  NoOne = NoOne
  NoUnit = NoUnit
  NoQuestion = NoQuestion
  NoAnswer = NoAnswer
  Job <- OneJob
  Controller <- OneController
  NSteps = 2
  AskKey = {"ask"}
  MaxAttempt = 1
  AttemptBound = 2
  LogBound = 14
  MaxFaults = 1
  Fault = {"crash", "fail", "powercut", "kill", "start", "vanish"}
INVARIANTS TypeOK UnitsInTurn AttemptsEarned LogTrue
PROPERTIES NoSecondStart StepsFold GapsClose
CHECK_DEADLOCK FALSE
