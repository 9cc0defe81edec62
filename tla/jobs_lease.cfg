SPECIFICATION Spec
CONSTANTS
  j1 = j1
  j2 = j2
  c1 = c1
  c2 = c2
  NoJob = NoJob
  NoOne = NoOne
  NoUnit = NoUnit
  NoQuestion = NoQuestion
  NoAnswer = NoAnswer
  Job <- OneJob
  Controller <- TwoControllers
  NSteps = 1
  AskKey = {}
  MaxAttempt = 1
  AttemptBound = 1
  LogBound = 10
  MaxFaults = 2
  Fault = {"crash", "fail", "powercut", "tear", "replan"}
SYMMETRY ControllerSymmetry
INVARIANTS CustodyLogged NothingAfterFinished OutcomeOnce AnswerDelivered
CHECK_DEADLOCK FALSE
