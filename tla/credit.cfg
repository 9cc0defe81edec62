SPECIFICATION FairSpec
CONSTANTS
  r1 = r1
  r2 = r2
  Relay <- TwoRelays
  Fund = 2
  Ceilings = {0, 1}
  Block = 1
  Cost = {1, 2}
  SettleId = {1, 2, 3, 4, 5, 6}
  MaxFaults = 1
  NoCall = NoCall
  NoAnswer = NoAnswer
  NoReport = NoReport
INVARIANTS TypeOK LeasesHeld ServedWithinFund ChargedOnce
PROPERTY LeasesReturn
