SPECIFICATION BoxSpec
CONSTANTS
  c1 = c1
  c2 = c2
  NoJob = NoJob
  Controllers <- MCControllers
  Kinds = {"start", "list"}
  Budgets <- MCBudgets
  SshTasks = {"setup"}
  MaxNow = 1
  MaxFaults = 1
  Lifetime = 0
  Skew = 0
INVARIANTS BoxTypeOK NonceOutlivesIntent OncePerCall RetryNeverStale NodeExclusive
PROPERTIES TurnstileSpec
CHECK_DEADLOCK FALSE
