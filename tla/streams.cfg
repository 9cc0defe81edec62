SPECIFICATION Spec
CONSTANTS
  h1 = h1
  h2 = h2
  l1 = l1
  None = None
  Subs <- MCSubs
  Kind <- MCKind
  QueueLen = 1
  MaxReorgDepth = 3
  MaxCatchUpBlocks = 2
  Budgets <- MCBudgets
INVARIANTS TypeOK LiveAttached LoopWatched NoHoles
PROPERTIES HeadsLinked CatchesUp
CHECK_DEADLOCK FALSE
