SPECIFICATION Spec
CONSTANTS
  h1 = h1
  h2 = h2
  l1 = l1
  None = None
  Subs <- MCSubs
  Kind <- MCKind
  QueueLen = 1
  MaxReorgDepth = 3
  MaxCatchUpBlocks = 2
  Budgets <- MCQuiet
INVARIANT CursorDelivered
CHECK_DEADLOCK FALSE
