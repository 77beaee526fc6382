\* The lease of a process that died before its first event lapses within one turn
\* of the loop.
CONSTANTS
  Threads = {1, 2}
  Priority <- LowFirst
  MaxLlm = 1
  MaxTool = 1
  MaxAttempts = 2
  MaxTracked = 2
  StickyModes = {TRUE, FALSE}
  LeaseOutlastsTurn = FALSE
  InitialWork <- Begun
  NoKey = NoKey
  MaxEvents <- Eventful
  MaxFaults <- Faulty
SPECIFICATION Spec
INVARIANTS
  NoHiddenWork
CHECK_DEADLOCK FALSE
