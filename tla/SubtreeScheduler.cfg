\* Two threads compete for one LLM slot, with and without reservations.
CONSTANTS
  Threads = {1, 2}
  Priority <- LowFirst
  MaxLlm = 1
  MaxTool = 1
  MaxAttempts = 2
  MaxTracked = 2
  StickyModes = {TRUE, FALSE}
  LeaseOutlastsTurn = TRUE
  InitialWork <- Begun
  NoKey = NoKey
  MaxEvents <- Eventful
  MaxFaults <- Faulty
SPECIFICATION FairSpec
INVARIANTS
  TypeOK
  WithinSlots
  NoHiddenWork
  ParkedForCause
PROPERTIES
  WorkIsDone
CHECK_DEADLOCK FALSE
