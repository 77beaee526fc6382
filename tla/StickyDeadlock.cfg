\* Sticky scheduling with one LLM slot: the thread that reserved it needs it again.
CONSTANTS
  Threads = {1}
  Priority <- LowFirst
  MaxLlm = 1
  MaxTool = 1
  MaxAttempts = 2
  MaxTracked = 2
  StickyModes = {TRUE}
  LeaseOutlastsTurn = TRUE
  InitialWork <- Begun
  NoKey = NoKey
  MaxEvents <- Eventful
  MaxFaults <- Faultless
SPECIFICATION FairSpec
PROPERTIES
  ReservedIsRun
CHECK_DEADLOCK FALSE
