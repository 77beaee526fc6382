CONSTANTS
  Invocations = {i1, i2}
  NoInvocation = NoInvocation
  Calls = {1}
  Parent <- OneMessage
  UserCalls = {}
  Resumable = {}
  Restricted = {}
  Colocated = TRUE
  MaxFaults = 0
  MaxInterrupts = 1
SPECIFICATION Spec
PROPERTIES
  CancelTakesEffect
CHECK_DEADLOCK FALSE
