CONSTANTS
  Invocations = {i1, i2}
  NoInvocation = NoInvocation
  Calls = {1}
  Parent <- OwnMessages
  UserCalls = {1}
  Resumable = {}
  Restricted = {}
  Colocated = FALSE
  MaxFaults = 2
  MaxInterrupts = 0
SPECIFICATION FairSpec
PROPERTIES
  SettledEventually
CHECK_DEADLOCK FALSE
