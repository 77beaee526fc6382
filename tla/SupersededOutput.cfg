CONSTANTS
  Invocations = {i1, i2}
  NoInvocation = NoInvocation
  Calls = {1, 2}
  Parent <- OneMessage
  UserCalls = {}
  Resumable = {}
  Restricted = {}
  Colocated = TRUE
  MaxFaults = 0
  MaxInterrupts = 0
SPECIFICATION Spec
INVARIANTS
  PublishedAsDecided
CHECK_DEADLOCK FALSE
