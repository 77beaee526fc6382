CONSTANTS
  Invocations = {i1, i2}
  NoInvocation = NoInvocation
  Calls = {1, 2}
  Parent <- OneMessage
  UserCalls = {}
  Resumable = {2}
  Restricted = {1}
  Colocated = TRUE
  MaxFaults = 1
  MaxInterrupts = 1
SPECIFICATION Spec
SYMMETRY InvocationSymmetry
VIEW LiveView
INVARIANTS
  TypeOK
  RunOnce
  OneResult
PROPERTIES
  RunOnlyIfWanted
  FinishIsFinal
  DecisionStands
  ImplementsLifecycle
CHECK_DEADLOCK FALSE
