SPECIFICATION Spec
CONSTANTS
  r1 = r1
  NoLease = NoLease
  Runners = {r1}
  Classes <- Transient
  MaxFailures = 2
  MaxSilent = 0
  MaxCheckpoints = 0
  MaxMessages = 0
  MaxContinues = 1
  MaxInterrupts = 1
  MaxFaults = 0
  MaxInputs = 5
  TargetTypes <- Asking
CHECK_DEADLOCK FALSE
PROPERTIES
  InterruptCallsOff
