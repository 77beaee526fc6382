\* A longer story with fewer classes of failure.
SPECIFICATION Spec
SYMMETRY Symmetric
CONSTANTS
  r1 = r1
  r2 = r2
  NoLease = NoLease
  Runners = {r1, r2}
  Classes <- TwoClasses
  MaxFailures = 3
  MaxSilent = 1
  MaxCheckpoints = 1
  MaxMessages = 1
  MaxContinues = 1
  MaxInterrupts = 1
  MaxFaults = 1
  MaxInputs = 4
  TargetTypes <- Asking
CHECK_DEADLOCK FALSE
INVARIANTS
  TypeOK
  CheckpointOnce
  TurnStands
  NoSilentFailure
PROPERTIES
  RetryTakesOnlyTheFailure
  ContinueTakesOnlyWhatWasSeen
  ContinuedIsNext
