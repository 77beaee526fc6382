\* The checkpoint is asked for again: a request retried by itself is not pending
\* any more, and a turn without room asks whatever it was for.
SPECIFICATION Spec
SYMMETRY Symmetric
CONSTANTS
  r1 = r1
  NoLease = NoLease
  Runners = {r1}
  Classes <- Transient
  MaxFailures = 3
  MaxSilent = 0
  MaxCheckpoints = 0
  MaxMessages = 0
  MaxContinues = 0
  MaxInterrupts = 0
  MaxFaults = 0
  MaxInputs = 5
  TargetTypes <- Asking
CHECK_DEADLOCK FALSE
INVARIANTS
  StopsForTheUser
