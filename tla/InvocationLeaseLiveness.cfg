\* Under the passing of time alone the lease of a dead invocation ends; a
\* boundary that names no invocation may be recorded at any time.
CONSTANTS
  Invocations = {i1, i2}
  NoInvocation = NoInvocation
  NoRow = NoRow
  TTL = 2
  MaxWrites = 0
  MaxIdleInterrupts = 1
SPECIFICATION TimedSpec
PROPERTIES
  DeadLeaseExpires
CHECK_DEADLOCK FALSE
