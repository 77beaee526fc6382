\* Safety of the lease protocol and its refinement: two invocations, every
\* interleaving.
CONSTANTS
  Invocations = {i1, i2}
  NoInvocation = NoInvocation
  NoRow = NoRow
  TTL = 2
  MaxWrites = 1
  MaxIdleInterrupts = 0
SPECIFICATION Spec
SYMMETRY InvocationSymmetry
INVARIANTS
  TypeOK
  ExclusiveWriter
  InterruptedIsSilent
  SupersededOnce
PROPERTIES
  LostStaysLost
  LiveLeaseDroppedOpenly
  ImplementsSingleWriter
CHECK_DEADLOCK FALSE
