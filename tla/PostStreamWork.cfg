\* The post-stream compaction writes of an invocation are not fenced.
CONSTANTS
  Invocations = {i1, i2}
  NoInvocation = NoInvocation
  NoRow = NoRow
  TTL = 1
  MaxWrites = 1
  MaxIdleInterrupts = 0
SPECIFICATION Spec
INVARIANTS
  PostStreamWorkFenced
CHECK_DEADLOCK FALSE
