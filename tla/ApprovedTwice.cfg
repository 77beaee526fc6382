SPECIFICATION Spec
CONSTANTS
  c1 = c1
  c2 = c2
  i1 = i1
  i2 = i2
  i3 = i3
  None = None
  Calls = {c1, c2}
  Invocations = {i1, i2, i3}
  Histories <- Threads
  Colocated = TRUE
  MaxNew = 4
  MaxContinues = 1
SYMMETRY Symmetric
CHECK_DEADLOCK FALSE
INVARIANTS
  CachedIsRebuiltUnlessContinued
