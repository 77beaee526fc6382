\* A death between the return of a task and the commit of its value.
CONSTANTS
  Sites <- Calls
  Root = "root"
  Parent <- Of
  Step <- In
  Key <- Named
  Wrapped = {"again"}
  Uncached = {"beside"}
  Listed = {"pair", "beside", "other", "other2"}
  Catching = {"root"}
  MaxFailures = 0
  MaxCrashes = 1
  MaxRuns = 2
SPECIFICATION Spec
INVARIANTS
  ReturnsOnce
CHECK_DEADLOCK FALSE
