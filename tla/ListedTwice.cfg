\* A list that names one task twice; nothing fails, nobody dies.
CONSTANTS
  Sites <- Calls
  Root = "root"
  Parent <- AllOfRoot
  Step <- AllFirst
  Key <- SameTask
  Wrapped = {}
  Uncached = {}
  Listed = {"one", "two"}
  Catching = {}
  MaxFailures = 0
  MaxCrashes = 0
  MaxRuns = 1
SPECIFICATION Spec
INVARIANTS
  ReturnsOnce
CHECK_DEADLOCK FALSE
