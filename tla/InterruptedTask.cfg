\* The first attempt at a task is interrupted; the script is run again.
CONSTANTS
  Sites <- Calls
  Root = "root"
  Parent <- Of
  Step <- In
  Key <- Named
  Wrapped = {"again"}
  Uncached = {"beside"}
  Listed = {"pair", "beside", "other", "other2"}
  Catching = {"root"}
  MaxFailures = 0
  MaxCrashes = 1
  MaxRuns = 2
SPECIFICATION Spec
PROPERTIES
  CleanedAfterDeath
CHECK_DEADLOCK FALSE
