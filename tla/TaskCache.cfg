\* A list of a task and one that calls two others; the latter is called again.
CONSTANTS
  Sites <- Calls
  Root = "root"
  Parent <- Of
  Step <- In
  Key <- Named
  Wrapped = {"again"}
  Uncached = {"beside"}
  Listed = {"pair", "beside", "other", "other2"}
  Catching = {"root"}
  MaxFailures = 2
  MaxCrashes = 2
  MaxRuns = 3
SPECIFICATION FairSpec
INVARIANTS
  TypeOK
  OneAtATime
  RestsOnCompleted
PROPERTIES
  KeptOnceStored
  TerminalIsFinal
  CleanedBeforeRetry
  ScriptEnds
CHECK_DEADLOCK FALSE
