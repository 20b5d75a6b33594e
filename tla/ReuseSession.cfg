\* Two VMs over three tests; anything may fail, at any time.
SPECIFICATION FairSpec
CONSTANTS
  NumVms = 2
  NumTests = 3
  Faults = {"backup", "install", "restore", "call"}
INVARIANTS
  CleanStart
  RestoredForUse
  AlarmHasCause
PROPERTIES
  AllTestsRun
\* The session ends.
CHECK_DEADLOCK FALSE
