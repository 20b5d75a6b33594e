\* Two old versions, three attempts, two calls and looks; anything may fail.
SPECIFICATION FairSpec
CONSTANTS
  Rounds = 2
  MaxLooks = 2
  MaxAttempts = 3
  MaxCalls = 2
  Faults = {"create", "restore", "missing", "loss", "call"}
INVARIANTS
  NothingLost
  AccessFits
  NoFalseFailure
PROPERTIES
  NeverOnTop
  Ends
\* The test ends.
CHECK_DEADLOCK FALSE
