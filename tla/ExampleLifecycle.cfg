\* Three tests of any kind; workflows fail, last too long or do
\* nothing, and assertions fail.
SPECIFICATION FairSpec
CONSTANTS
  NumTests = 3
  Kinds = {"install", "update", "cli", "bundle"}
  MaxLooks = 2
  Faults = {"workflow", "timeout", "lost", "assertion"}
INVARIANTS
  NothingRemains
  CleanedUp
  NoFalseFailure
PROPERTIES
  Ends
\* The tests end.
CHECK_DEADLOCK FALSE
