\* Every defect, a status up to three questions old, four attempts, and two calls
\* to a node that fail.
SPECIFICATION Spec
CONSTANTS
  Tests = {"status", "failover"}
  Defects = {"none", "sync", "db", "broker", "quorum", "shuns"}
  Lag = 3
  Tries = 4
  Faults = 2
INVARIANTS
  DefectsAreFound
  OneThingAtATime
  NoFalseFailure
PROPERTIES
  Ends
CHECK_DEADLOCK FALSE
