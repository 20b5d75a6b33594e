\* Every call may fail, and the clocks may differ by a second either way.
SPECIFICATION FairSpec
CONSTANTS
  Timeout = 3
  MaxTime = 7
  Ahead = 1
  Behind = 1
  Faults = {"unauthorized", "client", "connection"}
INVARIANTS
  EventsShown
  TimeoutIsFresh
PROPERTIES
  Implements
  Termination
\* The call ends.
CHECK_DEADLOCK FALSE
