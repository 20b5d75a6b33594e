\* What a compact cluster loses: its rabbits and databases share markers.
SPECIFICATION Spec
CONSTANTS
  n1 = n1
  n2 = n2
  n3 = n3
  n4 = n4
  n5 = n5
  n6 = n6
  n7 = n7
  n8 = n8
  Nodes <- CompactNodes
  Brokers <- CompactRow
  Dbs <- CompactRow
  Managers <- CompactRow
  Skip <- NoUnits
  PreCluster = TRUE
  StaleComplete <- CompactNodes
  StaleFailed <- NoNodes
INVARIANTS
  BackendsUpBeforeManagers
CHECK_DEADLOCK FALSE
