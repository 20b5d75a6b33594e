\* The cluster_missing_one_db fixture: a full cluster (one component per machine)
\* without its last database, on machines that may hold the completion marker of
\* an earlier test.
SPECIFICATION FairSpec
CONSTANTS
  n1 = n1
  n2 = n2
  n3 = n3
  n4 = n4
  n5 = n5
  n6 = n6
  n7 = n7
  n8 = n8
  Nodes <- FullNodes
  Brokers <- FullBrokers
  Dbs <- FullDbs
  Managers <- FullManagers
  Skip <- MissingLastDb
  PreCluster = TRUE
  StaleComplete <- SomeStale
  StaleFailed <- NoNodes
INVARIANTS
  ManagersKnowTheDbs
  NoFalseAlarm
PROPERTIES
  Termination
  StartupSpec
\* The bootstrap ends, and so do the installations.
CHECK_DEADLOCK FALSE
