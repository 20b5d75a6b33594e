------------------------- MODULE MCClusterBootstrap -------------------------
(***************************************************************************)
(* Small clusters for TLC.  A cluster is chosen by a .cfg from the          *)
(* definitions below; machines are model values.                            *)
(***************************************************************************)
EXTENDS ClusterBootstrap

CONSTANTS n1, n2, n3, n4, n5, n6, n7, n8

\* Three rabbits, three databases and two managers, each on a machine of its
\* own: rabbits that join in parallel, databases beside a skipped one and an
\* order of managers.
FullNodes    == {n1, n2, n3, n4, n5, n6, n7, n8}
FullBrokers  == <<n1, n2, n3>>
FullDbs      == <<n4, n5, n6>>
FullManagers == <<n7, n8>>

\* cluster_missing_one_db: the last database is in skip_bootstrap_list.
MissingLastDb == {6}

\* One machine of each kind may keep the completion marker of an earlier test.
SomeStale == {n2, n5, n7}

\* The compact cluster: the same machines hold all three components.
CompactNodes == {n1, n2}
CompactRow   == <<n1, n2>>

NoNodes == {}
NoUnits == {}
=============================================================================
