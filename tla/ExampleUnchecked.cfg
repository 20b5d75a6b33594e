\* One test on a manager with tenants; a workflow may leave the files as they were.
SPECIFICATION Spec
CONSTANTS
  NumTests = 1
  Kinds = {"install"}
  MaxLooks = 2
  Faults = {"lost"}
PROPERTIES
  InstalledFilesVerified
\* The tests end.
CHECK_DEADLOCK FALSE
