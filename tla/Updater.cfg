SPECIFICATION UpdaterSpec
CONSTANTS
  Branches = {"master", "dev"}
  Stable = "master"
  MaxCommit = 3
  Defective <- MCDefective
  MaxPosts = 1
  MaxCronRuns = 1
  MaxKills = 1
  Exclusive = TRUE
  None = None
INVARIANTS
  UpdaterTypeOK
  SchemaCoversCode
  EndsWhole
  StaysOnChannel
PROPERTIES
  ServiceComesBack
\* Nothing requested and none to come: the system is at rest.
CHECK_DEADLOCK FALSE
