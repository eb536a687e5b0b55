CONSTANTS
  Emails = {"ann", "Ann", "bob"}
  Names = {"acme", "ACME", "bolt"}
  Lower <- MCLower
  Countries = {"fr", "us", "it"}
  Theatres = {"EMEA", "AMER"}
  Titles = {"t1", "t2"}
  Dates = {1, 2}
  Ids = {1, 2, 3}
  ChunkSize = 2
  Requests = {1, 2}
  Workloads <- MCWorkloads
  None = None
  Keep = Keep
  Blank = Blank
  Export = Export
  Parts = {"learners", "restore", "plan"}
  Archives <- MCArchives
  MaxEpoch = 2
  MaxEdits = 2
  MaxRestores = 2
  Nobody = Nobody
  People = {"ann", "bob", "cy"}
  Certs = {"A", "B", "C", "O", "P"}
SPECIFICATION MCSpec
INVARIANTS
  TypesOK
  ImportIsExact
  FullRestoreIsExact
  ConfigMergesByPartner
  OldSessionsEnd
  AllocationSound
  CostIsHonest
  PlanCloses
PROPERTIES
  TenantsKeptApart
\* Every request has been made; every archive restored.
CHECK_DEADLOCK FALSE
