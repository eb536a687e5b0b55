SPECIFICATION MCSpec
SYMMETRY Symmetry
CONSTANTS
  Keys = {k1, k2, k3}
  Callers = {c1, c2}
  Writers = {w1}
  RawTTLs <- MCRawTTLs
  RawCaps = {0, 1}
  DefaultTTL = 1
  DefaultCap = 2
  SweepBatch = 1
  Latency = 1
  MaxWrites = 1
  MaxTime = 2
  NoEntry = NoEntry
  NoLoad = NoLoad
  NoRow = NoRow
  Fields = {f1, f2}
  SettingsReaders = {c1, c2}
  SettingsSetters = {s1, s2}
  SettingsTTL = 1
  SettingsWrites = 2
  SettingsTime = 3
  Limited = {l1}
  Nonces = {n1}
  Addresses = {a1}
  AddressOf <- MCAddressOf
  Requests = {c1, c2}
  Instances = {i1}
  MaxAttempts = 1
  Window = 2
  PerSecond = 2
  Skew = 1
  CleanupInterval = 1
  Mixes <- MCMixes
  LimitsTime = 6
  SignIns = {c1, c2}
  Threshold = 2
  Ladder <- MCLadder
  MaxFailures = 4
  LoginMaxTime = 9
INVARIANTS
  TypesOK
  StoreBounded
  LoadsAreShared
  ChangesAreSeen
  ThrottlesExact
PROPERTIES
  KeepsPromise
  FreshSurvives
\* No call in progress and none to come: the server waits.
CHECK_DEADLOCK FALSE
