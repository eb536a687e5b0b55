\* Of the snapshot, one instance and two accounts: loads, commits and
\* invalidations interleave and its clock stands still.
CONSTANTS
  Users = {u1, u2}
  Instances = {i1}
  Requests = {r1, r2}
  Writers = {w1}
  Ops = {"create", "disable", "enable", "revoke", "delete"}
  TTL = 1
  Latency = 1
  MaxWrites = 2
  MaxTime = 0
  NoLoad = NoLoad
  NoSnap = NoSnap
  Tabs = {r1, r2}
  NoCookie = NoCookie
  Parts = {"status", "prompt", "slow"}
SPECIFICATION MCSpec
INVARIANTS
  TypeOK
  LoadsAreShared
  CacheNotSuperseded
  VerdictsFollowRows
  SessionsEnd
  ActivityKeepsSession
SYMMETRY Symmetry
