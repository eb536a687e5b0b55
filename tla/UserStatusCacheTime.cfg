\* Two instances and a running clock, fairly scheduled: how long an untold
\* instance stays stale, and that every guard answers (no symmetry: liveness).
CONSTANTS
  Users = {u1}
  Instances = {i1, i2}
  Requests = {r1}
  Writers = {w1}
  Ops = {"revoke", "wipe"}
  TTL = 1
  Latency = 1
  MaxWrites = 1
  MaxTime = 3
  NoLoad = NoLoad
  NoSnap = NoSnap
  Tabs = {r1}
  NoCookie = NoCookie
  Parts = {"status"}
SPECIFICATION MCFairSpec
INVARIANTS VerdictExactWhenAged
PROPERTIES EveryGuardAnswers
