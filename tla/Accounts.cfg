CONSTANTS
  Users = {u1, u2}
  Clients = {c1, c2}
  Handlers = {h1, h2}
  Roles = {"SuperAdmin", "User"}
  Workloads <- SerialMixes
  NoToken = NoToken
SPECIFICATION Spec
SYMMETRY Symmetry
INVARIANTS TypeOK NoLockout ClaimsAreEarned
