CONSTANTS
  Users = {u1, u2}
  Clients = {c1, c2}
  Handlers = {h1, h2}
  Roles = {"SuperAdmin", "User"}
  Workloads <- Suspensions
  NoToken = NoToken
SPECIFICATION Spec
INVARIANTS SuperAdminRemains

SYMMETRY Symmetry
