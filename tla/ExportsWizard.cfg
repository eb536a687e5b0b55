CONSTANTS
  Schedules = {1, 2}
  Handlers = {h1, h2}
  Clients = {"a", "b"}
  PerMinute = 2
  Day = 2
  Workloads <- Wizards
  MaxTokens = 4
  MaxTime = 7
  None = None
  h1 = h1
  h2 = h2
SYMMETRY Alike
SPECIFICATION Spec
INVARIANTS
  CancelledWizardHarmless
CHECK_DEADLOCK FALSE
