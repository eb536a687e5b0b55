CONSTANTS
  Titles <- MCTitles
  FullTitles = {"F1", "F2"}
  Learners = {"w1"}
  Dates = {1, 2}
  Requests = {1, 2}
  Workloads <- MCWorkloads
  None = None
  Keep = Keep
  Blank = Blank
SPECIFICATION Spec
INVARIANTS
  TypeOK
  CreditIsEarned
  RowsAgree
PROPERTIES
  CompletionsKept
\* Every request has been made.
CHECK_DEADLOCK FALSE
