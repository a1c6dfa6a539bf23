SPECIFICATION FairSpec
CONSTANTS
  Modes <- AnyMode
  Pids = {p1, p2, p3, p4}
  None = None
  PipeMax = 2
  Budgets <- Acts_deux
INVARIANTS ChildrenInv Asleep LogInv
PROPERTIES Progress
CHECK_DEADLOCK FALSE
