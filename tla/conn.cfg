SPECIFICATION FairSpec
CONSTANTS
  c1 = c1
  c2 = c2
  s1 = s1
  Clients = {c1, c2}
  Raw = {c2}
  Services = {s1}
  Args = 2
  Scripts <- Two
  None = None
  ConnMax = 1
  ConnSecs = 1
  Cap = 4
  Budgets <- Acts_conn
INVARIANTS ConnInv
PROPERTIES Answered ToolsEnd
CHECK_DEADLOCK FALSE
