SPECIFICATION Spec
CONSTANTS
  Services = {s1, s2}
  First = s1
  Pids = {p1, p2}
  None = None
  Inherited = {p2}
  Flavors <- FirstAny
  Boot <- AnyBoot
  Cmds = {"d", "u"}
  WStats = {exit0}
  Exit0 = exit0
  PerpMax = 1
  NFD = 4
  Autoscan = TRUE
  Budgets <- Acts_failures
INVARIANTS TypeOK NoLostWakeup NoLostChild FailingIsRetried
PROPERTIES OnlyWantedStarts Supervises
CHECK_DEADLOCK FALSE
