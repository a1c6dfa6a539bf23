SPECIFICATION FairSpec
CONSTANTS
  Services = {s1}
  First = s1
  Pids = {p1, p2}
  None = None
  Inherited = {}
  Flavors <- LogOrDown
  Boot <- BootAll
  Cmds = {"p"}
  WStats = {exit0}
  Exit0 = exit0
  PerpMax = 1
  NFD = 4
  Autoscan = FALSE
  Budgets <- Acts_progress
PROPERTIES ShutdownCompletes DeactivationCompletes ActivationHappens Restarts
CHECK_DEADLOCK FALSE
