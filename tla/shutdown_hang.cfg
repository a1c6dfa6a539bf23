SPECIFICATION FairSpec
CONSTANTS
  Services = {s1}
  First = s1
  Pids = {p1}
  None = None
  Inherited = {}
  Flavors <- NoLog
  Boot <- BootAll
  Cmds = {}
  WStats = {exit0}
  Exit0 = exit0
  PerpMax = 1
  NFD = 4
  Autoscan = FALSE
  Budgets <- Acts_shutdown_hang
PROPERTIES ShutdownCompletes
CHECK_DEADLOCK FALSE
