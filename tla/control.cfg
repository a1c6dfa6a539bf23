SPECIFICATION Spec
CONSTANTS
  Services = {s1, s2}
  First = s1
  Pids = {p1, p2, p3}
  None = None
  Inherited = {}
  Flavors <- FirstLog
  Boot <- BootFirst
  Cmds = {"d", "u", "o", "p", "c", "k", "D", "U"}
  WStats = {exit0}
  Exit0 = exit0
  PerpMax = 2
  NFD = 7
  Autoscan = FALSE
  Budgets <- Acts_control
SYMMETRY SymPids
INVARIANTS Supervised StoppedIsPaused ChildTracking CleanExit
PROPERTIES LoggerLast FdsOwned Supervises
