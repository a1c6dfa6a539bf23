SPECIFICATION Spec
CONSTANTS
  Services = {s1, s2}
  First = s1
  Pids = {p1, p2, p3}
  None = None
  Inherited = {}
  Flavors <- FirstLog
  Boot <- BootFirst
  Cmds = {"D"}
  WStats = {exit0}
  Exit0 = exit0
  PerpMax = 2
  NFD = 7
  Autoscan = FALSE
  Budgets <- Acts_closed_twice
SYMMETRY SymPids
INVARIANTS ChildrenWired
