SPECIFICATION Spec
CONSTANTS
  a = a
  b = b
  c = c
  Procs = {a, b, c}
  Scripts <- Jobs
  Inodes = {i1, i2, i3, i4}
  None = None
  Budgets <- Acts_pidlock
INVARIANTS LockInv
PROPERTIES FindsPerpd
CHECK_DEADLOCK FALSE
