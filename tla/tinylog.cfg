SPECIFICATION FairSpec
CONSTANTS
  Procs = {p1, p2, p3}
  None = None
  Inodes = {i1, i2, i3, i4, i5, i6, i7}
  Inputs <- Lines
  Scripts <- AnyOpt
  LineMax = 2
  InBuf = 3
  Budgets <- Acts_tinylog
INVARIANTS FilesSafe Retention CurrentBounded
PROPERTIES HupHonoured EofExits
CHECK_DEADLOCK FALSE
