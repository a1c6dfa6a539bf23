SPECIFICATION Spec
CONSTANTS
  Records <- Few
  W = 18
  Buf = 4
  Nrecs = 2
  Kbuf = 2
  U24max = 2
  Gens = 2
  Looks = 1
  Budgets <- Many_or_failing
INVARIANTS Found Walked WriterInv
CHECK_DEADLOCK FALSE
