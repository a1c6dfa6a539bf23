SPECIFICATION Spec
CONSTANTS
  Chains <- All_chains
  Starts <- Callers
  Users <- Accounts
  Where <- Dirs
  None = None
  Hard = 5
  Fails = 1
INVARIANTS Dropped AsAsked
CHECK_DEADLOCK FALSE
