SPECIFICATION Spec
CONSTANTS
  Names = {1, 2}
  Long = {1}
  Starts <- AnyStart
  Options <- AnyCmd
  Tmax = 36
  Changes = 2
INVARIANTS ToolsAgree ShownIsSent ListingInv
CHECK_DEADLOCK FALSE
