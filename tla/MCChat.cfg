CONSTANTS
  N = 2
  ReportsPreKey = FALSE
  None = None
  Presses <- MCPresses
  MaxSends = 3
  MaxMounts = 2
  MaxCost = 4
SPECIFICATION Spec
INVARIANTS
  ChatInv
  OwnMessagesInOrder
  UntouchedOnlyWhenStopped
CHECK_DEADLOCK FALSE
PROPERTIES
  ImplementsChatHistories
  AnsweredArrives
