SPECIFICATION ProcessFairSpec
CONSTANTS
  HubEvents = {e1, e2}
  Blank = Blank
  HUB_MAX_HISTORY = 3
  MaxAsked = 3
  Messages = {"retrieved", "empty", "status"}
  Failed = Failed
  e1 = e1
  e2 = e2
  Asked = 2
  MaxEvents = 4
  MaxMessages = 2
CHECK_DEADLOCK FALSE
INVARIANT ProcessTypeOK
INVARIANT AcceptedAreDelivered
INVARIANT OneOperator
PROPERTY ReadsOldest
PROPERTY QuitReturns
