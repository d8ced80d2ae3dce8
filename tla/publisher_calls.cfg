SPECIFICATION FairSpec
CONSTANTS
  Calls = {c1, c2}
  First = c1
  Requests <- MCRequests
  None = None
INVARIANTS TypeOK WaiterIsRead
PROPERTY CallReturns
CHECK_DEADLOCK FALSE
