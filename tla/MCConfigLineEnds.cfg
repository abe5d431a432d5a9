SPECIFICATION Spec
CONSTANTS
  Orders <- MCOrders
  Confs <- MCConfs
  Words <- MCWords
  PortMax = 9
  HostSize = 2
  MaxRestarts = 2
  MaxRequests = 2
  MaxLines = 2
INVARIANT
  LineEndsAlike
