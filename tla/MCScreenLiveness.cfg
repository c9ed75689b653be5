CONSTANTS
  w1 = w1
  w2 = w2
  a1 = a1
  a2 = a2
  None = None
  Windows <- MCWindows
  Alive <- MCAlive
  Terminals <- MCTerminals
  Requests <- LiveRequests
  MaxAsked = 1
  MaxFaults = 1
SPECIFICATION LiveSpec
CHECK_DEADLOCK FALSE
PROPERTIES Reattaches ExitedAreRemoved
