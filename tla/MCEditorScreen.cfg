CONSTANTS
  w1 = w1
  w2 = w2
  a1 = a1
  a2 = a2
  None = None
  Windows <- MCWindows
  Alive <- MCAlive
  Terminals <- MCTerminals
  Requests <- MCRequests
  MaxAsked = 2
  MaxFaults = 0
SPECIFICATION Spec
SYMMETRY Symmetry
CHECK_DEADLOCK FALSE
INVARIANTS TerminalsAccounted LastRequestWins
