CONSTANTS
  h1 = h1
  r = r
  u = u
  c1 = c1
  c2 = c2
  c3 = c3
  None = None
  Stale = Stale
  Closer = Closer
  Hosts <- MCHosts
  Workers <- MCWorkers
  Conns <- MCConns
  Duties <- MCDuties
  MaxFaults = 1
SPECIFICATION LiveSpec
INVARIANTS TypeOK AnswersAreOwn NothingLeaks OneConnectionPerHost CloseLeavesNothing
PROPERTIES Reconnects RequestsEnd CloseEnds
