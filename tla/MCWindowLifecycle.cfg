CONSTANTS
  p1 = p1
  p2 = p2
  w1 = w1
  w2 = w2
  t1 = t1
  k1 = k1
  k2 = k2
  Project = Project
  None = None
  Procs <- MCProcs
  Windows <- MCWindows
  Workspaces <- MCWorkspaces
  GitWorkspaces = {k1}
  Home <- MCHome
  MaxFaults = 2
  Requests <- AllRequests
  Respawnable = {w1}
SPECIFICATION LiveSpec
INVARIANTS TypeOK SessionsAreRecorded NoTerminalWithoutTree KillsWithIntent
PROPERTIES KillsOnlyWhatItSawDead OwnedResourceSpec CreationsSettleInReadySpace DeletionsSettle
