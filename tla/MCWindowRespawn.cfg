CONSTANTS
  p1 = p1
  p2 = p2
  w1 = w1
  w2 = w2
  t1 = t1
  k1 = k1
  k2 = k2
  Project = Project
  None = None
  Procs <- MCProcs
  Windows <- PlainWindows
  Workspaces <- PlainWorkspaces
  GitWorkspaces = {}
  Home <- PlainHome
  MaxFaults = 0
  Requests <- AllRequests
  Respawnable = {w2}
SPECIFICATION LiveSpec
PROPERTY UnforcedKillSparesLive
