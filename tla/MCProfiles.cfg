SPECIFICATION Spec
CONSTANTS
  GuidanceNames <- MCGuidanceNames
  SkillNames <- MCSkillNames
  Staged = "staged"
  Default = "default"
  Custom = "custom"
  DefaultPriority = 100
  c1 = c1
  c2 = c2
  Processes = {c1, c2}
  Commands <- MCCommands
  Profiles <- MCProfilesList
  Existing = {"a"}
  ExistingPolicy <- MCCustom
  Policies <- MCPolicies
  Measurements <- MCMeasurements
  DefaultAccount = "reserve"
  Retries = 1
  MaxEdits = 1
  MaxTroubles = 1
INVARIANTS AddedStays LinksFollowOnePolicy RunsOnThePromisedAccount
PROPERTIES CommandsEnd
CHECK_DEADLOCK FALSE
