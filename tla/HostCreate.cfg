CONSTANTS
  McpOrder <- MCMcpOrder
  Lists <- MCLists
  Disabled <- MCDisabled
  Callers = {"c1", "c2"}
  Manager = "manager"
  Nobody = "nobody"
  PipeSize = 1
  MaxSaid = 1
  Histories <- MCHistories
  Words = {"w1", "w2"}
  Garbled = "garbled"
  TotalLimit = 1
  IdleLimit = 2
  MaxText = 2
  MaxCalls = 2
  MaxFragments = 1
  MaxParts = 2
  Hosts = {"h1", "h2"}
  ModelNames = {"a"}
  Definitions = {"d1", "d2"}
  NoModel = "no model"
  Settings = {"bypass", "mine"}
  Bypass = "bypass"
  UserFiles <- MCUserFiles
  Projects <- MCProjects
  DefaultModels <- MCDefaultModels
  MaxRequests = 4
SPECIFICATION ServicesSpec
INVARIANT ChosenModelOpens
CHECK_DEADLOCK FALSE
