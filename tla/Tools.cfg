CONSTANTS
  ToolSet <- MCToolSet
  PermissionOf <- MCPermissionOf
  Denylist <- MCDenylist
  Allowlist <- MCAllowlist
  ArgPaths = {"in", "out", "secret", "session"}
  NoPath = "no path"
  UnderWorkDir = {"in", "secret"}
  WithinWorkDir = {"in", "secret"}
  WithinSession = {"session"}
  Dangerous = {"rm", "rm*"}
  Harmless = "ls"
  GlobOf <- MCGlobOf
  Policies <- MCPolicies
  Endless <- MCEndless
  SessionIds = {"default"}
  Places = {"here", "sub", "file", "gone"}
  Dirs = {"here", "sub"}
  Files = {"file"}
  Here = "here"
  ExportNames = {"x"}
  Unset = "unset"
  MaxLines = 2
  Texts <- MCTexts
  Parts <- MCParts
  Saves <- MCSaves
  MaxSaves = 1
  MaxPairs = 2
  TodoIds = {"i1", "i2"}
  MaxTurnsLogged = 1
  MaxTasks = 1
  MaxTodoWrites = 2
SPECIFICATION ToolsSpec
INVARIANTS RunsByRight EndedCallsLeaveNoShell ExitReportsAll NeverTorn EditsAreExact LogHasTheList
PROPERTIES CallsAnswered RunsEnd
CHECK_DEADLOCK FALSE
