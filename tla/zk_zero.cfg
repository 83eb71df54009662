SPECIFICATION Spec
CONSTANTS
  p1 = p1
  p2 = p2
  v1 = v1
  v2 = v2
  Nodes = {p1}
  Parent = parent
  Plain = plain
  Absent = absent
  Fields <- DataOnly
  Values = {v1, v2}
  CString <- NoNul
  Calls = {"Create", "CreateExistSkip"}
  MultiLists <- OneOpLists
  OneAtATime = TRUE
  NoZeroSkips = FALSE
  Zeros = {v1}
  ResumeWaits = TRUE
  MaxCalls = 2
  MaxSessions = 1
  MaxDisconnects = 0
  MaxRestarts = 0
  MaxParentChanges = 0
INVARIANT
  RegistryIsTheServers
CHECK_DEADLOCK FALSE
