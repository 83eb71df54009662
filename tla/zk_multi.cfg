SPECIFICATION Spec
CONSTANTS
  p1 = p1
  p2 = p2
  v1 = v1
  v2 = v2
  Nodes = {p1, p2}
  Parent = parent
  Plain = plain
  Absent = absent
  Fields <- DataOnly
  Values = {v1, v2}
  CString <- NoNul
  Calls = {"Create", "Multi"}
  MultiLists <- TwoOpLists
  OneAtATime = TRUE
  NoZeroSkips = TRUE
  Zeros = {}
  ResumeWaits = TRUE
  MaxCalls = 3
  MaxSessions = 2
  MaxDisconnects = 0
  MaxRestarts = 0
  MaxParentChanges = 0
INVARIANT
  RegistryIsTheServers
CHECK_DEADLOCK FALSE
