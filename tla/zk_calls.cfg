SPECIFICATION Spec
CONSTANTS
  p1 = p1
  p2 = p2
  v1 = v1
  v2 = v2
  Nodes = {p1, p2}
  Parent = parent
  Plain = plain
  Absent = absent
  Fields <- AllFields
  Values = {v1, v2}
  CString <- NoNul
  Calls = {"Create", "Set", "SetAcl", "Delete", "ACreate", "ASet", "ASetAcl", "ADelete",
    "CreateExistSkip", "Multi", "AMulti", "CreatePathRecursion", "DeletePathRecursion"}
  MultiLists <- OneOpLists
  OneAtATime = TRUE
  NoZeroSkips = TRUE
  Zeros = {}
  ResumeWaits = TRUE
  MaxCalls = 3
  MaxSessions = 2
  MaxDisconnects = 1
  MaxRestarts = 1
  MaxParentChanges = 1
SYMMETRY NodesAndValues
INVARIANTS
  RegistryIsTheServers
  NoResurrection
PROPERTY
  ResumeKeepsInfo
CHECK_DEADLOCK FALSE
