SPECIFICATION FairSpec
CONSTANTS
  p1 = p1
  p2 = p2
  v1 = v1
  v2 = v2
  Nodes = {p1, p2}
  Parent = parent
  Plain = plain
  Absent = absent
  Fields <- DataOnly
  Values = {v1, v2}
  CString <- NoNul
  Calls = {"Create", "CreateExistSkip", "Delete"}
  MultiLists <- OneOpLists
  OneAtATime = TRUE
  NoZeroSkips = FALSE
  Zeros = {v1}
  ResumeWaits = TRUE
  MaxCalls = 3
  MaxSessions = 3
  MaxDisconnects = 0
  MaxRestarts = 0
  MaxParentChanges = 1
PROPERTY
  NodesComeBack
CHECK_DEADLOCK FALSE
