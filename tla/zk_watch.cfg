SPECIFICATION Spec
CONSTANTS
  p1 = p1
  c1 = c1
  c2 = c2
  Paths = {p1}
  Contexts = {c1, c2}
  Global = global
  Calls = {"Exists", "Get", "GetChildren", "AExists", "AGet", "AGetChildren"}
  GlobalCalls = {"AExists", "AGet", "AGetChildren"}
  ResumeWaits = TRUE
  MaxCalls = 2
  MaxSessions = 2
  MaxFailures = 1
  MaxChanges = 4
SYMMETRY ContextSymmetry
INVARIANTS
  CustomArmed
  GlobalArmed
  TablesAlive
CHECK_DEADLOCK FALSE
