SPECIFICATION FairSpec
CONSTANTS
  p1 = p1
  c1 = c1
  c2 = c2
  Paths = {p1}
  Contexts = {c1}
  Global = global
  Calls = {}
  GlobalCalls = {"AGet"}
  ResumeWaits = TRUE
  MaxCalls = 1
  MaxSessions = 2
  MaxFailures = 0
  MaxChanges = 1
PROPERTY
  SessionReplaced
CHECK_DEADLOCK FALSE
