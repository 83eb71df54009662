SPECIFICATION Spec
CONSTANTS
  p1 = p1
  c1 = c1
  c2 = c2
  Paths = {p1}
  Contexts = {c1}
  Global = global
  Calls = {"Get"}
  GlobalCalls = {}
  ResumeWaits = TRUE
  MaxCalls = 1
  MaxSessions = 1
  MaxFailures = 0
  MaxChanges = 2
INVARIANT
  EventsAlive
CHECK_DEADLOCK FALSE
