SPECIFICATION Spec
CONSTANTS
  Users = {u1, u2}
  Events = {e1, e2, e3}
  MaxEntries = 1
  None = None
CHECK_DEADLOCK FALSE
INVARIANTS
  SerialPerUser
  CaseIsKept
PROPERTIES
  EveryMessageIsHandled
