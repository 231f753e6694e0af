SPECIFICATION Spec
CONSTANTS
  Logins = {l1, l2}
  Requests = {r1, r2, r3}
  StateTtl = 2
  CodeTtl = 1
  MaxAge = 2
  MaxUsedJtis = 2
  PruneThreshold = 1
  EndOfTime = 3
  None = None
SYMMETRY Interchangeable
CHECK_DEADLOCK FALSE
INVARIANTS
  SingleUseUntilExpiry
  CodeIsNotBurnt
PROPERTIES
  ClosedOnlyByLive
  SessionsAreForCause
