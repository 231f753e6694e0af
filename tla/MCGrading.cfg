SPECIFICATION Spec
CONSTANTS
  a1 = a1  a2 = a2  a3 = a3
  o1 = o1  o2 = o2
  c1 = c1  c2 = c2
  Attempts = {a1, a2, a3}
  Linked = {a1, a2}
  Actors = {o1, o2}
  Legacy = {o2}
  Calls = {c1, c2}
  PromoteApprovals = 1
  PromoteApprovers = 1
  DemoteRejections = 1
  RateNum = 1
  RateDen = 2
  AttemptQueryLimit = 2
  None = None
SYMMETRY MCSymmetry
INVARIANTS AcknowledgedAreCounted AutoAnswerIsEarned
PROPERTIES OutcomeWriteOnce
