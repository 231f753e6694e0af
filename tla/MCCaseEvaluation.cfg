SPECIFICATION Spec
CONSTANTS
  angry = angry  broken = broken  hazard = hazard
  Signals = {angry, broken, hazard}
  Hazards = {hazard}
  Rules <- MCRules
  Domains <- MCDomains
  Resolutions <- MCResolutions
  Scores = {0, 1, 2}
  Low = 1  Mid = 2  High = 3
  CandidateLimit = 1
  NoResolution = NoResolution
  Customer = customer
  Operators = {operator}
  MaxEvaluations = 3
  MaxAttempts = 1
\* The bounded evaluations are used up.
CHECK_DEADLOCK FALSE
INVARIANTS
  InScopeSignalsCount
  WithdrawnSignalsDoNot
  StopSignalsEscalate
  HazardBlocksKnownResolution
  AttemptsFollowTheirEvaluation
