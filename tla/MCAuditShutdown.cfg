SPECIFICATION ShutdownSpec
\* The process ends.
CHECK_DEADLOCK FALSE
CONSTANTS
  NoLog = NoLog
  Log = {harness, support}
  Request = {r1, r2}
INVARIANTS
  StopsForAPoisonedLog
  CutOnlyAfterGrace
PROPERTY
  PoisonLeadsToExit
