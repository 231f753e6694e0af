SPECIFICATION Spec
CONSTANTS
  NoThread = NoThread
  NoEvent = NoEvent
  Thread = {t1, t2}
  Event = {e1, e2, e3}
INVARIANTS
  ChainNeverForks
  AcknowledgedIsDurable
  RefusedLeavesNoTrace
PROPERTIES
  ImplementsTrail
