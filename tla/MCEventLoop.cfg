SPECIFICATION Spec
CONSTANTS
  Events = {e1, e2, e3}
  None = None
INVARIANTS OneOwner NoLostWakeup
PROPERTIES HighestServed DestroyEnds
\* A destroyed loop does nothing any more.
CHECK_DEADLOCK FALSE
