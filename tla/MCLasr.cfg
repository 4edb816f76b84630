SPECIFICATION LifeSpec
CONSTANTS
  VuiIds = {0, 1, 2}
  RingFrames = 2
  Period = 2
  MaxTokens = 2
INVARIANTS
  TypeOK ClearAlone ResultSession QuietAfterStop NoLeftovers NoUseAfterDestroy
PROPERTIES CommandsReturn FullRingDrains
\* A destroyed handle does nothing any more.
CHECK_DEADLOCK FALSE
