SPECIFICATION LifeSpec
CONSTANTS
  VuiIds = {0, 1}
  RingFrames = 2
  Period = 2
  MaxTokens = 2
PROPERTY DestroyReturns
\* The last steps of a destroyed handle, or of a caller that hangs in LasrDestroy.
CHECK_DEADLOCK FALSE
