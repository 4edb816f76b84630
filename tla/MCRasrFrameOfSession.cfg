SPECIFICATION Spec
CONSTANTS
  Sessions = {s0, s1}
  FrameUnits = 2
  RingFrames = 2
SYMMETRY Symmetry
INVARIANT FrameOfSession
\* A behaviour ends at an overrun.
CHECK_DEADLOCK FALSE
