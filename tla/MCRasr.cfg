SPECIFICATION LifeSpec
CONSTANTS
  Sessions = {s0, s1}
  FrameUnits = 2
  RingFrames = 2
SYMMETRY Symmetry
INVARIANTS TypeOK CleanUnlessMet
\* A destroyed handle stops, and a behaviour ends at an overrun.
CHECK_DEADLOCK FALSE
