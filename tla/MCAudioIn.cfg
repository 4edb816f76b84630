SPECIFICATION LifeSpec
CONSTANTS
  Sessions = {0, 1, 2}
  FrameUnits = 2
  RingUnits = 4
  MaxChunk = 3
INVARIANTS
  TypeOK ClearAlone FrameOfOneSession AnsweredOnce
PROPERTIES CommandsReturn AudioFlows
\* A destroyed handle does nothing any more.
CHECK_DEADLOCK FALSE
