SPECIFICATION Spec
CONSTANTS
  IdCount = 4
  StartMode = "lasr_rasr"
  MaxEvents = 2
  FrameUnits = 1
  RingUnits = 1
  MaxChunk = 1
  RingFrames = 1
  Period = 2
  MaxTokens = 1
INVARIANTS OutOfDateExact OneCommander
PROPERTIES
  LinksStable AudioInAsAlone LasrAsAlone RelaunchEnds
