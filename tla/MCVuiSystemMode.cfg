SPECIFICATION Spec
CONSTANTS
  IdCount = 3
  StartMode = "rasr_only"
  MaxEvents = 1
  FrameUnits = 1
  RingUnits = 1
  MaxChunk = 1
  RingFrames = 1
  Period = 2
  MaxTokens = 1
INVARIANT ModeRespected
