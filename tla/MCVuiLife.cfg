CONSTANTS
  MaxFailures = 1
  MaxStarts = 2
SPECIFICATION Spec
CHECK_DEADLOCK FALSE
INVARIANTS
  AllOrNothing
  NoUseAfterFree
  EveryNodeTold
PROPERTIES
  PipelineAsAlone
  LinksAsTree
  CallsReturn
