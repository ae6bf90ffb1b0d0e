CONSTANTS
  CHUNKS = 3
  CAPACITY = 1
SPECIFICATION FairSpec
INVARIANTS
  CountIsComplete
  PipeBreaksOnlyByFailure
PROPERTY EverybodyEnds
CHECK_DEADLOCK FALSE
