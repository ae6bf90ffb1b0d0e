CONSTANTS
  SIGNALS = 8
  MaxTyped = 2
  MaxSignals = 2
  LIMIT = 4
  MaxPressed = 5
SPECIFICATION AllSpec
INVARIANTS
  SignalsAccounted
  TimerKeepsTime
PROPERTIES
  CountersEnd
  TermEnds
CHECK_DEADLOCK FALSE
