CONSTANTS
  TRAY_SIZE = 1
  Crew <- MCShift
  MaxInterrupts = 1
  MaxReused = 0
SPECIFICATION FairRestaurantSpec
PROPERTY CtrlCCloses
CHECK_DEADLOCK FALSE
