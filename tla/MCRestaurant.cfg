CONSTANTS
  TRAY_SIZE = 1
  Crew <- MCShift
  MaxInterrupts = 2
  MaxReused = 1
SPECIFICATION FairRestaurantSpec
INVARIANTS
  NoWorkerAtRelease
  FirstCleanupSparesStrangers
PROPERTIES
  ClosedTraysAreStill
  TornTraysStayShut
  CleanupEnds
  ReportsUnlessHolderDies
  OrphansWorkOn
CHECK_DEADLOCK FALSE
