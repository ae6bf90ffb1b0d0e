CONSTANT TRAY_SIZE = 2
SPECIFICATION Spec
INVARIANTS
  MutualExclusion
  PlacesConserved
  CountTracksDishes
  ReportIsSnapshot
  VeganTrayIsQueue
PROPERTIES
  StrayStoreConfined
  TraysImplementFoodTray
