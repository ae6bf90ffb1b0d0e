CONSTANT TRAY_SIZE = 1
SPECIFICATION FairSpec
PROPERTIES
  ManagerKeepsReporting
  Customer3EatsBoth
