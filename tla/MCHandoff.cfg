CONSTANT ITEM_COUNT = 4
SPECIFICATION FairSpec
INVARIANTS
  NoLostWakeup
  PrintsOnlyNew
PROPERTIES
  ImplementsBox
  Terminates
CHECK_DEADLOCK FALSE
