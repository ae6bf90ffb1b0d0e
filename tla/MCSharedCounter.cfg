CONSTANTS
  NUM_WRITERS = 3
  NUM_READERS = 2
  INCREMENT_LIMIT = 2
  START = 100
  MaxFailures = 1
SPECIFICATION Spec
INVARIANTS
  FinalValueExact
  ReadersSeeOneValue
