SPECIFICATION FairSpec
CONSTANTS
  WIDTH_DATA = 2
  WIDTH_TRIGGER = 1
  MEMORY_POSITIONS = 2
  PrngOrbit <- MCOrbit
  LENGTH1 = 4
  LENGTH2 = 4
  almost_shift = 1
  WIDTH_STAT = 3
  Programs <- MCPrograms
  Horizon = 12
INVARIANTS
  PoppedAsUnrolled
  InputNeverOverflows
PROPERTIES
  AllPopped
