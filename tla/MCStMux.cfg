SPECIFICATION Spec
CONSTANTS
  Beats = 2
  HALF = 2
  MaxBeats = 5
INVARIANTS
  ElementsIntact
  ReadIsTrue
