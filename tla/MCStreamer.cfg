SPECIFICATION FairSpec
CONSTANTS
  PrngOrbit <- MCOrbit
  WIDTH_DATA = 2
  WIDTH_TRIGGER = 1
  MEMORY_POSITIONS = 2
  WIDTH_STAT = 2
  LENGTH1 = 2
  LENGTH2 = 2
  almost_shift = 1
  LENGTH_OUT = 4
  OUT_SLACK = 3
  LENGTH_TRIG = 3
  Programs <- MCPrograms
  InitialValues = {{}, {0}}
  GateIn = {TRUE, FALSE}
  EnableIn = {TRUE, FALSE}
  ForceIn = {FALSE}
  TrigResetIn = {FALSE}
  StopIn = {FALSE}
  StopOnErrorIn = {TRUE, FALSE}
  MayReset = TRUE
  LoadBeforeEnable = TRUE
INVARIANTS
  PlayedAsProgrammed
  DoneMeansComplete
  OutputNeverDrops
  QoutShowsPlayed
  SegmentTriggered
PROPERTIES
  Completion
