SPECIFICATION Spec
CONSTANTS
  PrngOrbit <- MCOrbit
  WIDTH_DATA = 2
  WIDTH_TRIGGER = 1
  MEMORY_POSITIONS = 2
  WIDTH_STAT = 2
  LENGTH1 = 2
  LENGTH2 = 2
  almost_shift = 1
  LENGTH_OUT = 4
  OUT_SLACK = 3
  LENGTH_TRIG = 3
  Programs <- ControlPrograms
  InitialValues = {{}}
  GateIn = {TRUE}
  EnableIn = {TRUE, FALSE}
  ForceIn = {FALSE}
  TrigResetIn = {TRUE, FALSE}
  StopIn = {FALSE}
  StopOnErrorIn = {FALSE}
  MayReset = FALSE
  LoadBeforeEnable = TRUE
INVARIANTS
  SegmentTriggered
