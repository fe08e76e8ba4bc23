SPECIFICATION IfFairSpec
CONSTANTS
  PrngOrbit <- MCOrbit
  WIDTH_DATA = 2
  WIDTH_TRIGGER = 1
  MEMORY_POSITIONS = 1
  WIDTH_STAT = 1
  LENGTH1 = 2
  LENGTH2 = 2
  almost_shift = 1
  LENGTH_OUT = 3
  OUT_SLACK = 3
  LENGTH_TRIG = 2
  GateIn = {FALSE}
  EnableIn = {FALSE}
  ForceIn = {FALSE}
  TrigResetIn = {FALSE}
  StopIn = {FALSE}
  StopOnErrorIn = {FALSE}
  LoadBeforeEnable = TRUE
  Programs <- ReloadPrograms
  InitialValues = {{}, {1}}
  MayReset = FALSE
  CtrlWords <- ReloadCtrl
  OverrideWords = {}
  GatingWords = {}
  MaxReloads = 2
  MaxUpdates = 2
PROPERTIES
  ReloadCompletes
