SPECIFICATION IfSpec
CONSTANTS
  PrngOrbit <- MCOrbit
  WIDTH_DATA = 2
  WIDTH_TRIGGER = 1
  MEMORY_POSITIONS = 1
  WIDTH_STAT = 1
  LENGTH1 = 2
  LENGTH2 = 2
  almost_shift = 1
  LENGTH_OUT = 3
  OUT_SLACK = 3
  LENGTH_TRIG = 2
  GateIn = {FALSE}
  EnableIn = {FALSE}
  ForceIn = {FALSE}
  TrigResetIn = {FALSE}
  StopIn = {FALSE}
  StopOnErrorIn = {FALSE}
  LoadBeforeEnable = TRUE
  Programs <- PlaybackPrograms
  InitialValues = {{}}
  MayReset = FALSE
  CtrlWords <- PlaybackCtrl
  OverrideWords = {{1}}
  GatingWords <- PlaybackGating
  MaxReloads = 0
  MaxUpdates = 1
PROPERTIES
  ConfigFixedDuringPlayback
  PinsChangeOnlyByPlaying
