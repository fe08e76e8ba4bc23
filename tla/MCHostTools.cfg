SPECIFICATION Spec
CHECK_DEADLOCK FALSE
CONSTANTS
  Error = Error
  None = None
  WIDTH_DATA = 4
  WIDTH_TRIGGER = 2
  MEMORY_POSITIONS = 2
  PrngOrbit <- MCOrbit
  WIDTH_STAT = 2
  MAX_COUNT_T = 7
  MAX_U64 = 63
  KILO = 2
  BYTE = 6
  FULL_DUTY = 4
  SERVO_PERIOD = 8
  Programs = {"script", "ppread", "ppfg", "spi", "dds", "vcdtime", "pptest", "continuous", "gpsdo", "pptemp", "ppfreq"}
  Pool <- MCPool
  Captures <- MCCaptures
  WIDTH_CONTROL = 2
  WIDTH_COUNTER = 3
  WIDTH_AVS_BUS = 3
  MaxElements = 3
  InitialValues = {{0, 2}}
  FgPeriods = {1, 2, 3, 6, 7}
  FgServos = {0, 2, 9}
  FgDuties = {0, 1, 2, 3, 4}
  FgRepetitions = {0, 1, 3}
  SpiConfigs <- MCSpiConfigs
  SpiBytes <- MCSpiBytes
  MaxBytes = 2
  MaxTicks = 30
  DdsConfig <- MCDds
  PgaConfig <- MCPga
  Outputs = {0, 1, 7, 24, 25}
  MasterClock = 25
  Gains = {0, 2, 3}
  MaxGain = 3
  ScaleArgs <- MCScaleArgs
  MAX_SIZE = 3
  SelfTestRuns <- MCSelfTests
  TRIGGER_AT = 1
  NrContinuous = 4
  LoopConfigs <- MCLoops
  Phases = {0, 1, 3, 7}
  MaxPairs = 5
  TempArgs <- MCTempArgs
  MaxPolls = 3
  COUNTER_W = 5
  CYCLES_PER_US = 5
  SETTLE_US = 3
  DEFAULT_GATE = 6
  FreqRuns <- MCFreqRuns
  MaxLate = 1
INVARIANTS
  FinalKnown
  ReferenceMatches
  FilesFaithful
  TraceKept
  PulsesAsAsked
  DevicesHold
