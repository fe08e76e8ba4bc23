SPECIFICATION FairSpec
\* A program that has ended, or a bound that is reached, stops the system.
CHECK_DEADLOCK FALSE
CONSTANTS
  Error = Error
  None = None
  WIDTH_DATA = 2
  WIDTH_TRIGGER = 1
  MEMORY_POSITIONS = 2
  PrngOrbit <- MCOrbit
  WIDTH_STAT = 2
  MAX_COUNT_T = 5
  TRANSPORT_SIZE = 2
  OUTPUT_SIZE = 2
  READBACK_SIZE = 2
  MAX_SIZE = 6
  Sequence <- MCSequence
  NSequences = 5
  Options <- MCOptions
  MaxPolls = 2
  MaxProcesses = 3
  DEPTH = 6
  MAX_SIZE_DMA = 3
  Loads = {1, 5}
  Repetitions = {0, 1, 2, 3, 8}
  MaxDmaProcesses = 2
  FIFO_WORDS = 3
  MAX_DEPTH = 1
  Wanted = {0, 1}
  MaxEvents = 3
  W = 4
  PathPrograms <- MCPathPrograms
  NPathPrograms = 5
  Streams <- MCStreams
  NStreams = 1
  TestRounds <- MCTestRounds
  NTestRounds = 1
  PythonPorts = {1}
  MaxPathProcesses = 2
  BootOptions <- MCBootOptions
  NBootOptions = 9
  CALC_MAX = 33
  Frequencies = {66, 825, 1700}
  MaxBoots = 2
  CounterSequences <- MCCounterSequences
  NCounterSequences = 2
  CROSSING = 4
  MaxSlack = 1
  MaxCounterProcesses = 2
  Profiles = {"", "50M", "80M", "100M", "nonsense", "out_of_range"}
  WebRequests <- MCWebRequests
  NWebRequests = 16
  WebConfigs <- MCWebConfigs
  NWebConfigs = 2
  Handlers = {h1, h2}
  MaxRequests = 2
  Sessions = {s1, s2}
  ScpiLines <- MCScpiLines
  NScpiLines = 9
  MaxLines = 2
  MainOptions <- MCMainOptions
  NMainOptions = 5
  MaxClients = 4
INVARIANTS
  OkMeansPlayed
  NoFalseAlarm
  DmaDelivers
  PairsMatch
  CodeTellsCause
  PathsRestored
  UpMeansReady
  ReportIsTrue
  WebTruthful
  SessionsKept
PROPERTIES
  QuietAfterTimeout
  Returns
  FailureEndsProgram
  ProgramEnds
