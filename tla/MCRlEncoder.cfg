SPECIFICATION EncoderFairSpec
CONSTANTS
  Values = {0, 1}
  WIDTH_COUNTER = 2
  LENGTH_RL = 2
  MaxSamples = 5
INVARIANTS
  OverflowIffLost
PROPERTIES
  EverySampleArrives
