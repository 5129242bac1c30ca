CONSTANTS
  Out = 2
  Captures = {5}
  SampleBytes = 4
  MaxBacklog = 5
  Period = 11
SPECIFICATION EncoderFairSpec
PROPERTY MatchesRates
