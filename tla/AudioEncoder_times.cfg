CONSTANTS
  Out = 3
  Captures = {2, 4}
  SampleBytes = 4
  MaxBacklog = 6
  Period = 11
SPECIFICATION EncoderSpec
INVARIANT FromFirstSample
