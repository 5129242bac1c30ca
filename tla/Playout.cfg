CONSTANTS
  v1 = v1
  v2 = v2
  a1 = a1
  a2 = a2
  VideoStreams = {v1, v2}
  AudioStreams = {a1, a2}
  SampleTypes = {"L16", "F32"}
  NoStream = NoStream
  Nothing = Nothing
  Gray = Gray
  MaxPictures = 3
  MaxSounds = 3
SPECIFICATION Spec
SYMMETRY Alike
INVARIANTS ViewFits SoundFits
\* A decoder that fails stops the program.
CHECK_DEADLOCK FALSE
