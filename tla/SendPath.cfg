CONSTANTS
  a1 = a1
  a2 = a2
  v1 = v1
  r1 = r1
  AudioStreams = {a1, a2, r1}
  VideoStreams = {v1}
  RecvOnly = {r1}
  MaxFrames = 3
SPECIFICATION Spec
SYMMETRY Microphones
INVARIANTS TypeOK NamesFollow GroupsAreGops
\* The application may stop capturing.
CHECK_DEADLOCK FALSE
