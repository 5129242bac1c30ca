CONSTANTS
  c1 = c1
  a1 = a1
  v1 = v1
  Streams = {a1, v1}
  Clients = {c1}
  ClientOf <- MCClientOf
  VideoStreams = {v1}
  NoStream = NoStream
  MaxArrivals = 2
SPECIFICATION FairSpec
INVARIANTS TypeOK InOrder LostOnlyAtEntry ConfiguredFirst AnnouncedOnce
PROPERTY EveryMessageTaken
\* A crash of the process ends everything.
CHECK_DEADLOCK FALSE
