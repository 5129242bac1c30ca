CONSTANTS
  MaxSeq = 4
  Length = 1
  Repeated = {2}
  Deliveries <- MCDeliveries
SPECIFICATION FairSpec
INVARIANTS TypeOK GapsConcealed FramesAccounted QueueFresh IdleBounded
PROPERTIES NeverBack LoopEnds PlaysOut
CHECK_DEADLOCK FALSE
