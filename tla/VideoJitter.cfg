CONSTANTS
  MaxSeq = 8
  IntraSeqs = {0, 6}
  MaxSize = 7
  Repeated = {1}
  Lost = {3}
  InTurn = {4, 5, 6, 7, 8}
  AudioTimes = {3}
  UIntMax = 8
  RecordTime <- MCRecordTime
  Deliveries <- MCDeliveries
SPECIFICATION MCSpec
INVARIANTS TypeOK QueueSorted FramesAccounted QueueFresh WalkDecides 
PROPERTIES NeverBack ReferencesDecoded IsReorderBuffer DrainsToReserve
